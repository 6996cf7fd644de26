--------------------------- MODULE ServicesProofs ---------------------------
(***************************************************************************)
(* The parts around the accounts that share no state with each other: the  *)
(* captchas, the staff of the administration, the migrations, the          *)
(* collection of news, the rate limiter; and the types of all of them.     *)
(***************************************************************************)
EXTENDS Services, FiniteSetTheorems, SequenceTheorems, TLAPS

-----------------------------------------------------------------------------
(***************************************************************************)
(* Captchas.  Counting the right answers is not enough: an answer that is  *)
(* going to count needs that none has counted so far, so the invariant     *)
(* says what a login that has read a captcha may still do with it.         *)
(***************************************************************************)
\* A captcha that no two logins had at a time has one reader at most, and none
\* once it has let somebody in.
OneReader == \A c \in Captchas \ met :
  /\ \A q, o \in Logins : login[q] = c /\ login[o] = c => q = o
  /\ accepted[c] # 0 => accepted[c] = 1 /\ key[c] = "gone" /\ \A q \in Logins : login[q] # c

CaptchaInv == CaptchaTypeOK /\ OneReader

\* Every command of a login keeps it, whichever of them fail.
LEMMA CaptchaStep == CaptchaInv /\ [CaptchaNext]_captchaVars => CaptchaInv'
  <1> SUFFICES ASSUME CaptchaInv, [CaptchaNext]_captchaVars PROVE CaptchaInv'
    OBVIOUS
  <1> USE CaptchaAssumption DEF CaptchaInv, CaptchaTypeOK, OneReader
  <1>1. ASSUME NEW c \in Captchas, Set(c) PROVE CaptchaInv'
    BY <1>1 DEF Set
  <1>2. ASSUME NEW c \in Captchas, Expire(c) PROVE CaptchaInv'
    BY <1>2 DEF Expire
  <1>3. ASSUME NEW q \in Logins, VerifyDel(q) PROVE CaptchaInv'
    <2> DEFINE c == login[q]
    <2>1. /\ c \in Captchas /\ met' = met
          /\ key' = [key EXCEPT ![c] = "gone"]
          /\ accepted' = [accepted EXCEPT ![c] = @ + 1]
          /\ login' = [login EXCEPT ![q] = "idle"]
      BY <1>3 DEF VerifyDel
    <2>2. CaptchaTypeOK'
      BY <2>1
    <2>3. c \notin met => accepted[c] = 0
      BY <2>1
    <2> HIDE DEF c
    <2>4. ASSUME NEW d \in Captchas \ met
          PROVE  /\ \A r, o \in Logins : login'[r] = d /\ login'[o] = d => r = o
                 /\ accepted'[d] # 0 =>
                      accepted'[d] = 1 /\ key'[d] = "gone" /\ \A r \in Logins : login'[r] # d
      <3>1. CASE d = c
        BY <2>1, <2>3, <3>1 DEF c
      <3>2. CASE d # c
        BY <2>1, <3>2
      <3> QED BY <3>1, <3>2
    <2> QED BY <2>1, <2>2, <2>4
  <1>4. ASSUME NEW q \in Logins, VerifyDelFails(q) PROVE CaptchaInv'
    BY <1>4 DEF VerifyDelFails
  <1>5. ASSUME NEW q \in Logins, NEW c \in Captchas, VerifyGet(q, c) PROVE CaptchaInv'
    <2>1. /\ login[q] = "idle" /\ key[c] = "stored"
          /\ login' = [login EXCEPT ![q] = c]
          /\ met' = IF \E o \in Logins : login[o] = c THEN met \cup {c} ELSE met
          /\ key' = key /\ accepted' = accepted
      BY <1>5 DEF VerifyGet
    <2>2. CaptchaTypeOK'
      BY <2>1
    <2>3. met \subseteq met' /\ (c \in met' \/ \A o \in Logins : login[o] # c)
      BY <2>1
    <2>4. OneReader'
      BY <2>1, <2>3
    <2> QED BY <2>2, <2>4
  <1>6. CASE UNCHANGED captchaVars
    BY <1>6 DEF captchaVars
  <1> QED BY <1>1, <1>2, <1>3, <1>4, <1>5, <1>6 DEF CaptchaNext

\* A captcha lets one login in, with any number of them trying at a time.
THEOREM CaptchaUsedUp == CaptchaSpec => []AcceptedOnce
  <1>1. CaptchaInit => CaptchaInv
    BY CaptchaAssumption DEF CaptchaInit, CaptchaInv, CaptchaTypeOK, OneReader
  <1>2. CaptchaInv => AcceptedOnce
    <2>1. ASSUME CaptchaInv, NEW c \in Captchas \ met PROVE accepted[c] <= 1
      <3>1. accepted[c] = 0 \/ accepted[c] = 1
        BY <2>1 DEF CaptchaInv, OneReader
      <3> QED BY <3>1
    <2> QED BY <2>1 DEF AcceptedOnce
  <1> QED BY <1>1, <1>2, CaptchaStep, PTL DEF CaptchaSpec

-----------------------------------------------------------------------------
(***************************************************************************)
(* Staff.  What a request has looked up is as old as its look: the         *)
(* invariant says what of it is still true when the request writes.        *)
(***************************************************************************)
\* A user about to be saved has a role of his tenant, unless it was moved.
RolesLookedUp == \A a \in Clerks :
  clerk[a].doing \in {"add", "update"} =>
    clerk[a].new.role \in shifted \/ roleTenant[clerk[a].new.role] = clerk[a].new.tenant

\* A department whose users were counted has only users that came later.
CountedEmpty == \A a \in Clerks : clerk[a].doing = "close" =>
  \A u \in DOMAIN staff : staff[u].dept = clerk[a].dept => u \in latecomers

\* The shape of the rows and requests.
StaffShape ==
  /\ DOMAIN staff \subseteq Users /\ staff \in [DOMAIN staff -> UserRecords]
  /\ roleTenant \in [Roles -> Tenants \cup {"deleted"}]
  /\ department \in [Departments -> {"unused", "live", "deleted"}]
  /\ clerk \in [Clerks -> {Idler} \cup
       [doing : {"add", "update"}, who : Users, new : UserRecords]
       \cup [doing : {"close"}, dept : Departments]]

StaffInv == StaffShape /\ RolesLookedUp /\ CountedEmpty /\ WellPlaced

\* At the start there is Boss, whose role and department are there.
LEMMA StaffInitInv == StaffInit => StaffInv
  <1> SUFFICES ASSUME StaffInit PROVE StaffInv
    OBVIOUS
  <1>1. PICK r \in Roles, d \in Departments :
          staff = [u \in {Boss} |-> [tenant |-> roleTenant[r], role |-> r, dept |-> d]]
    BY DEF StaffInit
  <1>2. DOMAIN staff = {Boss} /\ staff[Boss] = [tenant |-> roleTenant[r], role |-> r, dept |-> d]
    BY <1>1
  <1>3. StaffShape
    BY <1>1, <1>2, StaffAssumption DEF StaffInit, StaffShape, UserRecords, Idler
  <1>4. RolesLookedUp /\ CountedEmpty
    BY DEF StaffInit, RolesLookedUp, CountedEmpty, Idler
  <1>5. WellPlaced
    BY <1>2 DEF StaffInit, WellPlaced
  <1> QED BY <1>3, <1>4, <1>5 DEF StaffInv

\* Users, roles and departments change under the hands of the requests.
LEMMA StaffStep == StaffInv /\ [StaffNext]_staffVars => StaffInv'
  <1> SUFFICES ASSUME StaffInv, [StaffNext]_staffVars PROVE StaffInv'
    OBVIOUS
  <1>0. StaffShape /\ RolesLookedUp /\ CountedEmpty /\ WellPlaced
    BY DEF StaffInv
  <1>1. ASSUME NEW a \in Clerks, NEW doing \in {"add", "update"}, NEW u \in Users,
               NEW new \in UserRecords, CheckRole(a, doing, u, new)
        PROVE  StaffInv'
    <2>1. /\ roleTenant[new.role] = new.tenant
          /\ clerk' = [clerk EXCEPT ![a] = [doing |-> doing, who |-> u, new |-> new]]
          /\ staff' = staff /\ roleTenant' = roleTenant /\ department' = department
          /\ shifted' = shifted /\ latecomers' = latecomers
      BY <1>1 DEF CheckRole
    <2>2. StaffShape'
      BY <1>0, <2>1 DEF StaffShape
    <2>3. RolesLookedUp' /\ CountedEmpty' /\ WellPlaced'
      BY <1>0, <2>1 DEF StaffShape, RolesLookedUp, CountedEmpty, WellPlaced
    <2> QED BY <2>2, <2>3 DEF StaffInv
  <1>2. ASSUME NEW a \in Clerks, NEW d \in Departments, CountMembers(a, d) PROVE StaffInv'
    <2>1. /\ department[d] = "live" /\ \A u \in DOMAIN staff : staff[u].dept # d
          /\ clerk' = [clerk EXCEPT ![a] = [doing |-> "close", dept |-> d]]
          /\ staff' = staff /\ roleTenant' = roleTenant /\ department' = department
          /\ shifted' = shifted /\ latecomers' = latecomers
      BY <1>2 DEF CountMembers, Members
    <2>2. StaffShape'
      BY <1>0, <2>1 DEF StaffShape
    <2>3. RolesLookedUp' /\ CountedEmpty' /\ WellPlaced'
      BY <1>0, <2>1 DEF StaffShape, RolesLookedUp, CountedEmpty, WellPlaced
    <2> QED BY <2>2, <2>3 DEF StaffInv
  <1>3. ASSUME NEW a \in Clerks, SaveUser(a) PROVE StaffInv'
    <2> DEFINE u == clerk[a].who
               new == clerk[a].new
               saved == clerk[a].doing = "add" \/ u \in DOMAIN staff
    <2>1. /\ clerk[a].doing \in {"add", "update"}
          /\ staff' = IF saved
                      THEN [v \in DOMAIN staff \cup {u} |-> IF v = u THEN new ELSE staff[v]]
                      ELSE staff
          /\ latecomers' = IF ~saved THEN latecomers
                           ELSE IF new.dept \in Closing THEN latecomers \cup {u}
                           ELSE latecomers \ {u}
          /\ clerk' = [clerk EXCEPT ![a] = Idler]
          /\ roleTenant' = roleTenant /\ department' = department /\ shifted' = shifted
      BY <1>3 DEF SaveUser
    <2>2. /\ u \in Users /\ new \in UserRecords
          /\ new.role \in shifted \/ roleTenant[new.role] = new.tenant
      BY <1>0, <2>1 DEF StaffShape, RolesLookedUp, Idler
    <2>3. new.dept \notin Closing =>
            /\ department[new.dept] = "live"
            /\ \A b \in Clerks : clerk[b].doing = "close" => clerk[b].dept # new.dept
      BY <2>2 DEF Closing, UserRecords
    <2> HIDE DEF u, new
    <2>4. /\ \A v \in DOMAIN staff' : (v = u /\ staff'[v] = new /\ saved)
               \/ (v \in DOMAIN staff /\ staff'[v] = staff[v] /\ (v = u => ~saved))
          /\ DOMAIN staff' \subseteq Users
      BY <1>0, <2>1, <2>2 DEF StaffShape
    <2>5. StaffShape'
      BY <1>0, <2>1, <2>2 DEF StaffShape
    <2>6. RolesLookedUp'
      BY <1>0, <2>1 DEF StaffShape, RolesLookedUp, Idler
    <2>7. CountedEmpty'
      BY <1>0, <2>1, <2>3, <2>4 DEF StaffShape, CountedEmpty, Idler
    <2>8. WellPlaced'
      BY <1>0, <2>1, <2>2, <2>3, <2>4 DEF WellPlaced
    <2> QED BY <2>5, <2>6, <2>7, <2>8 DEF StaffInv
  <1>4. ASSUME NEW a \in Clerks, DeleteDepartment(a) PROVE StaffInv'
    <2> DEFINE d == clerk[a].dept
    <2>1. /\ clerk[a].doing = "close"
          /\ department' = [department EXCEPT ![d] = "deleted"]
          /\ clerk' = [clerk EXCEPT ![a] = Idler]
          /\ staff' = staff /\ roleTenant' = roleTenant
          /\ shifted' = shifted /\ latecomers' = latecomers
      BY <1>4 DEF DeleteDepartment
    <2>2. \A u \in DOMAIN staff : staff[u].dept = d => u \in latecomers
      BY <1>0, <2>1 DEF CountedEmpty
    <2>3. StaffShape'
      BY <1>0, <2>1 DEF StaffShape
    <2>4. RolesLookedUp' /\ CountedEmpty'
      BY <1>0, <2>1 DEF StaffShape, RolesLookedUp, CountedEmpty, Idler
    <2>5. WellPlaced'
      <3> HIDE DEF d
      <3> QED BY <1>0, <2>1, <2>2 DEF StaffShape, WellPlaced, UserRecords
    <2> QED BY <2>3, <2>4, <2>5 DEF StaffInv
  <1>5. ASSUME NEW a \in Clerks, GiveUp(a) PROVE StaffInv'
    BY <1>0, <1>5 DEF GiveUp, StaffInv, StaffShape, RolesLookedUp, CountedEmpty, WellPlaced, Idler
  <1>6. ASSUME NEW u \in Users, DeleteUser(u) PROVE StaffInv'
    <2>1. /\ staff' = [v \in DOMAIN staff \ {u} |-> staff[v]]
          /\ roleTenant' = roleTenant /\ department' = department /\ clerk' = clerk
          /\ shifted' = shifted /\ latecomers' = latecomers
      BY <1>6 DEF DeleteUser, Restrict
    <2>2. StaffShape'
      BY <1>0, <2>1 DEF StaffShape
    <2>3. RolesLookedUp' /\ CountedEmpty' /\ WellPlaced'
      BY <1>0, <2>1 DEF RolesLookedUp, CountedEmpty, WellPlaced
    <2> QED BY <2>2, <2>3 DEF StaffInv
  <1>7. ASSUME NEW d \in Departments, AddDepartment(d) PROVE StaffInv'
    BY <1>0, <1>7 DEF AddDepartment, StaffInv, StaffShape, RolesLookedUp, CountedEmpty, WellPlaced,
                      UserRecords
  <1>8. ASSUME NEW r \in Roles, NEW t \in Tenants \cup {"deleted"}, ShiftRole(r, t)
        PROVE  StaffInv'
    <2>1. /\ roleTenant' = [roleTenant EXCEPT ![r] = t] /\ shifted' = shifted \cup {r}
          /\ staff' = staff /\ department' = department /\ clerk' = clerk
          /\ latecomers' = latecomers
      BY <1>8 DEF ShiftRole
    <2>2. StaffShape'
      BY <1>0, <2>1 DEF StaffShape
    <2>3. RolesLookedUp' /\ CountedEmpty' /\ WellPlaced'
      BY <1>0, <2>1 DEF StaffShape, RolesLookedUp, CountedEmpty, WellPlaced
    <2> QED BY <2>2, <2>3 DEF StaffInv
  <1>9. CASE UNCHANGED staffVars
    BY <1>0, <1>9 DEF staffVars, StaffInv, StaffShape, RolesLookedUp, CountedEmpty, WellPlaced
  <1> QED BY <1>1, <1>2, <1>3, <1>4, <1>5, <1>6, <1>7, <1>8, <1>9 DEF StaffNext

\* Every user has a role of his tenant and a department that is there, but for
\* those whose role was moved or who were put in a department on its way out.
THEOREM StaffWellPlaced == StaffSpec => []WellPlaced
  <1>1. StaffInv => WellPlaced
    BY DEF StaffInv
  <1> QED BY StaffInitInv, StaffStep, <1>1, PTL DEF StaffSpec

-----------------------------------------------------------------------------
(***************************************************************************)
(* Migrations.  Looking at a table and writing it are separate statements, *)
(* so the invariant says how far what a migration has seen can be relied   *)
(* on: alone, all of it; with another one under way, only what the keys    *)
(* enforce and what nobody can take away.                                  *)
(***************************************************************************)
ItemNames == {"data", "customers", "funds", "devices", "positions", "records", "settings",
              "leverage", "recharges", "withdrawals", "sequences"}

Places == [item : Away \cup ItemNames, looked : BOOLEAN, missing : BOOLEAN]

\* The shape of the tables and of the migrations.
MigrationShape ==
  /\ copies \in [Tables -> Nat]
  /\ deleted \subseteq Edited /\ added \subseteq Edited
  /\ at \in [Migrators -> Places]
  /\ cleared \in BOOLEAN /\ finished \in BOOLEAN /\ overlapped \in BOOLEAN

\* Without an overlap one migration at most is under way.
OneAtATime == ~overlapped => \A m, n \in Migrators : Under(m) /\ Under(n) => m = n

\* What the transaction at the beginning of a migration fills.
DataTables == {"tenants", "articles", "sources", "roles", "departments", "users", "customers"}

\* The transaction has been carried out, as far as nothing was deleted, or not at all.
DataTogether ==
  /\ copies["users"] = 0 =>
       (\A t \in DataTables : copies[t] = 0) /\ deleted = {} /\ added = {} /\ ~cleared
  /\ copies["users"] > 0 =>
       /\ copies["tenants"] > 0 /\ copies["departments"] > 0
       /\ deleted = {} => \A t \in DataTables : copies[t] > 0

\* The keys keep the defaults from being there twice, a count the others from
\* being there twice after one another, and the recharges come first.
SeededInv ==
  /\ \A t \in Keyed \cup {"articles"} : copies[t] <= 1
  /\ ~overlapped => \A t \in Tables : copies[t] <= 1
  /\ copies["withdrawals"] > 0 => copies["recharges"] > 0

\* The defaults of t are there, or rows of an administrator that stand for them.
Has(t) == copies[t] >= 1 \/ t \in added

NothingDeleted == deleted = {} /\ ~cleared

FinishedInv == finished /\ NothingDeleted => \A t \in Tables \ {"withdrawals"} : Has(t)

\* The old position is as it was or has been given its margin and its refund.
Unrefunded == money = [cost |-> Leverage, margin |-> 0, refund |-> 0]

MoneyInv == ~overlapped =>
  \/ Unrefunded
  \/ money = [cost |-> 0, margin |-> 0, refund |-> 0]
  \/ money.cost = Leverage /\ money.margin > 0 /\ money.margin + money.refund = money.cost

\* The tables that have been filled before the item.
Before(item) ==
  IF item \in {"off", "failed", "data"} THEN {}
  ELSE DataTables
       \cup (IF item \in {"customers", "funds", "devices"} THEN {} ELSE {"devices"})
       \cup (IF item \in {"customers", "funds", "devices", "positions"} THEN {}
             ELSE {"positions"})
       \cup (IF item \in {"customers", "funds", "devices", "positions", "records"} THEN {}
             ELSE {"records"})
       \cup (IF item \in {"customers", "funds", "devices", "positions", "records", "settings"}
             THEN {} ELSE {"settings"})
       \cup (IF item \in {"withdrawals", "sequences", "done"} THEN {"recharges"} ELSE {})

\* What can be relied on where the migration m is: the tables before are filled,
\* what it found is there, and what it missed is missing if nobody interferes.
Good(m) ==
  /\ Before(at[m].item) # {} => copies["users"] > 0
  /\ NothingDeleted => \A t \in Before(at[m].item) : Has(t)
  /\ at[m].item = "data" /\ at[m].looked /\ ~at[m].missing => copies["tenants"] > 0
  /\ Counted(at[m].item) \in Tables /\ at[m].looked =>
       /\ at[m].missing /\ ~overlapped => copies[Counted(at[m].item)] = 0
       /\ ~at[m].missing /\ at[m].item # "withdrawals" /\ NothingDeleted =>
            Has(Counted(at[m].item))
  /\ at[m].item = "withdrawals" =>
       at[m].looked /\ (at[m].missing => copies["recharges"] > 0)
  /\ at[m].item = "devices" => at[m].looked
  /\ at[m].item = "leverage" /\ at[m].looked /\ at[m].missing /\ ~overlapped => Unrefunded
  /\ at[m].item = "failed" => overlapped \/ deleted # {}

MigrationInv ==
  /\ MigrationShape /\ OneAtATime /\ DataTogether /\ SeededInv /\ FinishedInv /\ MoneyInv
  /\ \A m \in Migrators : Good(m)

\* The items of a migration in their order.
LEMMA Order ==
  /\ {Items[i] : i \in DOMAIN Items} = ItemNames
  /\ After("data") = "customers" /\ After("customers") = "funds"
  /\ After("funds") = "devices"
  /\ After("devices") = "positions" /\ After("positions") = "records"
  /\ After("records") = "settings" /\ After("settings") = "leverage"
  /\ After("leverage") = "recharges" /\ After("recharges") = "withdrawals"
  /\ After("withdrawals") = "sequences"
  <1>1. /\ DOMAIN Items = 1..11
        /\ Items[1] = "data" /\ Items[2] = "customers" /\ Items[3] = "funds"
        /\ Items[4] = "devices" /\ Items[5] = "positions" /\ Items[6] = "records"
        /\ Items[7] = "settings" /\ Items[8] = "leverage" /\ Items[9] = "recharges"
        /\ Items[10] = "withdrawals" /\ Items[11] = "sequences"
    BY DEF Items
  <1>2. \A i \in 1..11 : i \in {1, 2, 3, 4, 5, 6, 7, 8, 9, 10, 11}
    OBVIOUS
  <1>3. \A i, j \in DOMAIN Items : Items[i] = Items[j] => i = j
    BY <1>1, <1>2
  <1>4. \A i \in DOMAIN Items : (CHOOSE j \in DOMAIN Items : Items[j] = Items[i]) = i
    BY <1>3
  <1>5. ASSUME NEW i \in 1..10 PROVE After(Items[i]) = Items[i + 1]
    <2>1. (CHOOSE j \in DOMAIN Items : Items[j] = Items[i]) = i
      BY <1>1, <1>4
    <2>2. 1 + i = i + 1
      OBVIOUS
    <2> QED BY <2>1, <2>2 DEF After
  <1>6. {Items[i] : i \in DOMAIN Items} = ItemNames
    BY <1>1, <1>2 DEF ItemNames
  <1> HIDE DEF Items
  <1>7. /\ After(Items[1]) = Items[2] /\ After(Items[2]) = Items[3]
        /\ After(Items[3]) = Items[4] /\ After(Items[4]) = Items[5]
        /\ After(Items[5]) = Items[6] /\ After(Items[6]) = Items[7]
        /\ After(Items[7]) = Items[8] /\ After(Items[8]) = Items[9]
        /\ After(Items[9]) = Items[10] /\ After(Items[10]) = Items[11]
    BY <1>5
  <1> QED BY <1>1, <1>6, <1>7

\* A migration that goes on without writing has only to be right where it gets.
LEMMA GoneOn ==
  ASSUME MigrationInv, NEW m \in Migrators, NEW p \in Places,
         at' = [at EXCEPT ![m] = p], Good(m)', Under(m) \/ p.item \in Away,
         UNCHANGED <<copies, money, finished, Outside>>
  PROVE  MigrationInv'
  <1> USE DEF MigrationInv
  <1>1. /\ at'[m] = p /\ \A n \in Migrators \ {m} : at'[n] = at[n]
        /\ copies' = copies /\ money' = money /\ finished' = finished /\ deleted' = deleted
        /\ added' = added /\ cleared' = cleared /\ overlapped' = overlapped
    BY DEF MigrationShape, Outside
  <1>2. MigrationShape'
    BY <1>1 DEF MigrationShape
  <1>3. OneAtATime'
    BY <1>1 DEF OneAtATime, Under
  <1>4. DataTogether' /\ SeededInv' /\ FinishedInv' /\ MoneyInv'
    BY <1>1 DEF DataTogether, SeededInv, FinishedInv, NothingDeleted, Has, MoneyInv, Unrefunded
  <1>5. ASSUME NEW n \in Migrators \ {m} PROVE Good(n)'
    <2>1. Good(n)
      OBVIOUS
    <2> QED BY <1>1, <2>1 DEF Good, NothingDeleted, Has, Unrefunded
  <1> QED BY <1>2, <1>3, <1>4, <1>5

\* A new migration, with or without another one under way.
LEMMA StartInv ==
  ASSUME MigrationInv, NEW m \in Migrators, StartMigration(m)
  PROVE  MigrationInv'
  <1> USE DEF MigrationInv
  <1>1. /\ ~Under(m)
        /\ overlapped' = (overlapped \/ \E n \in Migrators \ {m} : Under(n))
        /\ at'[m] = [item |-> "data", looked |-> FALSE, missing |-> FALSE]
        /\ \A n \in Migrators \ {m} : at'[n] = at[n]
        /\ at' \in [Migrators -> Places]
        /\ copies' = copies /\ deleted' = deleted /\ added' = added /\ cleared' = cleared
        /\ money' = money /\ finished' = finished
    BY DEF StartMigration, GoOn, Go, MigrationShape, Places, ItemNames
  <1>2. MigrationShape'
    BY <1>1 DEF MigrationShape
  <1>3. OneAtATime'
    BY <1>1 DEF OneAtATime, Under
  <1>4. /\ DataTogether' /\ SeededInv' /\ FinishedInv' /\ MoneyInv'
    BY <1>1 DEF DataTogether, SeededInv, FinishedInv, NothingDeleted, Has, MoneyInv, Unrefunded
  <1>5. Good(m)'
    BY <1>1 DEF Good, Before
  <1>6. ASSUME NEW n \in Migrators \ {m} PROVE Good(n)'
    <2>1. Good(n)
      OBVIOUS
    <2> QED BY <1>1, <2>1 DEF Good, NothingDeleted, Has, Unrefunded
  <1> QED BY <1>2, <1>3, <1>4, <1>5, <1>6

\* The items and where a migration is in its tables.
LEMMA Tabled ==
  /\ Away \cap Tables = {} /\ "data" \notin Tables /\ "data" \notin Away
  /\ "leverage" \notin Tables \cup Away /\ "sequences" \notin Tables \cup Away
  /\ "funds" \notin Tables \cup Away
  /\ \A i \in ItemNames : i \notin Away
  BY DEF Away, Tables, ItemNames

\* All items but the first and the fund record count the table they are named for.
LEMMA CountsItself ==
  /\ Counted("data") = "tenants" /\ Counted("funds") = "devices"
  /\ \A i \in Tables \cup Away : Counted(i) = i
  /\ \A i \in Away : Counted(i) \notin Tables
  BY DEF Counted, Away, Tables

\* A count tells what is there now.
LEMMA LookInv ==
  ASSUME MigrationInv, NEW m \in Migrators, NEW t \in Tables, Look(m, t)
  PROVE  MigrationInv'
  <1> DEFINE i == at[m].item
             missing == IF t = "records" THEN copies[t] = 0 ELSE Empty(t)
             p == [item |-> i, looked |-> TRUE, missing |-> missing]
  <1>1. /\ t = Counted(i) /\ ~at[m].looked
        /\ at' = [at EXCEPT ![m] = p]
        /\ UNCHANGED <<copies, money, finished, Outside>>
    BY DEF Look, Go, Counted
  <1>2. i \in Away \cup ItemNames /\ missing \in BOOLEAN /\ Good(m)
    BY DEF MigrationInv, MigrationShape, Places, Empty
  <1>3. i \in ItemNames /\ i # "failed" /\ i # "leverage" /\ i # "withdrawals"
    BY <1>1, <1>2, Tabled DEF Counted, Good, Away
  <1>4. /\ missing => copies[t] = 0
        /\ ~missing => Has(t)
        /\ t = "tenants" /\ ~missing => copies[t] > 0
    <2>1. copies[t] \in Nat
      BY DEF MigrationInv, MigrationShape
    <2>2. "tenants" \notin added
      BY MigrationAssumption DEF MigrationInv, MigrationShape
    <2> QED BY <2>1, <2>2 DEF Empty, Has
  <1> HIDE DEF missing
  <1>5. p \in Places
    BY <1>2, <1>3 DEF Places
  <1>6. at'[m] = p
    BY <1>1 DEF MigrationInv, MigrationShape
  <1>7. Good(m)'
    BY <1>1, <1>2, <1>3, <1>4, <1>6 DEF Good, Outside, NothingDeleted, Has, Counted
  <1>8. Under(m)
    BY <1>3, Tabled DEF Under
  <1> QED BY <1>1, <1>5, <1>7, <1>8, GoneOn

\* A process that ends has done what it has done.
LEMMA KillInv ==
  ASSUME MigrationInv, NEW m \in Migrators, KillMigration(m)
  PROVE  MigrationInv'
  <1> DEFINE p == [item |-> "off", looked |-> FALSE, missing |-> FALSE]
  <1>1. /\ at' = [at EXCEPT ![m] = p] /\ UNCHANGED <<copies, money, finished, Outside>>
    BY DEF KillMigration, GoOn, Go, Outside
  <1>2. p \in Places /\ p.item \in Away
    BY DEF Places, Away
  <1>3. at'[m] = p
    BY <1>1 DEF MigrationInv, MigrationShape
  <1>4. Good(m)'
    BY <1>3 DEF Good, Before
  <1> QED BY <1>1, <1>2, <1>4, GoneOn

\* The positions without a margin are those that were never refunded.
LEMMA FindInv ==
  ASSUME MigrationInv, NEW m \in Migrators, FindPositions(m)
  PROVE  MigrationInv'
  <1> DEFINE found == money.cost > 0 /\ money.margin = 0
             p == [item |-> "leverage", looked |-> TRUE, missing |-> found]
  <1>1. /\ at[m].item = "leverage" /\ at' = [at EXCEPT ![m] = p]
        /\ UNCHANGED <<copies, money, finished, Outside>>
    BY DEF FindPositions, Go
  <1>2. found \in BOOLEAN /\ Good(m) /\ (found /\ ~overlapped => Unrefunded)
    BY DEF MigrationInv, MoneyInv, Unrefunded, Leverage
  <1> HIDE DEF found
  <1>3. p \in Places
    BY <1>2 DEF Places, ItemNames
  <1>4. at'[m] = p
    BY <1>1 DEF MigrationInv, MigrationShape
  <1>5. Good(m)'
    BY <1>1, <1>2, <1>4, Tabled DEF Good, Outside, NothingDeleted, Has, Counted, Unrefunded
  <1>6. Under(m)
    BY <1>1, Tabled DEF Under
  <1> QED BY <1>1, <1>3, <1>5, <1>6, GoneOn

\* The refund is paid to a position that is still without one.
LEMMA LeverageInv ==
  ASSUME MigrationInv, NEW m \in Migrators, MigrateLeveragedPositions(m)
  PROVE  MigrationInv'
  <1> USE DEF MigrationInv
  <1>1. /\ at[m].item = "leverage" /\ at[m].looked
        /\ money' = IF at[m].missing
                    THEN [money EXCEPT !.margin = money.cost \div Leverage,
                                       !.refund = @ + money.cost - (money.cost \div Leverage)]
                    ELSE money
        /\ at'[m] = [item |-> "recharges", looked |-> FALSE, missing |-> FALSE]
        /\ \A n \in Migrators \ {m} : at'[n] = at[n]
        /\ at' \in [Migrators -> Places]
        /\ copies' = copies /\ deleted' = deleted /\ added' = added /\ cleared' = cleared
        /\ overlapped' = overlapped /\ finished' = finished
    BY Order DEF MigrateLeveragedPositions, GoOn, Go, MigrationShape, Places, ItemNames, Outside
  <1>2. Good(m) /\ Under(m)
    BY <1>1, Tabled DEF Under
  <1>3. ~overlapped => \A n \in Migrators \ {m} : ~Under(n)
    BY <1>2 DEF OneAtATime
  <1>4. MigrationShape' /\ OneAtATime'
    BY <1>1, <1>3 DEF MigrationShape, OneAtATime, Under
  <1>5. DataTogether' /\ SeededInv' /\ FinishedInv'
    BY <1>1 DEF DataTogether, SeededInv, FinishedInv, NothingDeleted, Has
  <1>6. MoneyInv'
    <2>1. CASE at[m].missing /\ ~overlapped
      <3>1. money = [cost |-> 2, margin |-> 0, refund |-> 0]
        BY <1>1, <1>2, <2>1 DEF Good, Unrefunded, Leverage
      <3>2. 2 \div 2 = 1
        OBVIOUS
      <3>3. money' = [cost |-> 2, margin |-> 1, refund |-> 1]
        <4>1. money.cost \div Leverage = 1 /\ money.refund + money.cost - 1 = 1
          BY <3>1, <3>2 DEF Leverage
        <4>2. money' = [money EXCEPT !.margin = 1, !.refund = 1]
          BY <1>1, <2>1, <4>1
        <4> QED BY <3>1, <4>2
      <3> QED BY <3>3 DEF MoneyInv, Leverage
    <2>2. CASE ~at[m].missing \/ overlapped
      BY <1>1, <2>2 DEF MoneyInv, Unrefunded
    <2> QED BY <2>1, <2>2
  <1>7. Good(m)'
    <2>1. Before("recharges") = Before("leverage")
      BY DEF Before
    <2> QED BY <1>1, <1>2, <2>1 DEF Good, NothingDeleted, Has
  <1>8. ASSUME NEW n \in Migrators \ {m} PROVE Good(n)'
    <2>1. Good(n) /\ (overlapped \/ at[n].item # "leverage")
      BY <1>3, Tabled DEF Under
    <2> QED BY <1>1, <2>1 DEF Good, NothingDeleted, Has
  <1> QED BY <1>4, <1>5, <1>6, <1>7, <1>8

\* What a migration at its last item has behind it is all but the withdrawals.
LEMMA AllBefore == Before("sequences") = Tables \ {"withdrawals"}
  BY DEF Before, DataTables, Tables

\* A migration comes to its end.
LEMMA ResetInv ==
  ASSUME MigrationInv, NEW m \in Migrators, ResetSequences(m)
  PROVE  MigrationInv'
  <1> USE DEF MigrationInv
  <1>1. /\ at[m].item = "sequences" /\ finished' = TRUE
        /\ at'[m] = [item |-> "done", looked |-> FALSE, missing |-> FALSE]
        /\ \A n \in Migrators \ {m} : at'[n] = at[n]
        /\ at' \in [Migrators -> Places]
        /\ copies' = copies /\ deleted' = deleted /\ added' = added /\ cleared' = cleared
        /\ overlapped' = overlapped /\ money' = money
    BY DEF ResetSequences, GoOn, Go, MigrationShape, Places, Away, Outside
  <1>2. Good(m)
    OBVIOUS
  <1>3. MigrationShape' /\ OneAtATime'
    BY <1>1 DEF MigrationShape, OneAtATime, Under, Away
  <1>4. DataTogether' /\ SeededInv' /\ MoneyInv'
    BY <1>1 DEF DataTogether, SeededInv, MoneyInv, Unrefunded
  <1>5. FinishedInv'
    BY <1>1, <1>2, AllBefore DEF Good, FinishedInv, NothingDeleted, Has
  <1>6. Good(m)'
    <2>1. Before("done") = Before("sequences")
      BY DEF Before
    <2> QED BY <1>1, <1>2, <2>1, Tabled DEF Good, NothingDeleted, Has, Counted, Tables
  <1>7. ASSUME NEW n \in Migrators \ {m} PROVE Good(n)'
    <2>1. Good(n)
      OBVIOUS
    <2> QED BY <1>1, <2>1 DEF Good, NothingDeleted, Has, Unrefunded
  <1> QED BY <1>3, <1>4, <1>5, <1>6, <1>7

\* A migration that writes rows which are not there spoils nothing for another.
LEMMA Grown ==
  ASSUME MigrationInv, NEW m \in Migrators, NEW p \in Places, NEW W \in SUBSET Tables,
         Under(m), at' = [at EXCEPT ![m] = p],
         copies' = [t \in Tables |-> copies[t] + IF t \in W THEN 1 ELSE 0],
         \A t \in W : t \in Keyed \cup {"articles"} => copies[t] = 0,
         ~overlapped => \A t \in W : copies[t] = 0,
         "withdrawals" \in W => copies["recharges"] > 0,
         DataTogether', Good(m)', UNCHANGED <<money, finished, Outside>>
  PROVE  MigrationInv'
  <1> USE DEF MigrationInv
  <1>1. /\ at'[m] = p /\ \A n \in Migrators \ {m} : at'[n] = at[n]
        /\ money' = money /\ finished' = finished /\ deleted' = deleted
        /\ added' = added /\ cleared' = cleared /\ overlapped' = overlapped
    BY DEF MigrationShape, Outside
  <1>2. \A t \in Tables : /\ copies[t] \in Nat /\ copies'[t] \in Nat
                          /\ copies'[t] = copies[t] + IF t \in W THEN 1 ELSE 0
    BY DEF MigrationShape
  <1>3. \A t \in Tables : copies'[t] >= copies[t] /\ (t \notin W => copies'[t] = copies[t])
    BY <1>2
  <1>4. /\ "users" \in Tables /\ "tenants" \in Tables /\ "recharges" \in Tables
        /\ "withdrawals" \in Tables /\ Keyed \cup {"articles"} \subseteq Tables
    BY DEF Tables, Keyed
  <1>5. MigrationShape'
    BY <1>1, <1>2 DEF MigrationShape
  <1>6. OneAtATime'
    BY <1>1 DEF OneAtATime, Under
  <1>7. SeededInv'
    <2>1. \A t \in Keyed \cup {"articles"} : copies'[t] <= 1
      BY <1>2, <1>4 DEF SeededInv
    <2>2. ~overlapped => \A t \in Tables : copies'[t] <= 1
      BY <1>2 DEF SeededInv
    <2>3. copies'["withdrawals"] > 0 => copies'["recharges"] > 0
      BY <1>2, <1>3, <1>4 DEF SeededInv
    <2> QED BY <1>1, <2>1, <2>2, <2>3 DEF SeededInv
  <1>8. \A t \in Tables : copies[t] >= 1 => copies'[t] >= 1
    BY <1>2, <1>3
  <1>9. FinishedInv' /\ MoneyInv'
    BY <1>1, <1>8 DEF FinishedInv, NothingDeleted, Has, MoneyInv, Unrefunded
  <1>10. ASSUME NEW n \in Migrators \ {m} PROVE Good(n)'
    <2>1. Good(n) /\ at'[n] = at[n]
      BY <1>1
    <2>2. ~overlapped => Counted(at[n].item) \notin Tables
      <3>1. ~overlapped => at[n].item \in Away
        BY DEF OneAtATime, Under
      <3> QED BY <3>1, CountsItself
    <2>3. Before(at[n].item) \subseteq Tables
      BY DEF Before, DataTables, Tables
    <2>4. copies["users"] > 0 => copies'["users"] > 0
      BY <1>4, <1>2, <1>8
    <2>5. copies["tenants"] > 0 => copies'["tenants"] > 0
      BY <1>4, <1>2, <1>8
    <2>6. copies["recharges"] > 0 => copies'["recharges"] > 0
      BY <1>4, <1>2, <1>8
    <2> HIDE DEF MigrationInv
    <2> QED BY <1>1, <1>8, <2>1, <2>2, <2>3, <2>4, <2>5, <2>6
            DEF Good, NothingDeleted, Has, Unrefunded
  <1> QED BY <1>5, <1>6, <1>7, <1>9, <1>10

\* What the transaction writes when nothing was written before, and later.
LEMMA InsertsWhat ==
  ASSUME MigrationInv, NEW m \in Migrators, at[m].item = "data", at[m].looked
  PROVE  /\ Inserts(m) \subseteq DataTables
         /\ copies["users"] = 0 =>
              /\ Inserts(m) = DataTables /\ deleted = {} /\ added = {} /\ ~cleared
              /\ \A t \in DataTables : copies[t] = 0
         /\ copies["users"] > 0 => Inserts(m) \subseteq {"roles", "articles", "sources", "tenants"}
  <1> USE DEF MigrationInv
  <1>1. Good(m) /\ DataTogether /\ \A t \in Tables : copies[t] \in Nat
    BY DEF MigrationShape
  <1>2. DataTables \subseteq Tables
    BY DEF DataTables, Tables
  <1>3. Inserts(m) \subseteq DataTables
    BY DEF Inserts, DataTables
  <1>4. ASSUME copies["users"] = 0
        PROVE  /\ Inserts(m) = DataTables /\ deleted = {} /\ added = {} /\ ~cleared
               /\ \A t \in DataTables : copies[t] = 0
    <2>1. /\ deleted = {} /\ added = {} /\ ~cleared
          /\ \A t \in DataTables : copies[t] = 0
      BY <1>1, <1>4 DEF DataTogether
    <2>2. \A t \in DataTables : Empty(t)
      BY <2>1 DEF Empty
    <2>3. at[m].missing
      BY <1>1, <2>1 DEF Good, DataTables
    <2>4. DataTables \subseteq Inserts(m)
      BY <2>1, <2>2, <2>3 DEF Inserts, DataTables
    <2> QED BY <1>3, <2>1, <2>4
  <1>5. ASSUME copies["users"] > 0
        PROVE  Inserts(m) \subseteq {"roles", "articles", "sources", "tenants"}
    <2>1. ~Empty("departments")
      BY <1>1, <1>5 DEF DataTogether, Empty
    <2> QED BY <2>1 DEF Inserts
  <1> QED BY <1>3, <1>4, <1>5

\* The transaction, which is carried out or taken back.
LEMMA MigrateDataInv ==
  ASSUME MigrationInv, NEW m \in Migrators, MigrateData(m)
  PROVE  MigrationInv'
  <1> DEFINE W == Inserts(m)
             fits == ("roles" \in W \/ copies["roles"] > 0) /\ \A t \in W : MayInsert(t)
             p == [item |-> "customers", looked |-> FALSE, missing |-> FALSE]
             f == [item |-> "failed", looked |-> FALSE, missing |-> FALSE]
  <1>1. /\ at[m].item = "data" /\ at[m].looked
        /\ UNCHANGED <<money, finished, Outside>>
        /\ fits => /\ copies' = [t \in Tables |-> copies[t] + IF t \in W THEN 1 ELSE 0]
                   /\ at' = [at EXCEPT ![m] = p]
        /\ ~fits => at' = [at EXCEPT ![m] = f] /\ copies' = copies
    BY DEF MigrateData, GoOn, Go
  <1>2. /\ MigrationShape /\ DataTogether /\ Good(m) /\ Under(m)
        /\ \A t \in Tables : copies[t] \in Nat
    BY <1>1, Tabled DEF MigrationInv, MigrationShape, Under
  <1>3. p \in Places /\ f \in Places
    BY DEF Places, ItemNames, Away
  <1>4. /\ W \subseteq DataTables
        /\ copies["users"] = 0 =>
             /\ W = DataTables /\ deleted = {} /\ added = {} /\ ~cleared
             /\ \A t \in DataTables : copies[t] = 0
        /\ copies["users"] > 0 => W \subseteq {"roles", "articles", "sources", "tenants"}
    BY <1>1, InsertsWhat
  <1>5. DataTables \subseteq Tables /\ "users" \in DataTables
    BY DEF DataTables, Tables
  <1>6. CASE fits
    <2>1. \A t \in W : copies[t] = 0
      <3>1. \A t \in DataTables : t \in Keyed \/ t = "articles"
        BY DEF DataTables, Keyed, Tables
      <3>2. "articles" \in W => copies["articles"] = 0
        BY DEF Inserts, Empty
      <3> QED BY <1>4, <1>6, <3>1, <3>2 DEF MayInsert
    <2>2. \A t \in Tables : /\ copies[t] > 0 => copies'[t] > 0
                            /\ t \in W => copies'[t] > 0
      BY <1>1, <1>2, <1>6
    <2>3. copies["users"] = 0 \/ copies["users"] > 0
      BY <1>2, <1>5
    <2>4. copies'["users"] > 0
      BY <1>4, <1>5, <2>2, <2>3
    <2>5. /\ deleted' = deleted /\ cleared' = cleared /\ added' = added
          /\ copies'["tenants"] > 0 /\ copies'["departments"] > 0
          /\ deleted = {} => \A t \in DataTables : copies'[t] > 0
      <3>1. "tenants" \in DataTables /\ "departments" \in DataTables
        BY DEF DataTables
      <3>2. deleted' = deleted /\ cleared' = cleared /\ added' = added
        BY <1>1 DEF Outside
      <3> QED BY <1>2, <1>4, <1>5, <2>2, <2>3, <3>1, <3>2 DEF DataTogether
    <2>6. DataTogether'
      BY <2>4, <2>5 DEF DataTogether
    <2>7. Good(m)'
      <3>1. at'[m] = p /\ Before("customers") = DataTables
        BY <1>1, <1>2, <1>6 DEF MigrationShape, Before
      <3>2. \A t \in Tables : copies'[t] \in Nat
        BY <1>1, <1>2, <1>6
      <3>3. deleted = {} => \A t \in DataTables : copies'[t] >= 1
        BY <1>5, <2>5, <3>2
      <3>4. NothingDeleted' => \A t \in DataTables : Has(t)'
        BY <2>5, <3>3 DEF NothingDeleted, Has
      <3> QED BY <2>4, <3>1, <3>4, Tabled DEF Good
    <2>8. "withdrawals" \notin W
      BY <1>4 DEF DataTables
    <2> HIDE DEF W, p
    <2>9. W \in SUBSET Tables
      BY <1>4, <1>5
    <2>10. /\ at' = [at EXCEPT ![m] = p]
           /\ copies' = [t \in Tables |-> copies[t] + IF t \in W THEN 1 ELSE 0]
      BY <1>1, <1>6
    <2> QED BY <1>1, <1>2, <1>3, <2>1, <2>6, <2>7, <2>8, <2>9, <2>10, Grown
  <1>7. CASE ~fits
    <2>1. overlapped \/ deleted # {}
      <3> SUFFICES ASSUME ~overlapped, deleted = {} PROVE FALSE
        OBVIOUS
      <3>1. CASE copies["users"] = 0
        <4>1. "roles" \in W
          BY <1>4, <3>1 DEF DataTables
        <4>2. \A t \in W : MayInsert(t)
          BY <1>4, <3>1 DEF MayInsert
        <4> QED BY <1>7, <4>1, <4>2
      <3>2. CASE copies["users"] > 0
        <4>1. \A t \in DataTables : copies[t] > 0
          BY <1>2, <3>2 DEF DataTogether
        <4>2. /\ copies["roles"] > 0 /\ copies["articles"] > 0 /\ copies["sources"] > 0
              /\ copies["tenants"] > 0
          BY <4>1 DEF DataTables
        <4>3. ~at[m].missing
          BY <1>1, <1>2, <4>2 DEF Good, Counted, Tables
        <4>4. W \cap {"roles", "articles", "sources", "tenants"} = {}
          BY <4>2, <4>3 DEF Inserts, Empty
        <4>5. W = {}
          BY <1>4, <3>2, <4>4
        <4> QED BY <1>7, <4>2, <4>5
      <3>3. copies["users"] = 0 \/ copies["users"] > 0
        BY <1>2, <1>5
      <3> QED BY <3>1, <3>2, <3>3
    <2>2. at'[m] = f /\ overlapped' = overlapped /\ deleted' = deleted
      BY <1>1, <1>2, <1>7 DEF MigrationShape, Outside
    <2>3. Good(m)'
      BY <2>1, <2>2, Tabled DEF Good, Before, Counted, Away
    <2>4. at' = [at EXCEPT ![m] = f] /\ UNCHANGED <<copies, money, finished, Outside>>
      BY <1>1, <1>7
    <2> HIDE DEF f
    <2> QED BY <1>2, <1>3, <2>3, <2>4, GoneOn
  <1> QED BY <1>6, <1>7

\* What has been filled before the next item.
LEMMA Following ==
  /\ \A t \in (Tables \cap ItemNames) \ {"withdrawals"} :
       Before(After(t)) \subseteq Before(t) \cup {t}
  /\ Before(After("withdrawals")) = Before("withdrawals")
  /\ \A t \in Tables \cap ItemNames : /\ After(t) \in ItemNames /\ Before(t) # {}
                                      /\ (After(t) = "withdrawals" <=> t = "recharges")
                                      /\ After(t) # "data" /\ After(t) # "devices"
  <1>1. Tables \cap ItemNames = {"customers", "devices", "positions", "records", "settings",
                                 "recharges", "withdrawals"}
    BY DEF Tables, ItemNames
  <1>2. \A t \in Tables \cap ItemNames : /\ After(t) \in ItemNames
                                         /\ (After(t) = "withdrawals" <=> t = "recharges")
                                         /\ After(t) # "data" /\ After(t) # "devices"
    BY <1>1, Order DEF ItemNames
  <1>3. \A t \in Tables \cap ItemNames : Before(t) # {}
    BY <1>1 DEF Before, DataTables
  <1>4. Before(After("withdrawals")) = Before("withdrawals")
    BY Order DEF Before
  <1>5. Before("funds") \subseteq Before("customers") \cup {"customers"}
    BY DEF Before
  <1>6. Before("positions") \subseteq Before("devices") \cup {"devices"}
    BY DEF Before
  <1>7. Before("records") \subseteq Before("positions") \cup {"positions"}
    BY DEF Before
  <1>8. Before("settings") \subseteq Before("records") \cup {"records"}
    BY DEF Before
  <1>9. Before("leverage") \subseteq Before("settings") \cup {"settings"}
    BY DEF Before
  <1>10. Before("withdrawals") \subseteq Before("recharges") \cup {"recharges"}
    BY DEF Before
  <1> HIDE DEF Before
  <1>11. \A t \in (Tables \cap ItemNames) \ {"withdrawals"} :
           Before(After(t)) \subseteq Before(t) \cup {t}
    BY <1>1, <1>5, <1>6, <1>7, <1>8, <1>9, <1>10, Order
  <1> QED BY <1>2, <1>3, <1>4, <1>11

\* The tables after the transaction, each in a statement of its own.
LEMMA SeedInv ==
  ASSUME MigrationInv, NEW m \in Migrators, NEW t \in Tables, Seed(m, t)
  PROVE  MigrationInv'
  <1> DEFINE idle == \/ ~at[m].missing
                     \/ t = "records" /\ Empty("positions")
                     \/ t = "recharges" /\ NoCustomer
             stuck == ~MayInsert(t) \/ (t = "positions" /\ NoCustomer)
             p == [item |-> After(t), looked |-> t = "recharges", missing |-> FALSE]
             q == [item |-> After(t), looked |-> t = "recharges", missing |-> t = "recharges"]
             f == [item |-> "failed", looked |-> FALSE, missing |-> FALSE]
  <1>1. /\ at[m].item = t /\ at[m].looked /\ UNCHANGED <<money, finished, Outside>>
        /\ idle => at' = [at EXCEPT ![m] = p] /\ copies' = copies
        /\ ~idle /\ stuck => at' = [at EXCEPT ![m] = f] /\ copies' = copies
        /\ ~idle /\ ~stuck => /\ at' = [at EXCEPT ![m] = q]
                              /\ copies' = [copies EXCEPT ![t] = @ + 1]
    BY DEF Seed, GoOn, Go
  <1>2. /\ MigrationShape /\ DataTogether /\ SeededInv /\ Good(m) /\ Under(m)
        /\ \A u \in Tables : copies[u] \in Nat
        /\ t \in Tables \cap ItemNames
    BY <1>1, Tabled DEF MigrationInv, MigrationShape, Under, Places
  <1>3. /\ Before(t) # {} /\ copies["users"] > 0 /\ "customers" \in Before(t)
        /\ deleted = {} => copies["customers"] > 0
    <2>1. Before(t) # {} /\ copies["users"] > 0
      BY <1>1, <1>2, Following DEF Good
    <2>2. "customers" \in Before(t)
      BY <2>1 DEF Before, DataTables
    <2> QED BY <1>2, <2>1, <2>2 DEF DataTogether, DataTables
  <1>4. /\ ~overlapped /\ at[m].missing => copies[t] = 0
        /\ ~at[m].missing /\ t # "withdrawals" /\ NothingDeleted => Has(t)
        /\ t = "withdrawals" /\ at[m].missing => copies["recharges"] > 0
        /\ NothingDeleted => \A u \in Before(t) : Has(u)
    <2>1. Counted(t) = t
      BY CountsItself
    <2> QED BY <1>1, <1>2, <2>1 DEF Good
  <1>5. /\ deleted' = deleted /\ cleared' = cleared /\ added' = added
        /\ overlapped' = overlapped
    BY <1>1 DEF Outside
  <1>6. p \in Places /\ q \in Places /\ f \in Places
    BY <1>2, Following DEF Places, Away
  <1>7. /\ "users" \in Tables /\ "recharges" \in Tables /\ "withdrawals" \in Tables
        /\ "customers" \in Tables
    BY DEF Tables
  <1>8. CASE idle
    <2>1. NothingDeleted /\ t # "withdrawals" => Has(t)
      <3>1. ASSUME NothingDeleted, t = "records", Empty("positions") PROVE FALSE
        <4>1. "positions" \in Before(t) /\ "positions" \in Tables
          BY <3>1 DEF Before, Tables
        <4> QED BY <1>2, <1>4, <3>1, <4>1 DEF Has, Empty
      <3>2. ASSUME NothingDeleted, NoCustomer PROVE FALSE
        BY <1>3, <3>2 DEF NothingDeleted, NoCustomer, Empty
      <3> QED BY <1>4, <1>8, <3>1, <3>2
    <2>2. at'[m] = p /\ copies' = copies
      BY <1>1, <1>2, <1>8 DEF MigrationShape
    <2>3. NothingDeleted => \A u \in Before(After(t)) : Has(u)
      BY <1>2, <1>4, <2>1, Following
    <2>4. Good(m)'
      <3>1. copies'["users"] > 0
        BY <1>3, <2>2
      <3>2. NothingDeleted' => \A u \in Before(at'[m].item) : Has(u)'
        BY <1>5, <2>2, <2>3 DEF NothingDeleted, Has
      <3>3. /\ After(t) # "data" /\ After(t) # "failed" /\ After(t) # "devices"
            /\ (After(t) = "withdrawals" <=> t = "recharges")
        BY <1>2, Following, Tabled DEF Away
      <3>4. at'[m].item = After(t) /\ at'[m].looked = (t = "recharges") /\ ~at'[m].missing
        BY <2>2
      <3>5. After(t) # "leverage" \/ ~at'[m].looked
        BY <3>3, <3>4
      <3>6. ASSUME at'[m].looked PROVE /\ at'[m].item = "withdrawals" /\ ~at'[m].missing
                                       /\ Counted("withdrawals") = "withdrawals"
        BY <3>3, <3>4, <3>6, CountsItself, <1>7
      <3> HIDE DEF p
      <3>7. CASE at'[m].looked
        BY <3>1, <3>2, <3>6, <3>7 DEF Good
      <3>8. CASE ~at'[m].looked
        BY <3>1, <3>2, <3>3, <3>4, <3>8 DEF Good
      <3> QED BY <3>7, <3>8
    <2>5. at' = [at EXCEPT ![m] = p] /\ UNCHANGED <<copies, money, finished, Outside>>
      BY <1>1, <1>8
    <2> HIDE DEF p
    <2> QED BY <1>2, <1>6, <2>4, <2>5, GoneOn
  <1>9. CASE ~idle /\ stuck
    <2>1. overlapped \/ deleted # {}
      <3> SUFFICES ASSUME ~overlapped, deleted = {} PROVE FALSE
        OBVIOUS
      <3>1. MayInsert(t)
        BY <1>4, <1>9 DEF MayInsert
      <3>2. ~NoCustomer
        BY <1>3 DEF NoCustomer, Empty
      <3> QED BY <1>9, <3>1, <3>2
    <2>2. at'[m] = f
      BY <1>1, <1>2, <1>9 DEF MigrationShape
    <2>3. Good(m)'
      BY <1>5, <2>1, <2>2, Tabled DEF Good, Before, Counted, Away
    <2>4. at' = [at EXCEPT ![m] = f] /\ UNCHANGED <<copies, money, finished, Outside>>
      BY <1>1, <1>9
    <2> HIDE DEF f
    <2> QED BY <1>2, <1>6, <2>3, <2>4, GoneOn
  <1>10. CASE ~idle /\ ~stuck
    <2>1. /\ at[m].missing
          /\ t \in Keyed => copies[t] = 0
          /\ ~overlapped => copies[t] = 0
      BY <1>4, <1>10 DEF MayInsert
    <2>2. t # "articles" /\ t # "users"
      BY <1>2 DEF ItemNames
    <2>3. copies' = [u \in Tables |-> copies[u] + IF u \in {t} THEN 1 ELSE 0]
      BY <1>1, <1>2, <1>10 DEF MigrationShape
    <2>4. at'[m] = q /\ at' = [at EXCEPT ![m] = q]
      BY <1>1, <1>2, <1>10 DEF MigrationShape
    <2>5. \A u \in Tables : /\ copies[u] > 0 => copies'[u] > 0
                            /\ u # t => copies'[u] = copies[u]
                            /\ copies'[u] \in Nat
      BY <1>2, <2>3
    <2>6. copies'[t] > 0
      BY <1>2, <2>3
    <2>7. DataTogether'
      <3>1. copies'["users"] > 0
        BY <1>3, <1>7, <2>5
      <3>2. DataTables \subseteq Tables /\ "tenants" \in Tables /\ "departments" \in Tables
        BY DEF DataTables, Tables
      <3> QED BY <1>2, <1>3, <1>5, <2>5, <3>1, <3>2 DEF DataTogether
    <2>8. Good(m)'
      <3>1. copies'["users"] > 0
        BY <1>3, <1>7, <2>5
      <3>2. Before(t) \subseteq Tables
        BY DEF Before, DataTables, Tables
      <3>3. NothingDeleted => \A u \in Before(After(t)) : u = t \/ Has(u)
        BY <1>2, <1>4, Following
      <3>4. Before(After(t)) \subseteq Tables
        BY DEF Before, DataTables, Tables
      <3>5. \A u \in Tables : u = t \/ Has(u) => Has(u)'
        BY <1>5, <2>5, <2>6, <1>2 DEF Has
      <3>6. NothingDeleted' => \A u \in Before(After(t)) : Has(u)'
        BY <1>5, <3>3, <3>4, <3>5 DEF NothingDeleted
      <3>7. /\ After(t) # "data" /\ After(t) # "failed" /\ After(t) # "devices"
            /\ (After(t) = "withdrawals" <=> t = "recharges")
        BY <1>2, Following, Tabled DEF Away
      <3>8. at'[m].item = After(t) /\ at'[m].looked = (t = "recharges")
            /\ at'[m].missing = (t = "recharges")
        BY <2>4
      <3>9. t = "recharges" => copies'["recharges"] > 0
        BY <2>6
      <3>10. t = "recharges" => copies'["withdrawals"] = 0
        <4>1. t = "recharges" => copies["recharges"] = 0
          BY <2>1 DEF Keyed, Tables
        <4>2. copies["withdrawals"] = 0 \/ copies["recharges"] > 0
          BY <1>2, <1>7 DEF SeededInv
        <4> QED BY <1>7, <2>5, <4>1, <4>2
      <3> HIDE DEF q
      <3>11. CASE t = "recharges"
        <4>1. /\ at'[m].item = "withdrawals" /\ at'[m].looked /\ at'[m].missing
              /\ Counted("withdrawals") = "withdrawals"
          BY <3>7, <3>8, <3>11 DEF Counted
        <4>2. Before("withdrawals") = Before(After(t))
          BY <3>7, <3>11
        <4> QED BY <3>1, <3>6, <3>9, <3>10, <3>11, <4>1, <4>2 DEF Good
      <3>12. CASE t # "recharges"
        BY <3>1, <3>6, <3>7, <3>8, <3>12 DEF Good
      <3> QED BY <3>11, <3>12
    <2>9. {t} \in SUBSET Tables
      OBVIOUS
    <2> HIDE DEF q
    <2> DEFINE W == {t}
    <2>10. /\ copies' = [u \in Tables |-> copies[u] + IF u \in W THEN 1 ELSE 0]
           /\ \A u \in W : u \in Keyed \cup {"articles"} => copies[u] = 0
           /\ ~overlapped => \A u \in W : copies[u] = 0
           /\ "withdrawals" \in W => copies["recharges"] > 0
           /\ W \in SUBSET Tables
      BY <1>4, <2>1, <2>2, <2>3
    <2> HIDE DEF W
    <2>11. UNCHANGED <<money, finished, Outside>> /\ q \in Places
      BY <1>1, <1>6
    <2> QED BY <1>2, <2>4, <2>7, <2>8, <2>10, <2>11, Grown
  <1> QED BY <1>8, <1>9, <1>10

\* The fund record is in no table that is counted; the devices are counted for it.
LEMMA FundRecordInv ==
  ASSUME MigrationInv, NEW m \in Migrators, SeedFundRecord(m)
  PROVE  MigrationInv'
  <1> DEFINE p == [item |-> "devices", looked |-> TRUE, missing |-> at[m].missing]
             f == [item |-> "failed", looked |-> FALSE, missing |-> FALSE]
  <1>1. /\ at[m].item = "funds" /\ at[m].looked
        /\ UNCHANGED <<copies, money, finished, Outside>>
        /\ \/ at' = [at EXCEPT ![m] = p]
           \/ NoCustomer /\ at' = [at EXCEPT ![m] = f]
    BY DEF SeedFundRecord, GoOn, Go
  <1>2. /\ MigrationShape /\ DataTogether /\ Good(m) /\ Under(m) /\ at[m].missing \in BOOLEAN
    BY <1>1, Tabled DEF MigrationInv, MigrationShape, Under, Places, ItemNames
  <1>3. p \in Places /\ f \in Places
    BY <1>2 DEF Places, ItemNames, Away
  <1>4. /\ deleted' = deleted /\ cleared' = cleared /\ added' = added
        /\ overlapped' = overlapped /\ copies' = copies
    BY <1>1 DEF Outside
  <1>5. Before("funds") = DataTables /\ Before("devices") = DataTables
    BY DEF Before
  <1>6. CASE at' = [at EXCEPT ![m] = p]
    <2>1. at'[m] = p
      BY <1>2, <1>6 DEF MigrationShape
    <2>2. Counted("funds") = "devices" /\ Counted("devices") = "devices"
      BY DEF Counted
    <2>3. Good(m)'
      BY <1>1, <1>2, <1>4, <1>5, <2>1, <2>2 DEF Good, NothingDeleted, Has
    <2> HIDE DEF p
    <2> QED BY <1>1, <1>2, <1>3, <1>6, <2>3, GoneOn
  <1>7. CASE NoCustomer /\ at' = [at EXCEPT ![m] = f]
    <2>1. deleted # {}
      <3>1. copies["users"] > 0 /\ "customers" \in DataTables
        BY <1>1, <1>2, <1>5 DEF Good, DataTables
      <3> QED BY <1>2, <1>7, <3>1 DEF DataTogether, NoCustomer, Empty
    <2>2. at'[m] = f
      BY <1>2, <1>7 DEF MigrationShape
    <2>3. Good(m)'
      BY <1>4, <2>1, <2>2, Tabled DEF Good, Before, Counted, Away
    <2> HIDE DEF f
    <2> QED BY <1>1, <1>2, <1>3, <1>7, <2>3, GoneOn
  <1> QED BY <1>1, <1>6, <1>7

\* Administrators there are once there is a user.  A row more hides nothing.
LEMMA AddRowInv ==
  ASSUME MigrationInv, NEW t \in Edited, AddRow(t)
  PROVE  MigrationInv'
  <1> USE DEF MigrationInv
  <1>1. /\ added' = added \cup {t} /\ copies["users"] > 0 /\ copies' = copies
        /\ deleted' = deleted /\ cleared' = cleared /\ money' = money /\ at' = at
        /\ finished' = finished /\ overlapped' = overlapped
    BY DEF AddRow, EditBegins
  <1>2. MigrationShape' /\ OneAtATime'
    BY <1>1 DEF MigrationShape, OneAtATime, Under
  <1>3. DataTogether' /\ SeededInv' /\ FinishedInv' /\ MoneyInv'
    BY <1>1 DEF DataTogether, SeededInv, FinishedInv, NothingDeleted, Has, MoneyInv, Unrefunded
  <1>4. ASSUME NEW n \in Migrators PROVE Good(n)'
    <2>1. Good(n)
      OBVIOUS
    <2> QED BY <1>1, <2>1 DEF Good, NothingDeleted, Has, Unrefunded
  <1> QED BY <1>2, <1>3, <1>4

\* The defaults of a table, or what an administrator put there, are deleted.
LEMMA DeleteRowInv ==
  ASSUME MigrationInv, NEW t \in Edited, DeleteRow(t)
  PROVE  MigrationInv'
  <1> USE DEF MigrationInv
  <1>1. /\ copies["users"] > 0 /\ money' = money /\ at' = at
        /\ finished' = finished /\ overlapped' = overlapped
        /\ \/ /\ copies' = [copies EXCEPT ![t] = 0] /\ deleted' = deleted \cup {t}
              /\ added' = added /\ cleared' = cleared
           \/ /\ added' = added \ {t} /\ cleared' = TRUE
              /\ copies' = copies /\ deleted' = deleted
    BY DEF DeleteRow, EditBegins
  <1>2. /\ t \in Tables
        /\ t \notin {"users", "tenants", "departments", "recharges"}
    BY MigrationAssumption DEF Tables
  <1>3. \A u \in Tables : copies[u] \in Nat /\ copies'[u] \in {copies[u], 0}
                          /\ (u # t => copies'[u] = copies[u])
    BY <1>1, <1>2 DEF MigrationShape
  <1>4. /\ "users" \in Tables /\ "tenants" \in Tables /\ "recharges" \in Tables
        /\ "departments" \in Tables /\ "withdrawals" \in Tables
        /\ Keyed \cup {"articles"} \subseteq Tables
    BY DEF Tables, Keyed
  <1>5. MigrationShape' /\ OneAtATime'
    <2>1. copies' \in [Tables -> Nat]
      BY <1>1, <1>2 DEF MigrationShape
    <2>2. /\ deleted' \subseteq Edited /\ added' \subseteq Edited /\ cleared' \in BOOLEAN
      BY <1>1 DEF MigrationShape
    <2> QED BY <1>1, <2>1, <2>2 DEF MigrationShape, OneAtATime, Under
  <1>6. DataTogether'
    <2>1. copies'["users"] > 0 /\ copies["tenants"] = copies'["tenants"]
          /\ copies["departments"] = copies'["departments"]
      BY <1>1, <1>2, <1>3, <1>4
    <2>2. deleted' = {} => copies' = copies /\ deleted = {}
      BY <1>1
    <2> QED BY <1>1, <2>1, <2>2 DEF DataTogether
  <1>7. SeededInv'
    <2>1. \A u \in Tables : copies[u] <= 1 => copies'[u] <= 1
      BY <1>3
    <2>2. copies'["withdrawals"] > 0 => copies["withdrawals"] > 0
      BY <1>3, <1>4
    <2>3. copies'["recharges"] = copies["recharges"]
      BY <1>2, <1>3, <1>4
    <2> QED BY <1>1, <1>4, <2>1, <2>2, <2>3 DEF SeededInv
  <1>8. ~NothingDeleted'
    BY <1>1 DEF NothingDeleted
  <1>9. FinishedInv' /\ MoneyInv'
    BY <1>1, <1>8 DEF FinishedInv, MoneyInv, Unrefunded
  <1>10. ASSUME NEW n \in Migrators PROVE Good(n)'
    <2>1. Good(n) /\ at'[n] = at[n]
      BY <1>1
    <2>2. /\ copies'["users"] = copies["users"] /\ copies'["tenants"] = copies["tenants"]
          /\ copies'["recharges"] = copies["recharges"]
      BY <1>2, <1>3, <1>4
    <2>3. \A u \in Tables : copies[u] = 0 => copies'[u] = 0
      BY <1>3
    <2>4. deleted # {} => deleted' # {}
      BY <1>1
    <2> HIDE DEF MigrationInv
    <2> QED BY <1>1, <1>8, <2>1, <2>2, <2>3, <2>4 DEF Good, Unrefunded
  <1> QED BY <1>5, <1>6, <1>7, <1>9, <1>10

\* An empty data base and one of an earlier version.
LEMMA MigrationInitInv == MigrationInit => MigrationInv
  <1> SUFFICES ASSUME MigrationInit PROVE MigrationInv
    OBVIOUS
  <1>1. /\ deleted = {} /\ added = {} /\ cleared = FALSE /\ finished = FALSE
        /\ overlapped = FALSE
        /\ at = [m \in Migrators |-> [item |-> "off", looked |-> FALSE, missing |-> FALSE]]
        /\ \/ /\ copies = [t \in Tables |-> 0]
              /\ money = [cost |-> 0, margin |-> 0, refund |-> 0]
           \/ /\ copies = [t \in Tables |-> 1]
              /\ money = [cost |-> Leverage, margin |-> 0, refund |-> 0]
    BY DEF MigrationInit
  <1>2. MigrationShape
    <2>1. copies \in [Tables -> Nat]
      BY <1>1
    <2>2. [item |-> "off", looked |-> FALSE, missing |-> FALSE] \in Places
      BY DEF Places, Away
    <2>3. at \in [Migrators -> Places]
      BY <1>1, <2>2
    <2> QED BY <1>1, <2>1, <2>3 DEF MigrationShape
  <1>3. OneAtATime
    BY <1>1 DEF OneAtATime, Under, Away
  <1>4. DataTogether /\ SeededInv
    BY <1>1 DEF DataTogether, DataTables, SeededInv, Tables, Keyed
  <1>5. FinishedInv /\ MoneyInv
    BY <1>1 DEF FinishedInv, MoneyInv, Unrefunded
  <1>6. \A m \in Migrators : Good(m)
    BY <1>1 DEF Good, Before, Counted, Tables
  <1> QED BY <1>2, <1>3, <1>4, <1>5, <1>6 DEF MigrationInv

LEMMA MigrationStep == MigrationInv /\ [MigrationNext]_migrationVars => MigrationInv'
  <1> SUFFICES ASSUME MigrationInv, [MigrationNext]_migrationVars PROVE MigrationInv'
    OBVIOUS
  <1>1. CASE UNCHANGED migrationVars
    <2>1. /\ UNCHANGED <<copies, deleted, added, cleared, money, at, finished, overlapped>>
      BY <1>1 DEF migrationVars
    <2> QED BY <2>1 DEF MigrationInv, MigrationShape, OneAtATime, Under, DataTogether, SeededInv,
                        FinishedInv, NothingDeleted, Has, MoneyInv, Unrefunded, Good
  <1>2. CASE MigrationNext
    BY <1>2, StartInv, KillInv, MigrateDataInv, FindInv, LeverageInv, ResetInv, LookInv, SeedInv,
       FundRecordInv, AddRowInv, DeleteRowInv DEF MigrationNext
  <1> QED BY <1>1, <1>2

THEOREM MigrationInvariant == MigrationSpec => []MigrationInv
  BY MigrationInitInv, MigrationStep, PTL DEF MigrationSpec

\* The fund record is there when the devices are, or when a migration is about to
\* insert them.
Recorded ==
  \/ copies["devices"] > 0
  \/ \E m \in Migrators : at[m].item = "devices" /\ at[m].missing

FundsInv ==
  /\ funds \in 0..2 /\ torn \in BOOLEAN
  /\ ~overlapped /\ ~torn => funds <= 1 /\ (Recorded \/ funds = 0)

\* What is neither of the fund records nor of the devices leaves them recorded.
LEMMA StaysRecorded ==
  ASSUME MigrationInv, FundsInv, funds' = funds, torn' \in BOOLEAN, torn => torn',
         overlapped => overlapped', copies["devices"] > 0 => copies'["devices"] > 0,
         ~overlapped' /\ ~torn' => \A m \in Migrators :
           at[m].item = "devices" /\ at[m].missing =>
             at'[m] = at[m] \/ copies'["devices"] > 0
  PROVE  FundsInv'
  <1>1. "devices" \in Tables /\ copies["devices"] \in Nat
    BY DEF MigrationInv, MigrationShape, Tables
  <1>2. ~overlapped' /\ ~torn' => (Recorded => Recorded')
    BY <1>1 DEF Recorded
  <1>3. ~overlapped' /\ ~torn' => funds' <= 1 /\ (Recorded' \/ funds' = 0)
    BY <1>2 DEF FundsInv
  <1>4. funds' \in 0..2
    BY DEF FundsInv
  <1> QED BY <1>3, <1>4 DEF FundsInv

LEMMA FundsStep == MigrationInv /\ FundsInv /\ [MigrationNext]_migrationVars => FundsInv'
  <1> SUFFICES ASSUME MigrationInv, FundsInv, [MigrationNext]_migrationVars PROVE FundsInv'
    OBVIOUS
  <1>1. /\ MigrationShape /\ "devices" \in Tables /\ copies["devices"] \in Nat
        /\ "devices" \notin Edited /\ torn \in BOOLEAN
    BY MigrationAssumption DEF MigrationInv, MigrationShape, Tables, FundsInv
  <1>2. ASSUME NEW m \in Migrators, NEW p, at' = [at EXCEPT ![m] = p],
               at[m].item # "devices", copies'["devices"] = copies["devices"],
               UNCHANGED <<funds, torn, overlapped>>
        PROVE  FundsInv'
    <2>1. \A n \in Migrators : at[n].item = "devices" => at'[n] = at[n]
      BY <1>1, <1>2 DEF MigrationShape
    <2> QED BY <1>1, <1>2, <2>1, StaysRecorded
  <1>3. ASSUME NEW m \in Migrators, StartMigration(m) PROVE FundsInv'
    <2>1. \A n \in Migrators : at[n].item = "devices" => at'[n] = at[n]
      BY <1>1, <1>3 DEF MigrationShape, StartMigration, GoOn, Go, Under, Away
    <2>2. UNCHANGED <<copies, funds, torn>> /\ (overlapped => overlapped')
      BY <1>3 DEF StartMigration, Funds
    <2> QED BY <1>1, <2>1, <2>2, StaysRecorded
  <1>4. ASSUME NEW m \in Migrators, KillMigration(m) PROVE FundsInv'
    <2>1. /\ UNCHANGED <<copies, funds, overlapped>>
          /\ torn' = (torn \/ (at[m].item = "devices" /\ at[m].missing))
      BY <1>4 DEF KillMigration, Outside
    <2>2. \A n \in Migrators \ {m} : at'[n] = at[n]
      BY <1>1, <1>4 DEF MigrationShape, KillMigration, GoOn, Go
    <2>3. torn' \in BOOLEAN /\ (torn => torn') /\ copies' = copies
      BY <1>1, <2>1
    <2>4. ~torn' => \A n \in Migrators :
            at[n].item = "devices" /\ at[n].missing => at'[n] = at[n]
      BY <2>1, <2>2
    <2> QED BY <2>1, <2>3, <2>4, StaysRecorded
  <1>5. ASSUME NEW m \in Migrators, MigrateData(m) PROVE FundsInv'
    <2>1. "devices" \notin Inserts(m)
      BY DEF Inserts
    <2>2. copies'["devices"] = copies["devices"] /\ UNCHANGED <<funds, torn, overlapped>>
      BY <1>1, <1>5, <2>1 DEF MigrateData, Funds, Outside
    <2>3. at[m].item = "data" /\ (GoOn(m, "customers") \/ GoOn(m, "failed"))
      BY <1>5 DEF MigrateData
    <2> QED BY <1>2, <2>2, <2>3 DEF GoOn, Go
  <1>6. ASSUME NEW m \in Migrators,
               FindPositions(m) \/ MigrateLeveragedPositions(m) \/ ResetSequences(m)
        PROVE  FundsInv'
    <2>1. /\ copies' = copies /\ funds' = funds /\ torn' = torn /\ overlapped' = overlapped
          /\ at[m].item \in {"leverage", "sequences"}
      <3>1. FindPositions(m) =>
              /\ at[m].item = "leverage" /\ UNCHANGED <<copies, funds, torn, overlapped>>
        BY DEF FindPositions, Funds, Outside
      <3>2. MigrateLeveragedPositions(m) =>
              /\ at[m].item = "leverage" /\ UNCHANGED <<copies, funds, torn, overlapped>>
        BY DEF MigrateLeveragedPositions, Funds, Outside
      <3>3. ResetSequences(m) =>
              /\ at[m].item = "sequences" /\ UNCHANGED <<copies, funds, torn, overlapped>>
        BY DEF ResetSequences, Funds, Outside
      <3> QED BY <1>6, <3>1, <3>2, <3>3
    <2>2. \E p : at' = [at EXCEPT ![m] = p]
      BY <1>6 DEF FindPositions, MigrateLeveragedPositions, ResetSequences, GoOn, Go
    <2> QED BY <1>2, <2>1, <2>2
  <1>7. ASSUME NEW m \in Migrators, SeedFundRecord(m) PROVE FundsInv'
    <2>1. /\ at[m].item = "funds" /\ at[m].looked /\ Good(m) /\ Under(m)
          /\ UNCHANGED <<copies, torn, overlapped>>
      BY <1>7, Tabled DEF SeedFundRecord, Outside, MigrationInv, Under, ItemNames
    <2>2. CASE funds' = funds
      <3>1. \E p : at' = [at EXCEPT ![m] = p]
        BY <1>7 DEF SeedFundRecord, GoOn, Go
      <3> QED BY <1>2, <2>1, <2>2, <3>1
    <2>3. CASE funds' # funds
      <3>1. /\ at[m].missing /\ funds' = IF funds < 2 THEN funds + 1 ELSE 2
            /\ at' = [at EXCEPT ![m] = [item |-> "devices", looked |-> TRUE,
                                       missing |-> at[m].missing]]
        BY <1>7, <2>3 DEF SeedFundRecord, Go
      <3>2. at'[m].item = "devices" /\ at'[m].missing
        BY <1>1, <3>1 DEF MigrationShape
      <3>3. Recorded' /\ funds \in 0..2
        BY <3>2 DEF Recorded, FundsInv
      <3>4. ASSUME ~overlapped, ~torn PROVE funds = 0
        <4>1. Counted("funds") = "devices" /\ copies["devices"] = 0
          BY <1>1, <2>1, <3>1, <3>4 DEF Good, Counted
        <4>2. \A n \in Migrators : at[n].item # "devices"
          BY <2>1, <3>4, Tabled DEF MigrationInv, OneAtATime, Under, ItemNames
        <4> QED BY <3>4, <4>1, <4>2 DEF FundsInv, Recorded
      <3> QED BY <2>1, <3>1, <3>3, <3>4, <1>1 DEF FundsInv
    <2> QED BY <2>2, <2>3
  <1>8. ASSUME NEW m \in Migrators, NEW t \in Tables, Look(m, t) PROVE FundsInv'
    <2>1. UNCHANGED <<copies, funds, torn, overlapped>> /\ ~at[m].looked
      BY <1>8 DEF Look, Funds, Outside
    <2>2. \E b \in BOOLEAN : at' = [at EXCEPT ![m] = [item |-> at[m].item, looked |-> TRUE,
                                                    missing |-> b]]
      BY <1>8 DEF Look, Go, Empty
    <2>3. CASE at[m].item # "devices"
      BY <1>2, <2>1, <2>2, <2>3
    <2>4. CASE at[m].item = "devices"
      <3>1. at[m].looked
        BY <2>4 DEF MigrationInv, Good
      <3> QED BY <2>1, <3>1
    <2> QED BY <2>3, <2>4
  <1>9. ASSUME NEW m \in Migrators, NEW t \in Tables, Seed(m, t) PROVE FundsInv'
    <2>1. UNCHANGED <<funds, torn, overlapped>> /\ t = at[m].item /\ at[m].looked
      BY <1>9 DEF Seed, Funds, Outside
    <2>2. \E p : at' = [at EXCEPT ![m] = p]
      BY <1>9 DEF Seed, GoOn, Go
    <2>3. CASE t # "devices"
      <3>1. copies'["devices"] = copies["devices"]
        BY <1>1, <1>9, <2>3 DEF Seed, MigrationShape
      <3> QED BY <1>2, <2>1, <2>2, <2>3, <3>1
    <2>4. CASE t = "devices"
      <3>1. Good(m) /\ Counted("devices") = "devices" /\ "devices" \notin deleted
        BY <1>1 DEF MigrationInv, Counted, MigrationShape
      <3>2. /\ copies["devices"] > 0 => copies'["devices"] > 0
            /\ ~overlapped /\ at[m].missing => copies'["devices"] > 0
        <4>1. ~overlapped /\ at[m].missing => MayInsert("devices")
          BY <1>1, <2>1, <2>4, <3>1 DEF Good, MayInsert
        <4>2. copies' = copies \/ copies' = [copies EXCEPT !["devices"] = @ + 1]
          BY <1>9, <2>4 DEF Seed
        <4>3. at[m].missing /\ MayInsert("devices") =>
                copies' = [copies EXCEPT !["devices"] = @ + 1]
          BY <1>9, <2>4 DEF Seed
        <4>4. [copies EXCEPT !["devices"] = @ + 1]["devices"] = copies["devices"] + 1
          BY <1>1 DEF MigrationShape
        <4> QED BY <1>1, <4>1, <4>2, <4>3, <4>4
      <3>3. \A n \in Migrators \ {m} : at'[n] = at[n]
        BY <1>1, <2>2 DEF MigrationShape
      <3> QED BY <1>1, <2>1, <3>2, <3>3, StaysRecorded
    <2> QED BY <2>3, <2>4
  <1>10. ASSUME NEW t \in Edited, AddRow(t) \/ DeleteRow(t) PROVE FundsInv'
    <2>1. UNCHANGED <<funds, torn, overlapped, at>> /\ copies'["devices"] = copies["devices"]
      BY <1>1, <1>10 DEF AddRow, DeleteRow, EditBegins, Funds, MigrationShape
    <2> QED BY <1>1, <2>1, StaysRecorded
  <1>11. CASE UNCHANGED migrationVars
    BY <1>1, <1>11, StaysRecorded DEF migrationVars
  <1> QED BY <1>3, <1>4, <1>5, <1>6, <1>7, <1>8, <1>9, <1>10, <1>11 DEF MigrationNext

LEMMA FundsInit == MigrationInit => FundsInv
  <1> SUFFICES ASSUME MigrationInit PROVE FundsInv
    OBVIOUS
  <1>1. /\ torn = FALSE
        /\ funds = 0 \/ (funds = 1 /\ copies = [t \in Tables |-> 1])
    BY DEF MigrationInit
  <1>2. funds = 1 => copies["devices"] > 0
    BY <1>1 DEF Tables
  <1>3. funds = 1 => Recorded
    BY <1>2 DEF Recorded
  <1>4. torn \in BOOLEAN /\ (funds = 0 \/ funds = 1)
    BY <1>1
  <1>5. funds \in 0..2 /\ funds <= 1
    BY <1>4
  <1> QED BY <1>3, <1>4, <1>5 DEF FundsInv

\* For every number of migrations, runs and edits: the defaults of a table are
\* there once, those without a key unless two migrations were under way at a time,
\* and so is the first fund record unless, besides, one ended right after it.
THEOREM DefaultsOnce == MigrationSpec => []SeededOnce
  <1>1. MigrationInv /\ FundsInv => SeededOnce
    BY DEF MigrationInv, MigrationShape, SeededInv, FundsInv, SeededOnce
  <1>2. MigrationInit => MigrationInv /\ FundsInv
    BY MigrationInitInv, FundsInit
  <1>3. MigrationInv /\ FundsInv /\ [MigrationNext]_migrationVars => (MigrationInv /\ FundsInv)'
    BY MigrationStep, FundsStep
  <1> QED BY <1>1, <1>2, <1>3, PTL DEF MigrationSpec

\* A migration that gets to its end leaves nothing out of what nobody deleted.
THEOREM NothingLeftOut == MigrationSpec => []Complete
  <1>1. MigrationInv => Complete
    BY DEF MigrationInv, FinishedInv, NothingDeleted, Has, Complete
  <1> QED BY MigrationInvariant, <1>1, PTL

\* Alone, and with no default deleted, a migration does not fail.
THEOREM FailureExplained == MigrationSpec => []FailsOnlyAfterDeletion
  <1>1. MigrationInv => FailsOnlyAfterDeletion
    BY DEF MigrationInv, Good, FailsOnlyAfterDeletion
  <1> QED BY MigrationInvariant, <1>1, PTL

\* What the old position cost is its margin and one refund.
THEOREM OneRefund == MigrationSpec => []RefundedOnce
  <1>1. MigrationInv => RefundedOnce
    BY DEF MigrationInv, MoneyInv, Unrefunded, RefundedOnce, Leverage
  <1> QED BY MigrationInvariant, <1>1, PTL

-----------------------------------------------------------------------------
(***************************************************************************)
(* The collection of news.  Finding no row and making one are separate     *)
(* steps, and so are dropping relations and adding them: the invariant     *)
(* says what a collector may rely on between them, which is what the lock  *)
(* of its source leaves alone.                                             *)
(***************************************************************************)

Workers ==
  [at : {"rest", "next", "fetch", "items", "write", "written", "relate", "release"},
   source : Sources \cup {"nowhere"}, queue : SUBSET Sources, todo : SUBSET FeedItems,
   row : FeedItems \cup {Absent}, item : FeedItems \cup {Absent}, date : Dates,
   tries : Nat]

NewsShape ==
  /\ article \in [FeedItems -> {"none", "published", "hidden", "deleted"}]
  /\ made \in [FeedItems -> Dates] /\ published \in [FeedItems -> Dates]
  /\ strayed \subseteq FeedItems
  /\ relations \in [FeedItems -> Nat]
  /\ held \in [Sessions -> [Sources -> Nat]]
  /\ collector \in [Collectors -> Workers]
  /\ withdrawn \subseteq FeedItems /\ unguarded \subseteq Sources /\ crossed \subseteq FeedItems

\* What a collector has in hand, by the place where it is.
InHand(w) ==
  /\ w.at \notin {"rest", "next"} => w.source \in Sources
  /\ w.at \in {"items", "write", "written", "relate"} => \A i \in w.todo : i.source = w.source
  /\ w.at = "write" => w.item \in FeedItems /\ w.item.source = w.source
  /\ w.at \in {"write", "written", "relate"} /\ w.row # Absent => article[w.row] # "none"
  /\ w.at \in {"written", "relate"} => w.row # Absent

\* No two rows, deleted ones included, share an id or an address.
KeysApart == \A r, q \in FeedItems :
  article[r] # "none" /\ article[q] # "none" /\ r # q => r.uid # q.uid /\ r.url # q.url

WithdrawnAway == \A r \in withdrawn : article[r] \in {"hidden", "deleted"}

\* The lock of a guarded source has one collector behind it, and some session.
Guarded == \A s \in Sources \ unguarded :
  /\ \A j, k \in AtWork(s) : j = k
  /\ AtWork(s) # {} => \E c \in Sessions : held[c][s] > 0

\* What a collector took for a new story of a guarded source still is new.
StillNew(w) == w.at = "write" /\ w.row = Absent /\ w.source \notin unguarded =>
  \A r \in LiveRows \ strayed :
    ~(r.source = w.item.source /\ r.story = w.item.story /\ made[r] = w.date)

\* Unless it strayed, a row is found by the date in its hash.
Findable == \A r \in FeedItems \ strayed : Near(published[r], made[r])

Relating(k, r) == collector[k].at = "relate" /\ collector[k].row = r
Written(k, r) == collector[k].at = "written" /\ collector[k].row = r

\* Between the two statements an article has no relations, and after them one.
RelationsInv == \A r \in FeedItems \ crossed :
  /\ \A j, k \in Collectors : Relating(j, r) /\ Relating(k, r) => j = k
  /\ (\E k \in Collectors : Relating(k, r)) => relations[r] = 0
  /\ article[r] # "none" /\ (\A k \in Collectors : ~Relating(k, r)) =>
       relations[r] = 1 \/ \E k \in Collectors : Written(k, r)

NewsInv ==
  /\ NewsShape
  /\ \A k \in Collectors : InHand(collector[k]) /\ StillNew(collector[k])
  /\ KeysApart /\ WithdrawnAway
  /\ Guarded /\ Findable /\ OneRowPerStory
  /\ RelationsInv

\* A row is never the mark for no row.
LEMMA RowsAreThere == Absent \notin FeedItems /\ LiveRows \subseteq FeedItems
  BY NewsAssumption DEF Absent, LiveRows

LEMMA DatesAre == 0 \in Dates /\ Dates \subseteq Nat /\ \A i \in FeedItems : i.dates \subseteq Dates
  BY NewsAssumption DEF Dates

LEMMA NearItself == \A d \in Dates : Near(d, d)
  BY DatesAre, NewsAssumption DEF Near

LEMMA RestingWorks ==
  ASSUME NEW q \in SUBSET Sources
  PROVE  /\ Resting \in Workers
         /\ [Resting EXCEPT !.at = "next", !.queue = q] \in Workers
         /\ Resting.at = "rest"
         /\ [Resting EXCEPT !.at = "next", !.queue = q].at = "next"
  BY DatesAre DEF Resting, Workers

\* The item that was taken up is done with.
LEMMA NextItemWorks ==
  ASSUME NEW k \in Collectors, collector[k] \in Workers, InHand(collector[k]),
         collector[k].at \in {"write", "written", "relate"}
  PROVE  /\ NextItem(k) \in Workers /\ NextItem(k).at = "items" /\ InHand(NextItem(k))
         /\ NextItem(k).source = collector[k].source
  BY DatesAre DEF NextItem, Workers, InHand

\* What is looked for and not found is not there, or not where it is looked for.
LEMMA ExistingFinds ==
  ASSUME Findable, NEW i \in FeedItems, NEW d
  PROVE  /\ Existing(i, d) \in LiveRows \cup {Absent}
         /\ Existing(i, d) = Absent =>
              \A r \in LiveRows \ strayed :
                ~(r.source = i.source /\ r.story = i.story /\ made[r] = d)
  <1> DEFINE byId == {r \in LiveRows : r.source = i.source /\ r.uid = i.uid}
             byUrl == {r \in LiveRows : r.url = i.url}
             byHash == {r \in LiveRows : /\ r.source = i.source /\ r.story = i.story
                                         /\ made[r] = d /\ Near(published[r], d)}
             of(S) == CHOOSE r \in S : TRUE
  <1>1. Existing(i, d) = IF byId # {} THEN of(byId)
                         ELSE IF byUrl # {} THEN of(byUrl)
                         ELSE IF byHash # {} THEN of(byHash)
                         ELSE Absent
    BY DEF Existing
  <1>2. /\ byId # {} => of(byId) \in byId
        /\ byUrl # {} => of(byUrl) \in byUrl
        /\ byHash # {} => of(byHash) \in byHash
    OBVIOUS
  <1>3. byId \subseteq LiveRows /\ byUrl \subseteq LiveRows /\ byHash \subseteq LiveRows
    OBVIOUS
  <1>4. byHash = {} =>
          \A r \in LiveRows \ strayed :
            ~(r.source = i.source /\ r.story = i.story /\ made[r] = d)
    BY RowsAreThere DEF Findable
  <1> HIDE DEF byId, byUrl, byHash, of
  <1> QED BY <1>1, <1>2, <1>3, <1>4, RowsAreThere

-----------------------------------------------------------------------------
\* A collector goes on, and nothing but its place changes.
LEMMA MovesOn ==
  ASSUME NewsInv, NEW k \in Collectors, NEW w \in Workers,
         collector' = [collector EXCEPT ![k] = w],
         UNCHANGED <<article, Dating, relations, held, unguarded, crossed, withdrawn>>,
         collector[k].at \notin {"written", "relate"}, w.at # "relate",
         InHand(w), StillNew(w),
         w.at \notin {"rest", "next"} =>
           collector[k].at \notin {"rest", "next"} /\ w.source = collector[k].source
  PROVE  NewsInv'
  <1> USE DEF NewsInv
  <1>1. collector' \in [Collectors -> Workers] /\ collector'[k] = w
        /\ \A j \in Collectors \ {k} : collector'[j] = collector[j]
    BY DEF NewsShape
  <1>2. NewsShape'
    BY <1>1 DEF NewsShape, Dating
  <1>3. LiveRows' = LiveRows /\ made' = made /\ published' = published /\ strayed' = strayed
    BY DEF LiveRows, Dating
  <1>4. \A v : (InHand(v) => InHand(v)') /\ (StillNew(v) => StillNew(v)')
    BY <1>3 DEF InHand, StillNew
  <1>5. ASSUME NEW j \in Collectors PROVE (InHand(collector[j]) /\ StillNew(collector[j]))'
    <2>1. PICK v \in Workers : v = collector'[j] /\ InHand(v) /\ StillNew(v)
      BY <1>1
    <2> QED BY <1>4, <2>1 DEF InHand, StillNew
  <1>6. (KeysApart /\ WithdrawnAway /\ Findable /\ OneRowPerStory)'
    BY <1>3 DEF KeysApart, WithdrawnAway, Findable, OneRowPerStory
  <1>7. Guarded'
    <2>1. \A s \in Sources : AtWork(s)' \subseteq AtWork(s)
      BY <1>1 DEF AtWork
    <2> QED BY <2>1 DEF Guarded
  <1>8. \A j \in Collectors, r \in FeedItems :
          (Relating(j, r)' <=> Relating(j, r)) /\ (Written(j, r) => Written(j, r)')
    BY <1>1 DEF Relating, Written
  <1>9. RelationsInv'
    BY <1>8 DEF RelationsInv
  <1> QED BY <1>2, <1>5, <1>6, <1>7, <1>9

\* The steps that only look, wait, or write what no property is about.
LEMMA QuietSteps ==
  ASSUME NewsInv, NEW k \in Collectors,
         \/ \E q \in SUBSET Sources : Collect(k, q)
         \/ EndCollection(k) \/ FinishSource(k) \/ FetchItems(k)
         \/ \E s \in Sources : LockFails(k, s)
         \/ \E retryable \in BOOLEAN : FetchFails(k, retryable)
         \/ \E i \in FeedItems, d \in Dates : FindExisting(k, i, d)
  PROVE  NewsInv'
  <1>1. /\ collector[k] \in Workers /\ InHand(collector[k])
        /\ unguarded \subseteq Sources
        /\ article \in [FeedItems -> {"none", "published", "hidden", "deleted"}]
    BY DEF NewsInv, NewsShape
  <1>2. ASSUME NEW q \in SUBSET Sources, Collect(k, q) PROVE NewsInv'
    <2> DEFINE w == [Resting EXCEPT !.at = "next", !.queue = q]
    <2>1. w \in Workers /\ w.at = "next"
      BY RestingWorks
    <2>2. InHand(w) /\ StillNew(w)
      BY <2>1 DEF InHand, StillNew
    <2>3. /\ collector[k].at = "rest" /\ collector' = [collector EXCEPT ![k] = w]
          /\ UNCHANGED <<article, Dating, relations, held, unguarded, crossed, withdrawn>>
      BY <1>2 DEF Collect, Advance, Administration
    <2> HIDE DEF w
    <2> QED BY <2>1, <2>2, <2>3, MovesOn
  <1>3. CASE EndCollection(k)
    <2>1. Resting \in Workers /\ Resting.at = "rest"
      BY RestingWorks
    <2>2. InHand(Resting) /\ StillNew(Resting)
      BY <2>1 DEF InHand, StillNew
    <2>3. /\ collector[k].at = "next" /\ collector' = [collector EXCEPT ![k] = Resting]
          /\ UNCHANGED <<article, Dating, relations, held, unguarded, crossed, withdrawn>>
      BY <1>3 DEF EndCollection, Advance, Administration
    <2> QED BY <2>1, <2>2, <2>3, MovesOn
  <1>4. CASE FinishSource(k)
    <2> DEFINE w == [collector[k] EXCEPT !.at = "release"]
    <2>1. /\ collector[k].at = "items" /\ collector' = [collector EXCEPT ![k] = w]
          /\ UNCHANGED <<article, Dating, relations, held, unguarded, crossed, withdrawn>>
      BY <1>4 DEF FinishSource, Advance, Writing, Administration
    <2>2. w \in Workers /\ w.at = "release" /\ w.source = collector[k].source
      BY <1>1 DEF Workers
    <2>3. InHand(w) /\ StillNew(w)
      BY <1>1, <2>1, <2>2 DEF InHand, StillNew
    <2> HIDE DEF w
    <2> QED BY <2>1, <2>2, <2>3, MovesOn
  <1>5. CASE FetchItems(k)
    <2> DEFINE items == {i \in FeedItems : i.source = collector[k].source}
               w == [collector[k] EXCEPT !.at = "items", !.todo = items, !.tries = 0]
    <2>1. /\ collector[k].at = "fetch" /\ collector' = [collector EXCEPT ![k] = w]
          /\ UNCHANGED <<article, Dating, relations, held, unguarded, crossed, withdrawn>>
      BY <1>5 DEF FetchItems, Advance, Writing, Administration
    <2>2. /\ w \in Workers /\ w.at = "items" /\ w.source = collector[k].source
          /\ w.todo = items
      BY <1>1 DEF Workers
    <2>3. InHand(w) /\ StillNew(w)
      BY <1>1, <2>1, <2>2 DEF InHand, StillNew
    <2> HIDE DEF w
    <2> QED BY <2>1, <2>2, <2>3, MovesOn
  <1>6. ASSUME NEW s \in Sources, LockFails(k, s) PROVE NewsInv'
    <2> DEFINE w == [collector[k] EXCEPT !.queue = @ \ {s}]
    <2>1. /\ collector[k].at = "next" /\ collector' = [collector EXCEPT ![k] = w]
          /\ UNCHANGED <<article, Dating, relations, held, unguarded, crossed, withdrawn>>
      BY <1>6 DEF LockFails, Advance, Administration
    <2>2. w \in Workers /\ w.at = "next"
      BY <1>1, <2>1 DEF Workers
    <2>3. InHand(w) /\ StillNew(w)
      BY <2>2 DEF InHand, StillNew
    <2> HIDE DEF w
    <2> QED BY <2>1, <2>2, <2>3, MovesOn
  <1>7. ASSUME NEW retryable \in BOOLEAN, FetchFails(k, retryable) PROVE NewsInv'
    <2> DEFINE w == IF retryable /\ collector[k].tries < MaxRetries
                    THEN [collector[k] EXCEPT !.tries = @ + 1]
                    ELSE [collector[k] EXCEPT !.at = "release", !.tries = 0]
    <2>1. /\ collector[k].at = "fetch" /\ collector' = [collector EXCEPT ![k] = w]
          /\ UNCHANGED <<article, Dating, relations, held, unguarded, crossed, withdrawn>>
      BY <1>7 DEF FetchFails, Advance, Writing, Administration
    <2>2. w \in Workers /\ w.at \in {"fetch", "release"} /\ w.source = collector[k].source
      <3>1. collector[k].tries + 1 \in Nat
        BY <1>1 DEF Workers
      <3>2. CASE retryable /\ collector[k].tries < MaxRetries
        BY <1>1, <2>1, <3>1, <3>2 DEF Workers
      <3>3. CASE ~(retryable /\ collector[k].tries < MaxRetries)
        BY <1>1, <2>1, <3>3 DEF Workers
      <3> QED BY <3>2, <3>3
    <2>3. InHand(w) /\ StillNew(w)
      BY <1>1, <2>1, <2>2 DEF InHand, StillNew
    <2> HIDE DEF w
    <2> QED BY <2>1, <2>2, <2>3, MovesOn
  <1>8. ASSUME NEW i \in FeedItems, NEW d \in Dates, FindExisting(k, i, d) PROVE NewsInv'
    <2> DEFINE w == [collector[k] EXCEPT !.at = "write", !.item = i, !.date = d,
                                         !.row = Existing(i, d)]
    <2>1. /\ collector[k].at = "items" /\ i \in collector[k].todo
          /\ collector' = [collector EXCEPT ![k] = w]
          /\ UNCHANGED <<article, Dating, relations, held, unguarded, crossed, withdrawn>>
      BY <1>8 DEF FindExisting, Advance, Writing, Administration
    <2>0. Findable
      BY DEF NewsInv
    <2>2. /\ Existing(i, d) \in FeedItems \cup {Absent}
          /\ Existing(i, d) # Absent => article[Existing(i, d)] # "none"
      BY <2>0, ExistingFinds DEF LiveRows
    <2>3. /\ w \in Workers /\ w.at = "write" /\ w.source = collector[k].source
          /\ w.todo = collector[k].todo /\ w.item = i /\ w.row = Existing(i, d)
          /\ w.date = d
      BY <1>1, <2>2 DEF Workers
    <2>4. InHand(w)
      BY <1>1, <2>1, <2>2, <2>3 DEF InHand
    <2>5. StillNew(w)
      BY <2>0, <2>3, ExistingFinds DEF StillNew
    <2> HIDE DEF w
    <2> QED BY <2>1, <2>3, <2>4, <2>5, MovesOn
  <1> QED BY <1>2, <1>3, <1>4, <1>5, <1>6, <1>7, <1>8

-----------------------------------------------------------------------------
\* A lock that is got where nobody is at work, or makes the source unguarded.
LEMMA TrySourceLockInv ==
  ASSUME NewsInv, NEW k \in Collectors, NEW s \in Sources, NEW c \in Sessions,
         TrySourceLock(k, s, c)
  PROVE  NewsInv'
  <1> DEFINE locked == \A d \in Sessions \ {c} : held[d][s] = 0
             twice == locked /\ held[c][s] > 0 /\ AtWork(s) # {}
             v == [collector[k] EXCEPT !.queue = @ \ {s}]
             w == [collector[k] EXCEPT !.at = "fetch", !.source = s, !.queue = @ \ {s}]
  <1>1. /\ collector[k] \in Workers /\ collector[k].at = "next" /\ InHand(collector[k])
        /\ UNCHANGED <<article, Dating, relations, crossed, withdrawn>>
    BY DEF NewsInv, NewsShape, TrySourceLock, Administration
  <1>2. /\ v \in Workers /\ v.at = "next"
        /\ w \in Workers /\ w.at = "fetch" /\ w.source = s
    BY <1>1 DEF Workers
  <1>3. /\ collector' = [collector EXCEPT ![k] = IF locked THEN w ELSE v]
        /\ held' = IF locked THEN [held EXCEPT ![c][s] = @ + 1] ELSE held
        /\ unguarded' = IF twice THEN unguarded \cup {s} ELSE unguarded
    BY Zenon DEF TrySourceLock, Advance
  <1>4. CASE ~locked
    <2>1. InHand(v) /\ StillNew(v)
      BY <1>2 DEF InHand, StillNew
    <2>2. /\ collector' = [collector EXCEPT ![k] = v]
          /\ UNCHANGED <<article, Dating, relations, held, unguarded, crossed, withdrawn>>
      BY <1>1, <1>3, <1>4
    <2> HIDE DEF v, w, locked, twice
    <2> QED BY <1>1, <1>2, <2>1, <2>2, MovesOn
  <1>5. CASE locked
    <2>1. /\ collector' = [collector EXCEPT ![k] = w]
          /\ held' = [held EXCEPT ![c][s] = @ + 1]
          /\ unguarded \subseteq unguarded' /\ unguarded' \subseteq unguarded \cup {s}
          /\ (s \notin unguarded' => s \notin unguarded /\ AtWork(s) = {})
      <3>1. s \notin unguarded /\ AtWork(s) # {} => held[c][s] > 0
        <4>1. s \notin unguarded /\ AtWork(s) # {} => \E d \in Sessions : held[d][s] > 0
          BY DEF NewsInv, Guarded
        <4> QED BY <1>5, <4>1
      <3> HIDE DEF v, w
      <3> QED BY <1>3, <1>5, <3>1
    <2> HIDE DEF v, w, locked, twice
    <2> USE DEF NewsInv
    <2>2. collector' \in [Collectors -> Workers] /\ collector'[k] = w
          /\ \A j \in Collectors \ {k} : collector'[j] = collector[j]
      BY <1>2, <2>1 DEF NewsShape
    <2>3. /\ held' \in [Sessions -> [Sources -> Nat]] /\ held'[c][s] > 0
          /\ \A d \in Sessions, t \in Sources : t # s => held'[d][t] = held[d][t]
      BY <2>1 DEF NewsShape
    <2>4. NewsShape'
      BY <1>1, <2>1, <2>2, <2>3 DEF NewsShape, Dating
    <2>5. LiveRows' = LiveRows /\ made' = made /\ published' = published /\ strayed' = strayed
      BY <1>1 DEF LiveRows, Dating
    <2>6. ASSUME NEW j \in Collectors PROVE (InHand(collector[j]) /\ StillNew(collector[j]))'
      <3>1. PICK x \in Workers : x = collector'[j] /\ InHand(x) /\ StillNew(x)
        BY <1>2, <2>2 DEF InHand, StillNew
      <3> QED BY <1>1, <2>1, <2>5, <3>1 DEF InHand, StillNew
    <2>7. (KeysApart /\ WithdrawnAway /\ Findable /\ OneRowPerStory)'
      BY <1>1, <2>1, <2>5 DEF KeysApart, WithdrawnAway, Findable, OneRowPerStory
    <2>8. Guarded'
      <3>1. \A t \in Sources \ {s} : AtWork(t)' = AtWork(t)
        BY <1>1, <1>2, <2>2 DEF AtWork
      <3>2. AtWork(s)' = AtWork(s) \cup {k}
        BY <1>2, <2>2 DEF AtWork
      <3>3. ASSUME NEW t \in Sources, t # s, t \notin unguarded'
            PROVE  /\ \A i, j \in AtWork(t)' : i = j
                   /\ AtWork(t)' # {} => \E d \in Sessions : held'[d][t] > 0
        BY <2>1, <2>3, <3>1, <3>3 DEF Guarded
      <3>4. ASSUME s \notin unguarded'
            PROVE  /\ \A i, j \in AtWork(s)' : i = j
                   /\ \E d \in Sessions : held'[d][s] > 0
        BY <2>1, <2>3, <3>2, <3>4
      <3> QED BY <3>3, <3>4 DEF Guarded
    <2>9. \A j \in Collectors, r \in FeedItems :
            (Relating(j, r)' <=> Relating(j, r)) /\ (Written(j, r)' <=> Written(j, r))
      BY <1>1, <1>2, <2>2 DEF Relating, Written
    <2>10. RelationsInv'
      BY <1>1, <2>9 DEF RelationsInv
    <2> QED BY <2>4, <2>6, <2>7, <2>8, <2>10
  <1> QED BY <1>4, <1>5

\* A release in another session than that of the lock releases nothing.
LEMMA ReleaseSourceLockInv ==
  ASSUME NewsInv, NEW k \in Collectors, NEW c \in Sessions, ReleaseSourceLock(k, c)
  PROVE  NewsInv'
  <1> DEFINE w == [Resting EXCEPT !.at = "next", !.queue = collector[k].queue]
  <1>1. PICK s \in Sources :
          /\ s = collector[k].source
          /\ held' = IF held[c][s] > 0 THEN [held EXCEPT ![c][s] = @ - 1] ELSE held
    BY DEF NewsInv, NewsShape, ReleaseSourceLock, InHand
  <1>2. /\ collector[k] \in Workers /\ collector[k].at = "release"
        /\ collector' = [collector EXCEPT ![k] = w]
        /\ UNCHANGED <<article, Dating, relations, crossed, unguarded, withdrawn>>
    BY DEF NewsInv, NewsShape, ReleaseSourceLock, Advance, Administration
  <1>3. w \in Workers /\ w.at = "next"
    BY <1>2, RestingWorks DEF Workers
  <1> HIDE DEF w
  <1> USE DEF NewsInv
  <1>4. collector' \in [Collectors -> Workers] /\ collector'[k] = w
        /\ \A j \in Collectors \ {k} : collector'[j] = collector[j]
    BY <1>2, <1>3 DEF NewsShape
  <1>5. /\ held' \in [Sessions -> [Sources -> Nat]]
        /\ \A d \in Sessions, t \in Sources : t # s => held'[d][t] = held[d][t]
    BY <1>1 DEF NewsShape
  <1>6. NewsShape'
    BY <1>2, <1>4, <1>5 DEF NewsShape, Dating
  <1>7. LiveRows' = LiveRows /\ made' = made /\ published' = published /\ strayed' = strayed
    BY <1>2 DEF LiveRows, Dating
  <1>8. ASSUME NEW j \in Collectors PROVE (InHand(collector[j]) /\ StillNew(collector[j]))'
    <2>1. PICK x \in Workers : x = collector'[j] /\ InHand(x) /\ StillNew(x)
      BY <1>3, <1>4 DEF InHand, StillNew
    <2> QED BY <1>2, <1>7, <2>1 DEF InHand, StillNew
  <1>9. (KeysApart /\ WithdrawnAway /\ Findable /\ OneRowPerStory)'
    BY <1>2, <1>7 DEF KeysApart, WithdrawnAway, Findable, OneRowPerStory
  <1>10. Guarded'
    <2>1. \A t \in Sources : AtWork(t)' \subseteq AtWork(t)
      BY <1>3, <1>4 DEF AtWork
    <2>2. s \notin unguarded => AtWork(s)' = {}
      <3>1. k \in AtWork(s)
        BY <1>1, <1>2 DEF AtWork
      <3>2. k \notin AtWork(s)'
        BY <1>3, <1>4 DEF AtWork
      <3> QED BY <2>1, <3>1, <3>2 DEF Guarded
    <2>3. ASSUME NEW t \in Sources, t # s, t \notin unguarded'
          PROVE  /\ \A i, j \in AtWork(t)' : i = j
                 /\ AtWork(t)' # {} => \E d \in Sessions : held'[d][t] > 0
      BY <1>2, <1>5, <2>1, <2>3 DEF Guarded
    <2> QED BY <1>2, <2>2, <2>3 DEF Guarded
  <1>11. \A j \in Collectors, r \in FeedItems :
           (Relating(j, r)' <=> Relating(j, r)) /\ (Written(j, r)' <=> Written(j, r))
    BY <1>2, <1>3, <1>4 DEF Relating, Written
  <1>12. RelationsInv'
    BY <1>2, <1>11 DEF RelationsInv
  <1> QED BY <1>6, <1>8, <1>9, <1>10, <1>12

-----------------------------------------------------------------------------
\* The lock of a source stays with its collector while that works on its items.
LEMMA StaysAtWork ==
  ASSUME NewsInv, NEW k \in Collectors, NEW w \in Workers,
         collector' = [collector EXCEPT ![k] = w],
         UNCHANGED <<held, unguarded>>,
         collector[k].at \notin {"rest", "next"}, w.at \notin {"rest", "next"},
         w.source = collector[k].source
  PROVE  /\ collector' \in [Collectors -> Workers] /\ collector'[k] = w
         /\ \A j \in Collectors \ {k} : collector'[j] = collector[j]
         /\ Guarded'
  <1>1. /\ collector' \in [Collectors -> Workers] /\ collector'[k] = w
        /\ \A j \in Collectors \ {k} : collector'[j] = collector[j]
    BY DEF NewsInv, NewsShape
  <1>2. \A s \in Sources : AtWork(s)' = AtWork(s)
    BY <1>1 DEF AtWork
  <1> QED BY <1>1, <1>2 DEF NewsInv, Guarded

\* A row gets another date, which takes it out of nobody's sight but by straying.
LEMMA UpdateExistingInv ==
  ASSUME NewsInv, NEW k \in Collectors, UpdateExisting(k)
  PROVE  NewsInv'
  <1> DEFINE w == [collector[k] EXCEPT !.at = "written", !.date = 0]
  <1>1. /\ collector[k] \in Workers /\ collector[k].at = "write"
        /\ collector[k].row # Absent /\ InHand(collector[k])
        /\ collector' = [collector EXCEPT ![k] = w]
        /\ UNCHANGED <<article, made, relations, held, unguarded, crossed, withdrawn>>
    BY DEF NewsInv, NewsShape, UpdateExisting, Advance, Writing, Administration
  <1>2. /\ w \in Workers /\ w.at = "written" /\ w.source = collector[k].source
        /\ w.todo = collector[k].todo /\ w.row = collector[k].row
    BY <1>1, DatesAre DEF Workers
  <1>3. InHand(w)
    BY <1>1, <1>2 DEF InHand
  <1> HIDE DEF w
  <1>4. /\ collector' \in [Collectors -> Workers] /\ collector'[k] = w
        /\ \A j \in Collectors \ {k} : collector'[j] = collector[j]
        /\ Guarded'
    BY <1>1, <1>2, StaysAtWork
  <1>5. PICK r \in FeedItems, d \in Dates : r = collector[k].row /\ d = collector[k].date
    BY <1>1 DEF Workers
  <1> USE DEF NewsInv
  <1>6. /\ published' \in [FeedItems -> Dates]
        /\ strayed \subseteq strayed' /\ strayed' \subseteq FeedItems
        /\ \A q \in FeedItems : q \in strayed' \/ published'[q] = published[q]
                               \/ Near(published'[q], made[q])
    <2>1. CASE r \in LiveRows
      <3>1. /\ published' = [published EXCEPT ![r] = d]
            /\ strayed' = IF Near(d, made[r]) THEN strayed ELSE strayed \cup {r}
        BY <1>5, <2>1 DEF UpdateExisting
      <3> QED BY <3>1 DEF NewsShape
    <2>2. CASE r \notin LiveRows
      BY <1>5, <2>2 DEF UpdateExisting, NewsShape
    <2> QED BY <2>1, <2>2
  <1>7. NewsShape'
    BY <1>1, <1>4, <1>6 DEF NewsShape
  <1>8. LiveRows' = LiveRows
    BY <1>1 DEF LiveRows
  <1>9. ASSUME NEW j \in Collectors PROVE (InHand(collector[j]) /\ StillNew(collector[j]))'
    <2>1. PICK x \in Workers : x = collector'[j] /\ InHand(x) /\ StillNew(x)
      BY <1>2, <1>3, <1>4 DEF StillNew
    <2>2. InHand(x)' /\ StillNew(x)'
      BY <1>1, <1>6, <1>8, <2>1 DEF InHand, StillNew
    <2> QED BY <2>1, <2>2 DEF InHand, StillNew
  <1>10. Findable'
    BY <1>1, <1>6 DEF Findable
  <1>11. (KeysApart /\ WithdrawnAway /\ OneRowPerStory)'
    BY <1>1, <1>6, <1>8 DEF KeysApart, WithdrawnAway, OneRowPerStory
  <1>12. \A j \in Collectors, q \in FeedItems :
           (Relating(j, q)' <=> Relating(j, q)) /\ (Written(j, q) => Written(j, q)')
    BY <1>1, <1>2, <1>4 DEF Relating, Written
  <1>13. RelationsInv'
    BY <1>1, <1>12 DEF RelationsInv
  <1> QED BY <1>4, <1>7, <1>9, <1>10, <1>11, <1>13

\* The article of an item whose keys nobody has and whose story is new.
LEMMA CreateArticleInv ==
  ASSUME NewsInv, NEW k \in Collectors, CreateArticle(k)
  PROVE  NewsInv'
  <1> DEFINE free(i) == \A r \in FeedItems : article[r] # "none" => r.uid # i.uid /\ r.url # i.url
  <1>1. PICK i \in FeedItems :
          /\ i = collector[k].item /\ i.source = collector[k].source
          /\ free(i) =>
               /\ article' = [article EXCEPT ![i] = "published"]
               /\ made' = [made EXCEPT ![i] = collector[k].date]
               /\ published' = [published EXCEPT ![i] = collector[k].date]
               /\ collector' = [collector EXCEPT ![k] =
                    [collector[k] EXCEPT !.at = "written", !.row = i, !.date = 0]]
          /\ ~free(i) => /\ UNCHANGED <<article, made, published>>
                         /\ collector' = [collector EXCEPT ![k] = NextItem(k)]
    BY DEF NewsInv, CreateArticle, InHand, Advance
  <1>2. /\ collector[k] \in Workers /\ collector[k].at = "write" /\ collector[k].row = Absent
        /\ InHand(collector[k]) /\ StillNew(collector[k])
        /\ UNCHANGED <<strayed, relations, crossed, held, unguarded, withdrawn>>
    BY DEF NewsInv, NewsShape, CreateArticle, Writing, Administration
  <1>3. CASE ~free(i)
    <2> DEFINE w == NextItem(k)
    <2>1. w \in Workers /\ w.at = "items" /\ InHand(w) /\ w.source = collector[k].source
      BY <1>2, NextItemWorks
    <2>2. /\ collector' = [collector EXCEPT ![k] = w]
          /\ UNCHANGED <<article, Dating, relations, held, unguarded, crossed, withdrawn>>
      BY <1>1, <1>2, <1>3 DEF Dating
    <2>3. StillNew(w)
      BY <2>1 DEF StillNew
    <2> HIDE DEF w
    <2> QED BY <1>2, <2>1, <2>2, <2>3, MovesOn
  <1>4. CASE free(i)
    <2> DEFINE w == [collector[k] EXCEPT !.at = "written", !.row = i, !.date = 0]
               d == collector[k].date
    <2>1. /\ article[i] = "none"
          /\ \A r \in FeedItems : article[r] # "none" => r.uid # i.uid /\ r.url # i.url
      BY <1>4
    <2>2. /\ article' = [article EXCEPT ![i] = "published"]
          /\ made' = [made EXCEPT ![i] = d] /\ published' = [published EXCEPT ![i] = d]
          /\ collector' = [collector EXCEPT ![k] = w]
      BY <1>1, <1>4
    <2>3. /\ w \in Workers /\ w.at = "written" /\ w.row = i
          /\ w.source = collector[k].source /\ w.todo = collector[k].todo
          /\ d \in Dates
      BY <1>2, DatesAre DEF Workers
    <2> HIDE DEF w, d, free
    <2>4. /\ collector' \in [Collectors -> Workers] /\ collector'[k] = w
          /\ \A j \in Collectors \ {k} : collector'[j] = collector[j]
          /\ Guarded'
      BY <1>2, <2>2, <2>3, StaysAtWork
    <2> USE DEF NewsInv
    <2>5. /\ article' \in [FeedItems -> {"none", "published", "hidden", "deleted"}]
          /\ article'[i] = "published" /\ \A r \in FeedItems \ {i} : article'[r] = article[r]
          /\ made' \in [FeedItems -> Dates] /\ published' \in [FeedItems -> Dates]
          /\ made'[i] = d /\ published'[i] = d
          /\ \A r \in FeedItems \ {i} : made'[r] = made[r] /\ published'[r] = published[r]
      BY <2>2, <2>3 DEF NewsShape
    <2>6. NewsShape'
      BY <1>2, <2>4, <2>5 DEF NewsShape, Dating
    <2>7. LiveRows' = LiveRows \cup {i} /\ i \notin LiveRows /\ LiveRows \subseteq FeedItems
      BY <2>1, <2>5 DEF LiveRows
    <2>8. i.source \notin unguarded =>
            \A r \in LiveRows \ strayed :
              ~(r.source = i.source /\ r.story = i.story /\ made[r] = d)
      BY <1>1, <1>2 DEF StillNew, d
    <2>9. ASSUME NEW j \in Collectors PROVE (InHand(collector[j]) /\ StillNew(collector[j]))'
      <3>1. CASE j = k
        <4>1. collector'[j] = w
          BY <2>4, <3>1
        <4>2. PICK x \in Workers : x = collector'[j] /\ x = w
          BY <2>3, <4>1
        <4>3. /\ InHand(collector[k]) /\ i # Absent
          BY <1>2, RowsAreThere
        <4>4. InHand(x)'
          BY <1>2, <2>3, <2>5, <4>2, <4>3 DEF InHand
        <4>5. StillNew(x)'
          BY <2>3, <4>2 DEF StillNew
        <4> QED BY <4>2, <4>4, <4>5 DEF InHand, StillNew
      <3>2. CASE j # k
        <4>1. PICK x \in Workers : x = collector'[j] /\ x = collector[j]
                                   /\ InHand(x) /\ StillNew(x)
          BY <2>4, <3>2
        <4>2. InHand(x)'
          BY <2>5, <4>1, RowsAreThere DEF InHand, Workers
        <4>3. x.at = "write" /\ x.source = i.source => x.source \in unguarded
          <5>1. ASSUME x.at = "write", x.source = i.source, x.source \notin unguarded
                PROVE  FALSE
            <6>1. x.source \in Sources /\ j \in AtWork(x.source) /\ k \in AtWork(x.source)
              BY <1>1, <1>2, <4>1, <5>1 DEF InHand, AtWork
            <6> QED BY <3>2, <5>1, <6>1 DEF Guarded
          <5> QED BY <5>1
        <4>4. StillNew(x)'
          BY <1>2, <2>5, <2>7, <4>1, <4>3 DEF StillNew, InHand
        <4> QED BY <4>1, <4>2, <4>4 DEF InHand, StillNew
      <3> QED BY <3>1, <3>2
    <2>10. KeysApart'
      BY <2>1, <2>5 DEF KeysApart
    <2>11. WithdrawnAway'
      BY <1>2, <2>1, <2>5 DEF WithdrawnAway, NewsShape
    <2>12. OneRowPerStory'
      BY <1>2, <2>5, <2>7, <2>8 DEF OneRowPerStory
    <2>14. Findable'
      BY <1>2, <2>3, <2>5, NearItself DEF Findable
    <2>13. RelationsInv'
      <3>1. \A j \in Collectors, r \in FeedItems :
              /\ Relating(j, r)' <=> Relating(j, r)
              /\ Written(j, r) => Written(j, r)'
        BY <1>2, <2>3, <2>4 DEF Relating, Written
      <3>2. Written(k, i)'
        BY <2>3, <2>4 DEF Written
      <3> QED BY <1>2, <2>5, <3>1, <3>2 DEF RelationsInv
    <2> QED BY <2>4, <2>6, <2>9, <2>10, <2>11, <2>12, <2>13, <2>14
  <1> QED BY <1>3, <1>4

\* A step of a collector on the relations of its article.
LEMMA OnRelations ==
  ASSUME NewsInv, NEW k \in Collectors, NEW w \in Workers,
         collector' = [collector EXCEPT ![k] = w],
         UNCHANGED <<article, Dating, held, unguarded, withdrawn>>,
         collector[k].at \notin {"rest", "next"},
         w.at \in {"items", "relate"}, w.source = collector[k].source, InHand(w),
         relations' \in [FeedItems -> Nat], crossed' \subseteq FeedItems, RelationsInv'
  PROVE  NewsInv'
  <1>1. /\ collector' \in [Collectors -> Workers] /\ collector'[k] = w
        /\ \A j \in Collectors \ {k} : collector'[j] = collector[j]
        /\ Guarded'
    BY StaysAtWork
  <1> USE DEF NewsInv
  <1>2. NewsShape'
    BY <1>1 DEF NewsShape, Dating
  <1>3. LiveRows' = LiveRows /\ made' = made /\ published' = published /\ strayed' = strayed
    BY DEF LiveRows, Dating
  <1>4. ASSUME NEW j \in Collectors PROVE (InHand(collector[j]) /\ StillNew(collector[j]))'
    <2>1. PICK x \in Workers : x = collector'[j] /\ InHand(x) /\ StillNew(x)
      BY <1>1 DEF StillNew
    <2> QED BY <1>3, <2>1 DEF InHand, StillNew
  <1>5. (KeysApart /\ WithdrawnAway /\ Findable /\ OneRowPerStory)'
    BY <1>3 DEF KeysApart, WithdrawnAway, Findable, OneRowPerStory
  <1> QED BY <1>1, <1>2, <1>4, <1>5

LEMMA DropRelationsInv ==
  ASSUME NewsInv, NEW k \in Collectors, DropRelations(k)
  PROVE  NewsInv'
  <1> DEFINE others(r) == {j \in Collectors \ {k} :
               collector[j].at = "relate" /\ collector[j].row = r}
             w == [collector[k] EXCEPT !.at = "relate"]
  <1>1. /\ collector[k] \in Workers /\ collector[k].at = "written" /\ InHand(collector[k])
        /\ collector' = [collector EXCEPT ![k] = w]
        /\ UNCHANGED <<article, Dating, held, unguarded, withdrawn>>
    BY DEF NewsInv, NewsShape, DropRelations, Advance, Writing, Administration
  <1>2. PICK r \in FeedItems :
          /\ r = collector[k].row
          /\ relations' = [relations EXCEPT ![r] = 0]
          /\ crossed' = IF others(r) = {} THEN crossed \ {r} ELSE crossed \cup {r}
    BY <1>1 DEF DropRelations, InHand, Workers
  <1>3. /\ w \in Workers /\ w.at = "relate" /\ w.source = collector[k].source
        /\ w.row = r /\ w.todo = collector[k].todo
    BY <1>1, <1>2 DEF Workers
  <1>4. InHand(w)
    BY <1>1, <1>2, <1>3 DEF InHand
  <1>5. \/ crossed' = crossed \ {r} /\ \A j \in Collectors \ {k} : ~Relating(j, r)
        \/ crossed' = crossed \cup {r}
    BY <1>2 DEF Relating
  <1> HIDE DEF w, others
  <1>6. /\ relations' \in [FeedItems -> Nat] /\ relations'[r] = 0
        /\ \A q \in FeedItems \ {r} : relations'[q] = relations[q]
        /\ crossed' \subseteq FeedItems
    BY <1>2, <1>5 DEF NewsInv, NewsShape
  <1>7. \A j \in Collectors, q \in FeedItems :
          /\ j # k => (Relating(j, q)' <=> Relating(j, q)) /\ (Written(j, q)' <=> Written(j, q))
          /\ q # r => (Relating(j, q)' <=> Relating(j, q)) /\ (Written(j, q)' <=> Written(j, q))
    BY <1>1, <1>2, <1>3 DEF Relating, Written, NewsInv, NewsShape
  <1>8. Relating(k, r)'
    BY <1>1, <1>3 DEF Relating, NewsInv, NewsShape
  <1>9. RelationsInv'
    <2>1. ASSUME NEW q \in FeedItems \ crossed', q # r
          PROVE  /\ \A i, j \in Collectors : Relating(i, q)' /\ Relating(j, q)' => i = j
                 /\ (\E j \in Collectors : Relating(j, q)') => relations'[q] = 0
                 /\ article'[q] # "none" /\ (\A j \in Collectors : ~Relating(j, q)') =>
                      relations'[q] = 1 \/ \E j \in Collectors : Written(j, q)'
      BY <1>1, <1>5, <1>6, <1>7, <2>1 DEF NewsInv, RelationsInv
    <2>2. ASSUME r \notin crossed'
          PROVE  /\ \A i, j \in Collectors : Relating(i, r)' /\ Relating(j, r)' => i = j
                 /\ relations'[r] = 0
                 /\ \E j \in Collectors : Relating(j, r)'
      BY <1>5, <1>6, <1>7, <1>8, <2>2
    <2> QED BY <2>1, <2>2 DEF RelationsInv
  <1> QED BY <1>1, <1>3, <1>4, <1>6, <1>9, OnRelations

LEMMA AddRelationsInv ==
  ASSUME NewsInv, NEW k \in Collectors, AddRelations(k)
  PROVE  NewsInv'
  <1> DEFINE w == NextItem(k)
  <1>1. /\ collector[k] \in Workers /\ collector[k].at = "relate" /\ InHand(collector[k])
        /\ collector' = [collector EXCEPT ![k] = w]
        /\ UNCHANGED <<article, Dating, held, unguarded, withdrawn, crossed>>
    BY DEF NewsInv, NewsShape, AddRelations, Advance, Writing, Administration
  <1>2. PICK r \in FeedItems :
          /\ r = collector[k].row
          /\ relations' = [relations EXCEPT ![r] = @ + 1]
    BY <1>1 DEF AddRelations, InHand, Workers
  <1>3. w \in Workers /\ w.at = "items" /\ w.source = collector[k].source /\ InHand(w)
    BY <1>1, NextItemWorks
  <1> HIDE DEF w
  <1>4. /\ relations' \in [FeedItems -> Nat] /\ relations'[r] = relations[r] + 1
        /\ \A q \in FeedItems \ {r} : relations'[q] = relations[q]
        /\ crossed' \subseteq FeedItems
    BY <1>1, <1>2 DEF NewsInv, NewsShape
  <1>5. \A j \in Collectors, q \in FeedItems :
          /\ j # k \/ q # r => (Relating(j, q)' <=> Relating(j, q))
          /\ Written(j, q)' <=> Written(j, q)
    BY <1>1, <1>2, <1>3 DEF Relating, Written, NewsInv, NewsShape
  <1>6. Relating(k, r) /\ ~Relating(k, r)'
    BY <1>1, <1>2, <1>3 DEF Relating, NewsInv, NewsShape
  <1>7. RelationsInv'
    <2>1. ASSUME NEW q \in FeedItems \ crossed', q # r
          PROVE  /\ \A i, j \in Collectors : Relating(i, q)' /\ Relating(j, q)' => i = j
                 /\ (\E j \in Collectors : Relating(j, q)') => relations'[q] = 0
                 /\ article'[q] # "none" /\ (\A j \in Collectors : ~Relating(j, q)') =>
                      relations'[q] = 1 \/ \E j \in Collectors : Written(j, q)'
      BY <1>1, <1>4, <1>5, <2>1 DEF NewsInv, RelationsInv
    <2>2. ASSUME r \notin crossed'
          PROVE  (\A j \in Collectors : ~Relating(j, r)') /\ relations'[r] = 1
      <3>1. r \notin crossed /\ relations[r] = 0
        BY <1>1, <1>6, <2>2 DEF NewsInv, RelationsInv
      <3>2. \A j \in Collectors \ {k} : ~Relating(j, r)
        BY <1>6, <3>1 DEF NewsInv, RelationsInv
      <3>3. relations'[r] = 1
        BY <1>4, <3>1
      <3> QED BY <1>5, <1>6, <3>2, <3>3
    <2> QED BY <2>1, <2>2 DEF RelationsInv
  <1> QED BY <1>1, <1>3, <1>4, <1>7, OnRelations

LEMMA ItemFailsInv ==
  ASSUME NewsInv, NEW k \in Collectors, ItemFails(k)
  PROVE  NewsInv'
  <1> DEFINE w == NextItem(k)
  <1>1. /\ collector[k] \in Workers /\ collector[k].at \in {"write", "written", "relate"}
        /\ InHand(collector[k])
        /\ collector' = [collector EXCEPT ![k] = w]
        /\ UNCHANGED <<article, Dating, relations, held, unguarded, withdrawn>>
    BY DEF NewsInv, NewsShape, ItemFails, Advance, Writing, Administration
  <1>2. w \in Workers /\ w.at = "items" /\ w.source = collector[k].source /\ InHand(w)
    BY <1>1, NextItemWorks
  <1> HIDE DEF w
  <1>3. CASE collector[k].at = "write"
    <2>1. crossed' = crossed
      BY <1>3 DEF ItemFails
    <2>2. StillNew(w)
      BY <1>2 DEF StillNew
    <2> QED BY <1>1, <1>2, <1>3, <2>1, <2>2, MovesOn
  <1>4. CASE collector[k].at # "write"
    <2>1. PICK r \in FeedItems : r = collector[k].row /\ crossed' = crossed \cup {r}
      BY <1>1, <1>4 DEF ItemFails, InHand, Workers
    <2>2. crossed' \subseteq FeedItems /\ relations' \in [FeedItems -> Nat]
      BY <1>1, <2>1 DEF NewsInv, NewsShape
    <2>3. \A j \in Collectors, q \in FeedItems : q # r =>
            (Relating(j, q)' <=> Relating(j, q)) /\ (Written(j, q)' <=> Written(j, q))
      BY <1>1, <1>2, <1>4, <2>1 DEF Relating, Written, NewsInv, NewsShape
    <2>4. RelationsInv'
      BY <1>1, <2>1, <2>3 DEF NewsInv, RelationsInv
    <2> QED BY <1>1, <1>2, <2>2, <2>4, OnRelations
  <1> QED BY <1>3, <1>4

-----------------------------------------------------------------------------
LEMMA CloseSessionInv ==
  ASSUME NewsInv, NEW c \in Sessions, CloseSession(c)
  PROVE  NewsInv'
  <1> USE DEF NewsInv
  <1>1. /\ held' = [held EXCEPT ![c] = [s \in Sources |-> 0]]
        /\ unguarded' = unguarded \cup {s \in Sources : held[c][s] > 0 /\ AtWork(s) # {}}
        /\ UNCHANGED <<article, Dating, relations, crossed, collector, withdrawn>>
    BY DEF CloseSession, Administration
  <1>2. /\ held' \in [Sessions -> [Sources -> Nat]]
        /\ \A d \in Sessions \ {c} : held'[d] = held[d]
    BY <1>1 DEF NewsShape
  <1>3. NewsShape'
    BY <1>1, <1>2 DEF NewsShape, Dating
  <1>4. /\ LiveRows' = LiveRows /\ \A s : AtWork(s)' = AtWork(s)
        /\ UNCHANGED <<made, published, strayed>>
    BY <1>1 DEF LiveRows, AtWork, Dating
  <1>5. ASSUME NEW j \in Collectors PROVE (InHand(collector[j]) /\ StillNew(collector[j]))'
    <2>1. PICK x \in Workers : x = collector[j] /\ InHand(x) /\ StillNew(x)
      BY DEF NewsShape
    <2> QED BY <1>1, <1>4, <2>1 DEF InHand, StillNew
  <1>6. (KeysApart /\ WithdrawnAway /\ Findable /\ OneRowPerStory)'
    BY <1>1, <1>4 DEF KeysApart, WithdrawnAway, Findable, OneRowPerStory
  <1>7. Guarded'
    BY <1>1, <1>2, <1>4 DEF Guarded, NewsShape
  <1>8. RelationsInv'
    BY <1>1 DEF RelationsInv, Relating, Written
  <1> QED BY <1>3, <1>5, <1>6, <1>7, <1>8

\* With the process its sessions end, and what it was writing stays as it is.
LEMMA KillServerInv ==
  ASSUME NewsInv, KillServer
  PROVE  NewsInv'
  <1> USE DEF NewsInv
  <1>1. /\ crossed' = crossed \cup {collector[k].row :
             k \in {j \in Collectors : collector[j].at \in {"written", "relate"}}}
        /\ collector' = [k \in Collectors |-> Resting]
        /\ held' = [c \in Sessions |-> [s \in Sources |-> 0]]
        /\ UNCHANGED <<article, Dating, relations, unguarded, withdrawn>>
    BY DEF KillServer, Administration
  <1>2. Resting \in Workers /\ Resting.at = "rest"
    BY RestingWorks
  <1> HIDE DEF Resting
  <1>3. \A k \in Collectors : collector'[k] = Resting
    BY <1>1
  <1>4. crossed' \subseteq FeedItems
    <2>1. ASSUME NEW k \in Collectors, collector[k].at \in {"written", "relate"}
          PROVE  collector[k].row \in FeedItems
      BY <2>1 DEF NewsShape, InHand, Workers
    <2> QED BY <1>1, <2>1 DEF NewsShape
  <1>5. NewsShape'
    BY <1>1, <1>2, <1>4 DEF NewsShape, Dating
  <1>6. LiveRows' = LiveRows /\ made' = made /\ published' = published /\ strayed' = strayed
    BY <1>1 DEF LiveRows, Dating
  <1>7. ASSUME NEW j \in Collectors PROVE (InHand(collector[j]) /\ StillNew(collector[j]))'
    <2>1. PICK x \in Workers : x = collector'[j] /\ x.at = "rest"
      BY <1>2, <1>3
    <2> QED BY <2>1 DEF InHand, StillNew
  <1>8. (KeysApart /\ WithdrawnAway /\ Findable /\ OneRowPerStory)'
    BY <1>1, <1>6 DEF KeysApart, WithdrawnAway, Findable, OneRowPerStory
  <1>9. Guarded'
    <2>1. \A s \in Sources : AtWork(s)' = {}
      BY <1>2, <1>3 DEF AtWork
    <2> QED BY <2>1 DEF Guarded
  <1>10. RelationsInv'
    <2>1. \A j \in Collectors, r \in FeedItems : ~Relating(j, r)' /\ ~Written(j, r)'
      BY <1>2, <1>3 DEF Relating, Written
    <2>2. \A r \in FeedItems \ crossed' : r \notin crossed
            /\ \A j \in Collectors : ~Relating(j, r) /\ ~Written(j, r)
      BY <1>1 DEF Relating, Written
    <2>3. \A r \in FeedItems \ crossed' : article[r] # "none" => relations[r] = 1
      BY <2>2 DEF RelationsInv
    <2> QED BY <1>1, <2>1, <2>3 DEF RelationsInv
  <1> QED BY <1>5, <1>7, <1>8, <1>9, <1>10

\* An administrator changes the status of a row that is there, or deletes it.
LEMMA RowEdited ==
  ASSUME NewsInv, NewsEdit, NEW r \in LiveRows, NEW status \in {"published", "hidden", "deleted"},
         article' = [article EXCEPT ![r] = status],
         withdrawn' = IF status = "published" THEN withdrawn \ {r} ELSE withdrawn \cup {r}
  PROVE  NewsInv'
  <1> USE DEF NewsInv
  <1>1. UNCHANGED <<made, published, strayed, relations, held, collector, unguarded, crossed>>
    BY DEF NewsEdit, Dating
  <1>2. /\ r \in FeedItems /\ article[r] # "none"
        /\ article' \in [FeedItems -> {"none", "published", "hidden", "deleted"}]
        /\ article'[r] = status /\ \A q \in FeedItems \ {r} : article'[q] = article[q]
    BY DEF LiveRows, NewsShape
  <1>3. \A q \in FeedItems : article'[q] = "none" <=> article[q] = "none"
    BY <1>2
  <1>4. LiveRows' \subseteq LiveRows /\ \A s : AtWork(s)' = AtWork(s)
    BY <1>1, <1>2 DEF LiveRows, AtWork
  <1>5. NewsShape'
    BY <1>1, <1>2 DEF NewsShape, Dating
  <1>6. ASSUME NEW j \in Collectors PROVE (InHand(collector[j]) /\ StillNew(collector[j]))'
    <2>1. PICK x \in Workers : x = collector[j] /\ InHand(x) /\ StillNew(x)
      BY DEF NewsShape
    <2>2. InHand(x)'
      BY <1>3, <2>1 DEF InHand, Workers
    <2>3. StillNew(x)'
      BY <1>1, <1>4, <2>1 DEF StillNew
    <2> QED BY <1>1, <2>1, <2>2, <2>3 DEF InHand, StillNew
  <1>7. KeysApart' /\ WithdrawnAway'
    BY <1>2, <1>3 DEF KeysApart, WithdrawnAway, NewsShape
  <1>8. Findable' /\ OneRowPerStory'
    BY <1>1, <1>4 DEF Findable, OneRowPerStory
  <1>9. Guarded'
    BY <1>1, <1>4 DEF Guarded
  <1>10. RelationsInv'
    BY <1>1, <1>3 DEF RelationsInv, Relating, Written
  <1> QED BY <1>5, <1>6, <1>7, <1>8, <1>9, <1>10

LEMMA NewsUnchanged ==
  ASSUME NewsInv,
         UNCHANGED <<article, Dating, relations, held, collector, withdrawn, unguarded, crossed>>
  PROVE  NewsInv'
  BY DEF NewsInv, NewsShape, InHand, StillNew, LiveRows, KeysApart, WithdrawnAway, Guarded, AtWork,
         Dating, Findable, OneRowPerStory, RelationsInv, Relating, Written

LEMMA NewsInitInv == NewsInit => NewsInv
  <1> SUFFICES ASSUME NewsInit PROVE NewsInv
    OBVIOUS
  <1>1. /\ article = [i \in FeedItems |-> "none"] /\ strayed = {}
        /\ made = [i \in FeedItems |-> 0] /\ published = [i \in FeedItems |-> 0]
        /\ relations = [i \in FeedItems |-> 0]
        /\ held = [c \in Sessions |-> [s \in Sources |-> 0]]
        /\ collector = [k \in Collectors |-> Resting]
        /\ withdrawn = {} /\ unguarded = {} /\ crossed = {}
    BY DEF NewsInit
  <1>2. Resting \in Workers /\ Resting.at = "rest"
    BY RestingWorks
  <1> HIDE DEF Resting
  <1>3. NewsShape
    BY <1>1, <1>2, DatesAre DEF NewsShape
  <1>4. \A k \in Collectors : collector[k] = Resting
    BY <1>1
  <1>5. LiveRows = {}
    BY <1>1 DEF LiveRows
  <1>6. \A k \in Collectors : InHand(collector[k]) /\ StillNew(collector[k])
    BY <1>2, <1>4 DEF InHand, StillNew
  <1>7. Guarded
    BY <1>2, <1>4 DEF Guarded, AtWork
  <1>8. KeysApart /\ WithdrawnAway /\ Findable /\ OneRowPerStory
    BY <1>1, <1>5, NearItself, DatesAre DEF KeysApart, WithdrawnAway, Findable, OneRowPerStory
  <1>9. RelationsInv
    BY <1>1, <1>2, <1>4 DEF RelationsInv, Relating
  <1> QED BY <1>3, <1>6, <1>7, <1>8, <1>9 DEF NewsInv

LEMMA NewsStep == NewsInv /\ [NewsNext]_newsVars => NewsInv'
  <1> SUFFICES ASSUME NewsInv, [NewsNext]_newsVars PROVE NewsInv'
    OBVIOUS
  <1>1. ASSUME NEW k \in Collectors, CollectorStep(k) PROVE NewsInv'
    BY <1>1, QuietSteps, UpdateExistingInv, TrySourceLockInv, CreateArticleInv, DropRelationsInv, AddRelationsInv,
       ItemFailsInv, ReleaseSourceLockInv DEF CollectorStep
  <1>2. ASSUME NEW k \in Collectors,
               CollectEnabledSources(k) \/ \E s \in Sources : CollectBySourceID(k, s)
        PROVE  NewsInv'
    <2>1. PICK q \in SUBSET Sources : Collect(k, q)
      BY <1>2 DEF CollectEnabledSources, CollectBySourceID
    <2> QED BY <2>1, QuietSteps
  <1>3. ASSUME NEW c \in Sessions, CloseSession(c) PROVE NewsInv'
    BY <1>3, CloseSessionInv
  <1>4. CASE KillServer
    BY <1>4, KillServerInv
  <1>5. ASSUME NEW r \in FeedItems, DeleteNews(r) PROVE NewsInv'
    <2>1. /\ NewsEdit /\ r \in LiveRows /\ article' = [article EXCEPT ![r] = "deleted"]
          /\ withdrawn' = withdrawn \cup {r}
      BY <1>5 DEF DeleteNews
    <2> QED BY <2>1, RowEdited
  <1>6. ASSUME NEW r \in FeedItems, NEW status \in {"published", "hidden"}, UpdateNews(r, status)
        PROVE  NewsInv'
    <2>1. /\ NewsEdit /\ r \in LiveRows /\ article' = [article EXCEPT ![r] = status]
          /\ withdrawn' = IF status = "published" THEN withdrawn \ {r} ELSE withdrawn \cup {r}
      BY <1>6 DEF UpdateNews
    <2> QED BY <2>1, RowEdited
  <1>7. ASSUME NEW s \in Sources, NEW state \in {"enabled", "disabled", "deleted"},
               SaveSource(s, state)
        PROVE  NewsInv'
    BY <1>7, NewsUnchanged DEF SaveSource, NewsEdit
  <1>8. CASE UNCHANGED newsVars
    BY <1>8, NewsUnchanged DEF newsVars, Dating
  <1> QED BY <1>1, <1>2, <1>3, <1>4, <1>5, <1>6, <1>7, <1>8 DEF NewsNext

THEOREM NewsInvariant == NewsSpec => []NewsInv
  BY NewsInitInv, NewsStep, PTL DEF NewsSpec

\* For every number of sources, items, collectors and sessions: a story of a
\* source whose lock did its work has one row.
THEOREM OneRowForAStory == NewsSpec => []OneRowPerStory
  <1>1. NewsInv => OneRowPerStory
    BY DEF NewsInv
  <1> QED BY NewsInvariant, <1>1, PTL

\* What was withdrawn is not seen again under its id or its address.
THEOREM WithdrawnIsGone == NewsSpec => []WithdrawnStaysAway
  <1>1. NewsInv => WithdrawnStaysAway
    BY DEF NewsInv, NewsShape, KeysApart, WithdrawnAway, WithdrawnStaysAway, VisibleRows
  <1> QED BY NewsInvariant, <1>1, PTL

\* An article that no collector is writing is related to its security once.
THEOREM RelatedOnce == NewsSpec => []RelationsExact
  <1>1. NewsInv => RelationsExact
    BY DEF NewsInv, RelationsInv, RelationsExact, Relating, Written
  <1> QED BY NewsInvariant, <1>1, PTL

-----------------------------------------------------------------------------
(***************************************************************************)
(* The limiter implements IdealLimiter.  What makes forgetting a client    *)
(* invisible is RefilledByAge: a bucket that is older than the TTL is full *)
(* and so the same as a new one.                                           *)
(***************************************************************************)
LimitInv == LimitTypeOK /\ RefilledByAge

\* The variables of IdealLimiter.
Bucket == [k \in Clients |-> IF k \in DOMAIN limiters THEN limiters[k].tokens ELSE Burst]
Quiet == [k \in Clients |-> IF k \in DOMAIN limiters THEN limiters[k].age ELSE TTL + 1]

\* No bucket is in the map before anybody has asked.
LEMMA LimitInitInv == LimitInit => LimitInv
  BY DEF LimitInit, LimitInv, LimitTypeOK, RefilledByAge

\* Time refills the buckets as fast as they grow old.
LEMMA LimitTickInv == LimitInv /\ Tick => LimitInv'
  <1> SUFFICES ASSUME LimitInv, Tick PROVE LimitInv'
    OBVIOUS
  <1> USE RateLimitAssumption DEF LimitInv, LimitTypeOK, RefilledByAge, Tick, Entries, Lesser
  <1>1. DOMAIN limiters' = DOMAIN limiters
    OBVIOUS
  <1>2. ASSUME NEW k \in DOMAIN limiters
        PROVE  /\ limiters'[k] \in Entries
               /\ limiters'[k].tokens >= Lesser(Burst, limiters'[k].age)
    <2>1. limiters[k] \in Entries
      OBVIOUS
    <2> QED BY <2>1
  <1> QED BY <1>1, <1>2

\* What an entry has to be, whoever's it is.
GoodEntry(e) == e \in Entries /\ e.tokens >= Lesser(Burst, e.age)

\* The invariant is one about every entry.
LEMMA EntriesInv ==
  ASSUME NEW S \in SUBSET Clients, limiters' \in [S -> Entries],
         \A k \in S : GoodEntry(limiters'[k]),
         answer' \in [client : Clients \cup {"nobody"}, allowed : BOOLEAN]
  PROVE  LimitInv'
  BY DEF GoodEntry, LimitInv, LimitTypeOK, RefilledByAge

\* The other steps keep entries, drop them and set the age of one to zero.
LEMMA LimitStep == LimitInv /\ [LimitNext]_limitVars => LimitInv'
  <1> SUFFICES ASSUME LimitInv, [LimitNext]_limitVars PROVE LimitInv'
    OBVIOUS
  <1>0. \A k \in DOMAIN limiters : k \in Clients /\ GoodEntry(limiters[k])
    BY DEF LimitInv, LimitTypeOK, RefilledByAge, GoodEntry
  <1>1. CASE Tick
    BY <1>1, LimitTickInv
  <1>2. CASE Cleanup
    <2>1. Kept \in SUBSET Clients /\ Kept \subseteq DOMAIN limiters
      BY <1>0 DEF Kept
    <2>2. limiters' = [k \in Kept |-> limiters[k]] /\ answer' = answer
      BY <1>2 DEF Cleanup
    <2>3. \A k \in Kept : limiters[k] \in Entries
      BY <1>0, <2>1 DEF GoodEntry
    <2>4. \A k \in Kept : GoodEntry(limiters'[k])
      BY <1>0, <2>1, <2>2
    <2> QED BY <2>1, <2>2, <2>3, <2>4, EntriesInv DEF LimitInv, LimitTypeOK
  <1>3. ASSUME NEW k \in Clients, AllowKnown(k) PROVE LimitInv'
    <2> DEFINE e == [tokens |-> IF limiters[k].tokens > 0 THEN limiters[k].tokens - 1 ELSE 0,
                     age |-> 0]
    <2>1. k \in DOMAIN limiters /\ limiters' = [limiters EXCEPT ![k] = e]
      BY <1>3 DEF AllowKnown
    <2>2. GoodEntry(e)
      BY <1>0, <2>1, RateLimitAssumption DEF GoodEntry, Entries, Lesser
    <2>3. limiters' \in [DOMAIN limiters -> Entries]
      BY <2>1, <2>2 DEF LimitInv, LimitTypeOK, GoodEntry
    <2>4. \A j \in DOMAIN limiters : GoodEntry(limiters'[j])
      <3> HIDE DEF e
      <3> QED BY <1>0, <2>1, <2>2 DEF LimitInv, LimitTypeOK
    <2>5. answer' \in [client : Clients \cup {"nobody"}, allowed : BOOLEAN]
      BY <1>3 DEF AllowKnown
    <2> QED BY <1>0, <2>3, <2>4, <2>5, EntriesInv
  <1>4. ASSUME NEW k \in Clients, NEW S \in SUBSET DOMAIN limiters, AllowNew(k, S)
        PROVE  LimitInv'
    <2> DEFINE e == [tokens |-> Burst - 1, age |-> 0]
    <2>1. limiters' = [j \in S \cup {k} |-> IF j = k THEN e ELSE limiters[j]]
      BY <1>4 DEF AllowNew
    <2>2. GoodEntry(e)
      BY RateLimitAssumption DEF GoodEntry, Entries, Lesser
    <2>3. S \cup {k} \in SUBSET Clients
      BY <1>0
    <2> HIDE DEF e
    <2>4. \A j \in S \cup {k} : GoodEntry(limiters'[j])
      BY <1>0, <2>1, <2>2
    <2>5. limiters' \in [S \cup {k} -> Entries]
      BY <1>0, <2>1, <2>2 DEF GoodEntry
    <2>6. answer' \in [client : Clients \cup {"nobody"}, allowed : BOOLEAN]
      BY <1>4 DEF AllowNew
    <2> QED BY <2>3, <2>4, <2>5, <2>6, EntriesInv
  <1>5. ASSUME NEW k \in Clients, AllowStranger(k) PROVE LimitInv'
    <2>1. Kept \in SUBSET DOMAIN limiters
      BY DEF Kept
    <2> QED BY <1>4, <1>5, <2>1 DEF AllowStranger
  <1>6. CASE UNCHANGED limitVars
    BY <1>6 DEF limitVars, LimitInv, LimitTypeOK, RefilledByAge
  <1> QED BY <1>1, <1>2, <1>3, <1>5, <1>6 DEF LimitNext

\* Every bucket has got a token for each tick since it was used.
THEOREM AlwaysRefilledByAge == LimitSpec => []RefilledByAge
  <1>1. LimitInv => RefilledByAge
    BY DEF LimitInv
  <1> QED BY <1>1, LimitInitInv, LimitStep, PTL DEF LimitSpec

-----------------------------------------------------------------------------
\* What the map stands for, client by client.
LEMMA Mapped ==
  ASSUME LimitInv
  PROVE  /\ \A k \in DOMAIN limiters :
              /\ k \in Clients /\ limiters[k] \in Entries
              /\ Bucket[k] = limiters[k].tokens /\ Quiet[k] = limiters[k].age
         /\ \A k \in Clients \ DOMAIN limiters : Bucket[k] = Burst /\ Quiet[k] = TTL + 1
         /\ \A k \in Clients \ Kept : Bucket[k] = Burst /\ Quiet[k] = TTL + 1
  <1>1. \A k \in DOMAIN limiters : k \in Clients /\ limiters[k] \in Entries
    BY DEF LimitInv, LimitTypeOK
  <1>2. \A k \in DOMAIN limiters \ Kept : limiters[k].tokens = Burst /\ limiters[k].age = TTL + 1
    <2> SUFFICES ASSUME NEW k \in DOMAIN limiters, k \notin Kept
                 PROVE  limiters[k].tokens = Burst /\ limiters[k].age = TTL + 1
      OBVIOUS
    <2>1. /\ limiters[k].tokens \in 0..Burst /\ limiters[k].age \in 0..(TTL + 1)
          /\ limiters[k].tokens >= Lesser(Burst, limiters[k].age)
      BY <1>1 DEF Entries, LimitInv, RefilledByAge
    <2>2. ~(limiters[k].age <= TTL)
      BY DEF Kept
    <2> QED BY <2>1, <2>2, RateLimitAssumption DEF Lesser
  <1> QED BY <1>1, <1>2 DEF Bucket, Quiet, Kept

\* Dropping the buckets that are old is no change.
LEMMA CleanupStutters == LimitInv /\ Cleanup => Bucket' = Bucket /\ Quiet' = Quiet
  <1> SUFFICES ASSUME LimitInv, Cleanup PROVE Bucket' = Bucket /\ Quiet' = Quiet
    OBVIOUS
  <1>1. limiters' = [k \in Kept |-> limiters[k]] /\ Kept \subseteq DOMAIN limiters
    BY DEF Cleanup, Kept
  <1>2. ASSUME NEW k \in Clients PROVE Bucket'[k] = Bucket[k] /\ Quiet'[k] = Quiet[k]
    BY <1>1, Mapped DEF Bucket, Quiet
  <1> QED BY <1>2 DEF Bucket, Quiet

\* How IdealLimiter sees its variables.
LEMMA IdealTick ==
  Ideal!Tick <=>
    /\ Bucket' = [k \in Clients |-> Lesser(Burst, Bucket[k] + 1)]
    /\ Quiet' = [k \in Clients |-> Lesser(TTL + 1, Quiet[k] + 1)]
    /\ answer' = answer
  BY DEF Ideal!Tick, Ideal!Least, Lesser, Bucket, Quiet

\* A request of k, for which those in F are forgotten.
LEMMA IdealAsk ==
  ASSUME NEW k, NEW F
  PROVE  Ideal!Ask(k, F) <=>
    /\ Bucket' = [j \in Clients |-> IF j \in F THEN Burst
                                    ELSE IF j = k /\ Bucket[k] > 0 THEN Bucket[j] - 1
                                    ELSE Bucket[j]]
    /\ Quiet' = [j \in Clients |-> IF j \in F THEN TTL + 1 ELSE IF j = k THEN 0 ELSE Quiet[j]]
    /\ answer' = [client |-> k, allowed |-> Bucket[k] > 0]
  BY DEF Ideal!Ask, Bucket, Quiet

\* A step that neither bucket nor age notices.
LEMMA IdealStutter ==
  Bucket' = Bucket /\ Quiet' = Quiet /\ answer' = answer => UNCHANGED Ideal!idealVars
  BY DEF Ideal!idealVars, Bucket, Quiet

\* Buckets that are full or long unused stay so.
LEMMA TickMaps == LimitInv /\ Tick => Ideal!Tick
  <1> SUFFICES ASSUME LimitInv, Tick PROVE Ideal!Tick
    OBVIOUS
  <1>1. limiters' = [k \in DOMAIN limiters |->
                      [tokens |-> Lesser(Burst, limiters[k].tokens + 1),
                       age |-> Lesser(TTL + 1, limiters[k].age + 1)]]
    BY DEF Tick
  <1>2. ASSUME NEW k \in Clients
        PROVE  /\ Bucket'[k] = Lesser(Burst, Bucket[k] + 1)
               /\ Quiet'[k] = Lesser(TTL + 1, Quiet[k] + 1)
    <2>1. CASE k \in DOMAIN limiters
      BY <1>1, <2>1 DEF Bucket, Quiet
    <2>2. CASE k \notin DOMAIN limiters
      BY <1>1, <2>2, RateLimitAssumption DEF Bucket, Quiet, Lesser
    <2> QED BY <2>1, <2>2
  <1>3. answer' = answer
    BY DEF Tick
  <1>4. /\ Bucket' = [k \in Clients |-> Lesser(Burst, Bucket[k] + 1)]
        /\ Quiet' = [k \in Clients |-> Lesser(TTL + 1, Quiet[k] + 1)]
    BY <1>2 DEF Bucket, Quiet
  <1> QED BY <1>3, <1>4, IdealTick

\* A client of the map asks.
LEMMA KnownMaps ==
  ASSUME LimitInv, NEW k \in Clients, AllowKnown(k)
  PROVE  Ideal!Ask(k, {})
  <1> DEFINE e == [tokens |-> IF limiters[k].tokens > 0 THEN limiters[k].tokens - 1 ELSE 0,
                   age |-> 0]
  <1>1. /\ k \in DOMAIN limiters /\ limiters' = [limiters EXCEPT ![k] = e]
        /\ answer' = [client |-> k, allowed |-> limiters[k].tokens > 0]
    BY DEF AllowKnown
  <1>2. limiters[k].tokens \in Nat /\ Bucket[k] = limiters[k].tokens
    BY <1>1, Mapped, RateLimitAssumption DEF Entries
  <1>3. ASSUME NEW j \in Clients
        PROVE  /\ Bucket'[j] = IF j = k /\ Bucket[k] > 0 THEN Bucket[j] - 1 ELSE Bucket[j]
               /\ Quiet'[j] = IF j = k THEN 0 ELSE Quiet[j]
    <2>1. CASE j = k
      BY <1>1, <1>2, <2>1 DEF Bucket, Quiet
    <2>2. CASE j # k
      BY <1>1, <2>2 DEF Bucket, Quiet
    <2> QED BY <2>1, <2>2
  <1> HIDE DEF e
  <1>4. /\ Bucket' = [j \in Clients |-> IF j = k /\ Bucket[k] > 0 THEN Bucket[j] - 1 ELSE Bucket[j]]
        /\ Quiet' = [j \in Clients |-> IF j = k THEN 0 ELSE Quiet[j]]
    BY <1>3 DEF Bucket, Quiet
  <1> QED BY <1>1, <1>2, <1>4, IdealAsk

\* A stranger asks, and of the map the clients in F go that were not old.
LEMMA NewMaps ==
  ASSUME LimitInv, NEW k \in Clients \ DOMAIN limiters, NEW F \in SUBSET Kept,
         NEW S \in SUBSET DOMAIN limiters, Kept \ F \subseteq S, S \cap F = {},
         AllowNew(k, S)
  PROVE  Ideal!Ask(k, F)
  <1>1. /\ limiters' = [j \in S \cup {k} |->
                          IF j = k THEN [tokens |-> Burst - 1, age |-> 0] ELSE limiters[j]]
        /\ answer' = [client |-> k, allowed |-> TRUE]
    BY DEF AllowNew
  <1>2. Kept \subseteq DOMAIN limiters /\ k \notin F /\ k \notin S
    BY DEF Kept
  <1>3. Bucket[k] = Burst /\ Burst > 0
    BY Mapped, RateLimitAssumption
  <1>4. ASSUME NEW j \in Clients
        PROVE  /\ Bucket'[j] = IF j \in F THEN Burst
                               ELSE IF j = k /\ Bucket[k] > 0 THEN Bucket[j] - 1 ELSE Bucket[j]
               /\ Quiet'[j] = IF j \in F THEN TTL + 1 ELSE IF j = k THEN 0 ELSE Quiet[j]
    <2>1. CASE j = k
      BY <1>1, <1>2, <1>3, <2>1 DEF Bucket, Quiet
    <2>2. CASE j \in S /\ j # k
      BY <1>1, <2>2 DEF Bucket, Quiet
    <2>3. CASE j \in F
      BY <1>1, <1>2, <2>3 DEF Bucket, Quiet
    <2>4. CASE j \notin S \cup F /\ j # k
      <3>1. Bucket[j] = Burst /\ Quiet[j] = TTL + 1
        BY <2>4, Mapped
      <3>2. Bucket'[j] = Burst /\ Quiet'[j] = TTL + 1
        BY <1>1, <2>4 DEF Bucket, Quiet
      <3> QED BY <2>4, <3>1, <3>2
    <2> QED BY <2>1, <2>2, <2>3, <2>4
  <1>5. /\ Bucket' = [j \in Clients |-> IF j \in F THEN Burst
                                       ELSE IF j = k /\ Bucket[k] > 0 THEN Bucket[j] - 1
                                       ELSE Bucket[j]]
        /\ Quiet' = [j \in Clients |-> IF j \in F THEN TTL + 1 ELSE IF j = k THEN 0 ELSE Quiet[j]]
    BY <1>4 DEF Bucket, Quiet
  <1> QED BY <1>1, <1>3, <1>5, IdealAsk

\* IdealLimiter counts like the limiter.
LEMMA SameCardinality == \A S : Ideal!Cardinality(S) = Cardinality(S)
  BY Zenon DEF Ideal!Cardinality, Cardinality

\* The crowd of IdealLimiter are the clients whose buckets are kept.
LEMMA CrowdIsKept ==
  ASSUME LimitInv, NEW k \in Clients \ DOMAIN limiters
  PROVE  Ideal!Crowd(k) = Kept /\ (Cardinality(Kept) >= MaxLimiters => Ideal!Forgettable(k) = Oldest)
  <1>1. Ideal!Crowd(k) = {j \in Clients \ {k} : Quiet[j] <= TTL}
    BY DEF Ideal!Crowd, Quiet
  <1>2. \A j \in Clients : Quiet[j] <= TTL <=> j \in Kept
    <2> SUFFICES ASSUME NEW j \in Clients PROVE Quiet[j] <= TTL <=> j \in Kept
      OBVIOUS
    <2>1. CASE j \in Kept
      BY <2>1, Mapped DEF Kept
    <2>2. CASE j \notin Kept
      BY <2>2, Mapped, RateLimitAssumption
    <2> QED BY <2>1, <2>2
  <1>3. Kept \subseteq Clients /\ k \notin Kept
    BY Mapped DEF Kept
  <1>4. Ideal!Crowd(k) = Kept
    BY <1>1, <1>2, <1>3
  <1>5. ASSUME Cardinality(Kept) >= MaxLimiters PROVE Ideal!Forgettable(k) = Oldest
    <2>1. ~(Cardinality(Kept) < MaxLimiters)
      <3>1. IsFiniteSet(Kept)
        BY <1>3, FS_Subset, RateLimitAssumption
      <3> QED BY <1>5, <3>1, FS_CardinalityType, RateLimitAssumption
    <2>2. Ideal!Forgettable(k) = {o \in Kept : \A j \in Kept : Quiet[j] <= Quiet[o]}
      BY <1>4, <2>1, SameCardinality DEF Ideal!Forgettable, Quiet
    <2>3. \A j \in Kept : Quiet[j] = limiters[j].age
      BY Mapped DEF Kept
    <2> QED BY <2>2, <2>3 DEF Oldest
  <1> QED BY <1>4, <1>5

\* Every step of the limiter is one of IdealLimiter, or none.
LEMMA LimitStepMaps == LimitInv /\ [LimitNext]_limitVars => [Ideal!Next]_(Ideal!idealVars)
  <1> SUFFICES ASSUME LimitInv, [LimitNext]_limitVars
               PROVE  Ideal!Next \/ UNCHANGED Ideal!idealVars
    OBVIOUS
  <1>1. CASE Tick
    BY <1>1, TickMaps DEF Ideal!Next
  <1>2. CASE Cleanup
    <2>1. Bucket' = Bucket /\ Quiet' = Quiet /\ answer' = answer
      BY <1>2, CleanupStutters DEF Cleanup
    <2> QED BY <2>1, IdealStutter
  <1>3. ASSUME NEW k \in Clients, AllowKnown(k) PROVE Ideal!Next
    BY <1>3, KnownMaps DEF Ideal!Next
  <1>4. ASSUME NEW k \in Clients, AllowStranger(k) PROVE Ideal!Next
    <2>1. k \in Clients \ DOMAIN limiters /\ Kept \in SUBSET DOMAIN limiters
      BY <1>4 DEF AllowStranger, Kept
    <2>2. CASE AllowNew(k, DOMAIN limiters)
      <3>1. Ideal!Ask(k, {})
        BY <2>1, <2>2, NewMaps
      <3> QED BY <3>1 DEF Ideal!Next
    <2>3. CASE AllowNew(k, Kept)
      <3>1. Ideal!Ask(k, {})
        BY <2>1, <2>3, NewMaps
      <3> QED BY <3>1 DEF Ideal!Next
    <2>4. ASSUME Cardinality(Kept) >= MaxLimiters,
                 NEW o \in Oldest, AllowNew(k, Kept \ {o})
          PROVE  Ideal!Next
      <3>1. o \in Kept /\ {o} \in SUBSET Kept
        BY DEF Oldest
      <3>2. Kept \ {o} \in SUBSET DOMAIN limiters /\ (Kept \ {o}) \cap {o} = {}
        BY <2>1
      <3>3. Ideal!Ask(k, {o})
        BY <2>1, <2>4, <3>1, <3>2, NewMaps
      <3>4. o \in Ideal!Forgettable(k)
        BY <2>1, <2>4, CrowdIsKept
      <3> QED BY <3>3, <3>4 DEF Ideal!Next
    <2> QED BY <1>4, <2>2, <2>3, <2>4 DEF AllowStranger
  <1>5. CASE UNCHANGED limitVars
    <2>1. Bucket' = Bucket /\ Quiet' = Quiet /\ answer' = answer
      BY <1>5 DEF limitVars, Bucket, Quiet
    <2> QED BY <2>1, IdealStutter
  <1> QED BY <1>1, <1>2, <1>3, <1>4, <1>5 DEF LimitNext

\* Whatever the burst, the TTL, the number of clients and the size of the map,
\* the limiter grants what buckets that are never thrown away would grant, but
\* for the oldest of a map that overflows.
THEOREM LimiterImplementsIdeal == LimitSpec => LimitsLikeIdeal
  <1>1. LimitInit => Ideal!Init
    BY DEF LimitInit, Ideal!Init
  <1> QED BY <1>1, LimitInitInv, LimitStep, LimitStepMaps, PTL DEF LimitSpec, LimitsLikeIdeal, Ideal!Spec

-----------------------------------------------------------------------------
(***************************************************************************)
(* Types.  Most are part of the invariants above.  The bounds on what is   *)
(* counted take an argument of their own: whoever is going to add one more *)
(* is counted with what is there.                                          *)
(*                                                                         *)
(* The rows of the three tables without a key are as many as there were    *)
(* runs at most: a migration that may still insert into a table is counted *)
(* with the rows that are there.                                           *)
(***************************************************************************)
Bulk == {"positions", "records", "settings"}

\* The items up to the one that inserts into t.
UpTo(t) == {"data", "customers", "funds", "devices", "positions"}
           \cup (IF t = "positions" THEN {} ELSE {"records"})
           \cup (IF t = "settings" THEN {"settings"} ELSE {})

Busy == {m \in Migrators : Under(m)}
Ahead(t) == {m \in Migrators : at[m].item \in UpTo(t)}
Lacking(t) == {m \in Migrators : at[m].item = t /\ at[m].looked /\ at[m].missing}

Paced(t) ==
  \/ copies[t] + Cardinality(Ahead(t)) <= runs
  \/ copies[t] = 1 /\ Lacking(t) = {}

OnceARun ==
  /\ runs \in 0..MaxRuns /\ Cardinality(Busy) <= runs
  /\ \A t \in Bulk : Paced(t)

LEMMA Crowds ==
  \A S \in SUBSET Migrators :
    /\ IsFiniteSet(S) /\ Cardinality(S) \in Nat
    /\ \A T \in SUBSET S : Cardinality(T) <= Cardinality(S)
  BY MigrationAssumption, FS_Subset, FS_CardinalityType

\* Who inserts gives up his place among those who still may.
LEMMA PacedOn ==
  ASSUME NEW t \in Bulk, MigrationShape, OnceARun, runs' = runs,
         Ahead(t)' \subseteq Ahead(t),
         \/ copies'[t] = 0
         \/ copies'[t] = copies[t] /\ (Lacking(t)' \subseteq Lacking(t) \/ copies[t] = 0)
         \/ \E m \in Lacking(t) : copies'[t] = copies[t] + 1 /\ Ahead(t)' \subseteq Ahead(t) \ {m}
  PROVE  Paced(t)'
  <1> DEFINE ahead == Ahead(t)
             after == Ahead(t)'
  <1>1. /\ ahead \subseteq Busy /\ Busy \subseteq Migrators /\ after \subseteq ahead
        /\ Lacking(t) \subseteq ahead
    BY Tabled DEF Ahead, Busy, Lacking, Under, UpTo, Bulk, Away, ItemNames
  <1>2. /\ IsFiniteSet(ahead) /\ Cardinality(ahead) \in Nat /\ Cardinality(after) \in Nat
        /\ Cardinality(after) <= Cardinality(ahead)
        /\ Cardinality(ahead) <= runs
    <2>1. Cardinality(ahead) <= Cardinality(Busy) /\ Cardinality(Busy) \in Nat
          /\ IsFiniteSet(ahead) /\ Cardinality(ahead) \in Nat
      BY <1>1, Crowds
    <2>2. Cardinality(after) \in Nat /\ Cardinality(after) <= Cardinality(ahead)
      BY <1>1, Crowds
    <2> QED BY <2>1, <2>2, MigrationAssumption DEF OnceARun
  <1>3. copies[t] \in Nat /\ runs \in Nat /\ Paced(t)
    BY MigrationAssumption DEF MigrationShape, Bulk, Tables, OnceARun
  <1> HIDE DEF ahead, after
  <1>4. /\ Paced(t) <=> \/ copies[t] + Cardinality(ahead) <= runs
                        \/ copies[t] = 1 /\ Lacking(t) = {}
        /\ Paced(t)' <=> \/ copies'[t] + Cardinality(after) <= runs
                         \/ copies'[t] = 1 /\ Lacking(t)' = {}
    BY DEF Paced, ahead, after
  <1>5. CASE copies'[t] = 0
    BY <1>2, <1>3, <1>4, <1>5
  <1>6. CASE copies'[t] = copies[t] /\ (Lacking(t)' \subseteq Lacking(t) \/ copies[t] = 0)
    BY <1>2, <1>3, <1>4, <1>6
  <1>7. ASSUME NEW m \in Lacking(t), copies'[t] = copies[t] + 1, Ahead(t)' \subseteq Ahead(t) \ {m}
        PROVE  Paced(t)'
    <2>1. m \in ahead /\ after \subseteq ahead \ {m} /\ ahead \ {m} \subseteq Migrators
      BY <1>1, <1>7 DEF ahead, after
    <2>2. Cardinality(ahead \ {m}) = Cardinality(ahead) - 1
      BY <1>2, <2>1, FS_RemoveElement
    <2>3. Cardinality(after) <= Cardinality(ahead \ {m})
      BY <2>1, Crowds
    <2>4. copies[t] + Cardinality(ahead) <= runs
      BY <1>3, <1>4, <1>7
    <2> QED BY <1>2, <1>3, <1>4, <1>7, <2>2, <2>3, <2>4
  <1> QED BY <1>5, <1>6, <1>7

\* One migration goes on.
LEMMA PacedMove ==
  ASSUME MigrationShape, OnceARun, NEW m \in Migrators, NEW p \in Places,
         at' = [at EXCEPT ![m] = p], runs' = runs, Under(m),
         \A t \in Bulk : /\ p.item \in UpTo(t) => at[m].item \in UpTo(t)
                         /\ \/ /\ copies'[t] = copies[t]
                               /\ p.item = t /\ p.looked /\ p.missing => copies[t] = 0
                            \/ /\ copies'[t] = copies[t] + 1
                               /\ m \in Lacking(t) /\ p.item \notin UpTo(t)
  PROVE  OnceARun'
  <1>1. at'[m] = p /\ \A n \in Migrators \ {m} : at'[n] = at[n]
    BY DEF MigrationShape
  <1>2. Busy' \subseteq Busy
    BY <1>1 DEF Busy, Under
  <1>3. ASSUME NEW t \in Bulk PROVE Paced(t)'
    <2>1. Ahead(t)' \subseteq Ahead(t)
      BY <1>1, <1>3 DEF Ahead
    <2>2. CASE /\ copies'[t] = copies[t]
               /\ p.item = t /\ p.looked /\ p.missing => copies[t] = 0
      <3>1. Lacking(t)' \subseteq Lacking(t) \/ copies[t] = 0
        BY <1>1, <2>2 DEF Lacking
      <3> QED BY <2>1, <2>2, <3>1, PacedOn
    <2>3. CASE copies'[t] = copies[t] + 1 /\ m \in Lacking(t) /\ p.item \notin UpTo(t)
      <3>1. Ahead(t)' \subseteq Ahead(t) \ {m}
        BY <1>1, <2>1, <2>3 DEF Ahead
      <3> QED BY <2>1, <2>3, <3>1, PacedOn
    <2> QED BY <1>3, <2>2, <2>3
  <1>4. Cardinality(Busy') <= Cardinality(Busy)
    BY <1>2, Crowds DEF Busy
  <1>5. Cardinality(Busy) \in Nat /\ Cardinality(Busy') \in Nat
    BY <1>2, Crowds DEF Busy
  <1>6. Cardinality(Busy)' = Cardinality(Busy')
    OBVIOUS
  <1> QED BY <1>3, <1>4, <1>5, <1>6, MigrationAssumption DEF OnceARun

\* A new migration is one run more, and one more that may insert.
LEMMA PacedStart ==
  ASSUME MigrationShape, OnceARun, NEW m \in Migrators, StartMigration(m)
  PROVE  OnceARun'
  <1>1. /\ m \notin Busy /\ runs < MaxRuns /\ runs' = runs + 1 /\ copies' = copies
        /\ at'[m] = [item |-> "data", looked |-> FALSE, missing |-> FALSE]
        /\ \A n \in Migrators \ {m} : at'[n] = at[n]
    BY DEF StartMigration, GoOn, Go, Busy, MigrationShape
  <1>2. runs \in Nat /\ runs' \in 0..MaxRuns
    BY <1>1, MigrationAssumption DEF OnceARun
  <1>3. ASSUME NEW S, NEW T, S \in SUBSET Migrators, m \notin S, T \subseteq S \cup {m}
        PROVE  /\ Cardinality(T) \in Nat /\ Cardinality(S) \in Nat
               /\ Cardinality(T) <= Cardinality(S) + 1
    <2>1. S \cup {m} \in SUBSET Migrators
      BY <1>3
    <2>2. Cardinality(S \cup {m}) = Cardinality(S) + 1
      BY <1>3, Crowds, FS_AddElement
    <2> QED BY <1>3, <2>1, <2>2, Crowds
  <1>4. Cardinality(Busy') <= runs'
    <2>1. Busy' \subseteq Busy \cup {m} /\ Busy \in SUBSET Migrators
      BY <1>1 DEF Busy, Under
    <2> QED BY <1>1, <1>2, <1>3, <2>1 DEF OnceARun
  <1>5. ASSUME NEW t \in Bulk PROVE Paced(t)'
    <2>1. Ahead(t)' \subseteq Ahead(t) \cup {m} /\ Ahead(t) \in SUBSET Migrators
      BY <1>1 DEF Ahead
    <2>2. m \notin Ahead(t)
      BY <1>1, Tabled DEF Ahead, Busy, Under, UpTo, Bulk, Away, ItemNames
    <2>3. Lacking(t)' \subseteq Lacking(t)
      BY <1>1 DEF Lacking
    <2>4. copies[t] \in Nat /\ Paced(t)
      BY DEF MigrationShape, Bulk, Tables, OnceARun
    <2>5. /\ Cardinality(Ahead(t)') \in Nat /\ Cardinality(Ahead(t)) \in Nat
          /\ Cardinality(Ahead(t)') <= Cardinality(Ahead(t)) + 1
      BY <1>3, <2>1, <2>2
    <2>6. CASE copies[t] + Cardinality(Ahead(t)) <= runs
      <3>1. copies'[t] + Cardinality(Ahead(t)') <= runs'
        BY <1>1, <1>2, <2>4, <2>5, <2>6
      <3> QED BY <3>1 DEF Paced
    <2>7. CASE copies[t] = 1 /\ Lacking(t) = {}
      BY <1>1, <2>3, <2>7 DEF Paced
    <2> QED BY <2>4, <2>6, <2>7 DEF Paced
  <1> QED BY <1>2, <1>4, <1>5 DEF OnceARun

\* A table of the three comes after those of the items before it.
LEMMA UpToFollowing ==
  ASSUME NEW t \in Bulk
  PROVE  /\ \A u \in Tables \cap ItemNames :
              After(u) \in UpTo(t) => u \in UpTo(t) /\ u # t
         /\ UpTo(t) \subseteq ItemNames \ {"leverage", "recharges", "sequences", "withdrawals"}
         /\ UpTo(t) \cap Away = {}
  <1>1. Tables \cap ItemNames = {"customers", "devices", "positions", "records", "settings",
                                 "recharges", "withdrawals"}
    BY DEF Tables, ItemNames
  <1>2. UpTo(t) \subseteq ItemNames \ {"leverage", "recharges", "sequences", "withdrawals"}
    BY DEF UpTo, ItemNames
  <1>3. ASSUME NEW u \in Tables \cap ItemNames, After(u) \in UpTo(t) PROVE u \in UpTo(t) /\ u # t
    BY <1>1, <1>3, Order DEF UpTo, Bulk
  <1> QED BY <1>2, <1>3, Tabled

LEMMA OnceARunStep ==
  ASSUME MigrationInv, OnceARun, [MigrationNext]_migrationVars
  PROVE  OnceARun'
  <1>0. /\ MigrationShape /\ Bulk \subseteq Tables \cap ItemNames
        /\ \A m \in Migrators : at[m] \in Places
    BY DEF MigrationInv, MigrationShape, Bulk, Tables, ItemNames
  <1>1. ASSUME NEW m \in Migrators, StartMigration(m) PROVE OnceARun'
    BY <1>0, <1>1, PacedStart
  <1>2. ASSUME NEW m \in Migrators, NEW p \in Places, Under(m), at' = [at EXCEPT ![m] = p],
               \A t \in Bulk : p.item \in UpTo(t) => p.item = "customers" /\ at[m].item = "data",
               \A t \in Bulk : copies'[t] = copies[t], runs' = runs
        PROVE  OnceARun'
    <2>1. ASSUME NEW t \in Bulk
          PROVE  /\ p.item \in UpTo(t) => at[m].item \in UpTo(t)
                 /\ p.item # t
      BY <1>2, <2>1 DEF UpTo, Bulk
    <2> QED BY <1>0, <1>2, <2>1, PacedMove
  <1>3. ASSUME NEW m \in Migrators, NEW i \in {"off", "failed", "done", "recharges"},
               Under(m), GoOn(m, i), copies' = copies, runs' = runs
        PROVE  OnceARun'
    <2> DEFINE p == [item |-> i, looked |-> FALSE, missing |-> FALSE]
    <2>1. p \in Places /\ \A t \in Bulk : p.item \notin UpTo(t)
      BY UpToFollowing, Tabled DEF Places, Away, ItemNames
    <2>2. at' = [at EXCEPT ![m] = p]
      BY <1>3 DEF GoOn, Go
    <2> HIDE DEF p
    <2> QED BY <1>2, <1>3, <2>1, <2>2
  <1>4. ASSUME NEW m \in Migrators, KillMigration(m) PROVE OnceARun'
    BY <1>3, <1>4 DEF KillMigration, Outside
  <1>5. ASSUME NEW m \in Migrators, MigrateLeveragedPositions(m) PROVE OnceARun'
    BY <1>3, <1>5, Order, Tabled DEF MigrateLeveragedPositions, Outside, Under
  <1>6. ASSUME NEW m \in Migrators, ResetSequences(m) PROVE OnceARun'
    BY <1>3, <1>6, Tabled DEF ResetSequences, Outside, Under
  <1>7. ASSUME NEW m \in Migrators, MigrateData(m) PROVE OnceARun'
    <2>1. at[m].item = "data" /\ Under(m) /\ runs' = runs
      BY <1>7, Tabled DEF MigrateData, Outside, Under
    <2>2. CASE GoOn(m, "failed") /\ copies' = copies
      BY <1>3, <2>1, <2>2
    <2>3. CASE /\ GoOn(m, "customers")
               /\ copies' = [t \in Tables |-> copies[t] + IF t \in Inserts(m) THEN 1 ELSE 0]
      <3> DEFINE p == [item |-> "customers", looked |-> FALSE, missing |-> FALSE]
      <3>1. p \in Places /\ p.item = "customers"
        BY DEF Places, ItemNames
      <3>2. at' = [at EXCEPT ![m] = p]
        BY <2>3 DEF GoOn, Go
      <3>3. ASSUME NEW t \in Bulk PROVE copies'[t] = copies[t]
        <4>1. t \notin Inserts(m) /\ copies[t] \in Nat /\ t \in Tables
          BY <1>0 DEF Inserts, Bulk, MigrationShape
        <4> QED BY <2>3, <4>1
      <3> HIDE DEF p
      <3> QED BY <1>2, <2>1, <3>1, <3>2, <3>3
    <2>4. \/ GoOn(m, "failed") /\ copies' = copies
          \/ /\ GoOn(m, "customers")
             /\ copies' = [t \in Tables |-> copies[t] + IF t \in Inserts(m) THEN 1 ELSE 0]
      BY <1>7 DEF MigrateData
    <2> QED BY <2>2, <2>3, <2>4
  <1>8. ASSUME NEW m \in Migrators, FindPositions(m) PROVE OnceARun'
    <2> DEFINE p == [item |-> "leverage", looked |-> TRUE,
                     missing |-> money.cost > 0 /\ money.margin = 0]
    <2>1. p \in Places /\ p.item = "leverage" /\ at' = [at EXCEPT ![m] = p]
      BY <1>8 DEF Places, ItemNames, FindPositions, Go
    <2>2. Under(m) /\ copies' = copies /\ runs' = runs
      BY <1>8, Tabled DEF FindPositions, Outside, Under
    <2>3. \A t \in Bulk : "leverage" \notin UpTo(t)
      BY UpToFollowing
    <2> HIDE DEF p
    <2> QED BY <1>2, <2>1, <2>2, <2>3
  <1>9. ASSUME NEW m \in Migrators, NEW u \in Tables, Look(m, u) PROVE OnceARun'
    <2> DEFINE missing == IF u = "records" THEN copies[u] = 0 ELSE Empty(u)
               p == [item |-> at[m].item, looked |-> TRUE, missing |-> missing]
    <2>1. /\ u = Counted(at[m].item) /\ at' = [at EXCEPT ![m] = p]
          /\ copies' = copies /\ runs' = runs
      BY <1>9 DEF Look, Go, Counted, Outside
    <2>2. Under(m) /\ p \in Places /\ (missing => copies[u] = 0)
      <3>1. at[m].item \notin Away /\ at[m].item \in ItemNames
        BY <1>0, <2>1, CountsItself DEF Places
      <3> QED BY <1>0, <3>1 DEF Under, Places, Empty
    <2> HIDE DEF missing
    <2>3. \A t \in Bulk : p.item = t /\ p.missing => copies[t] = 0
      BY <1>0, <2>1, <2>2 DEF Counted, Bulk
    <2>4. p.item = at[m].item
      OBVIOUS
    <2> HIDE DEF p
    <2> QED BY <1>0, <2>1, <2>2, <2>3, <2>4, PacedMove
  <1>10. ASSUME NEW m \in Migrators, NEW u \in Tables, Seed(m, u) PROVE OnceARun'
    <2>1. /\ u = at[m].item /\ at[m].looked /\ runs' = runs /\ u \in Tables \cap ItemNames
          /\ Under(m)
      BY <1>0, <1>10, Tabled DEF Seed, Outside, Places, Under
    <2>2. CASE GoOn(m, "failed") /\ copies' = copies
      BY <1>3, <2>1, <2>2
    <2>3. ASSUME NEW b \in BOOLEAN, Go(m, After(u), u = "recharges", b),
                 \/ copies' = copies
                 \/ at[m].missing /\ copies' = [copies EXCEPT ![u] = @ + 1]
          PROVE  OnceARun'
      <3> DEFINE p == [item |-> After(u), looked |-> u = "recharges", missing |-> b]
      <3>1. p \in Places /\ p.item = After(u) /\ (p.looked <=> u = "recharges")
        BY <2>1, Following DEF Places
      <3>2. at' = [at EXCEPT ![m] = p]
        BY <2>3 DEF Go
      <3> HIDE DEF p
      <3>3. ASSUME NEW t \in Bulk
            PROVE  /\ p.item \in UpTo(t) => at[m].item \in UpTo(t)
                   /\ ~(p.item = t /\ p.looked)
                   /\ u = t => p.item \notin UpTo(t)
        <4>1. p.item = t /\ p.looked => FALSE
          BY <2>1, <3>1, Following DEF Bulk
        <4> QED BY <2>1, <3>1, <4>1, UpToFollowing
      <3>4. ASSUME NEW t \in Bulk
            PROVE  \/ copies'[t] = copies[t]
                   \/ /\ t = u /\ m \in Lacking(t)
                      /\ copies'[t] = copies[t] + 1
        BY <1>0, <2>1, <2>3 DEF Lacking, MigrationShape
      <3> QED BY <1>0, <2>1, <3>1, <3>2, <3>3, <3>4, PacedMove
    <2> QED BY <1>10, <2>1, <2>2, <2>3 DEF Seed
  <1>14. ASSUME NEW m \in Migrators, SeedFundRecord(m) PROVE OnceARun'
    <2>1. at[m].item = "funds" /\ Under(m) /\ runs' = runs /\ copies' = copies
      BY <1>14, Tabled DEF SeedFundRecord, Outside, Under, ItemNames
    <2>2. CASE GoOn(m, "failed")
      BY <1>3, <2>1, <2>2
    <2>3. CASE Go(m, "devices", TRUE, at[m].missing)
      <3> DEFINE p == [item |-> "devices", looked |-> TRUE, missing |-> at[m].missing]
      <3>1. p \in Places /\ at' = [at EXCEPT ![m] = p]
        BY <1>0, <2>3 DEF Places, ItemNames, Go
      <3>2. \A t \in Bulk : at[m].item \in UpTo(t) /\ p.item # t
        BY <2>1 DEF UpTo, Bulk
      <3> HIDE DEF p
      <3> QED BY <1>0, <2>1, <3>1, <3>2, PacedMove
    <2> QED BY <1>14, <2>2, <2>3 DEF SeedFundRecord
  <1>11. ASSUME UNCHANGED <<at, runs>>,
                \A t \in Bulk : copies'[t] = copies[t] \/ copies'[t] = 0
         PROVE  OnceARun'
    <2>1. \A t \in Bulk : Ahead(t)' = Ahead(t) /\ Lacking(t)' = Lacking(t)
      BY <1>11 DEF Ahead, Lacking
    <2>2. Busy' = Busy
      BY <1>11 DEF Busy, Under
    <2>3. \A t \in Bulk : Paced(t)'
      BY <1>0, <1>11, <2>1, PacedOn
    <2> QED BY <1>11, <2>2, <2>3 DEF OnceARun
  <1>12. ASSUME NEW u \in Edited, AddRow(u) \/ DeleteRow(u) PROVE OnceARun'
    <2>1. u \in Tables
      BY MigrationAssumption DEF Tables
    <2> QED BY <1>0, <1>11, <1>12, <2>1 DEF AddRow, DeleteRow, EditBegins, MigrationShape
  <1>13. CASE UNCHANGED migrationVars
    BY <1>11, <1>13 DEF migrationVars
  <1> QED BY <1>1, <1>4, <1>5, <1>6, <1>7, <1>8, <1>9, <1>10, <1>14, <1>12, <1>13 DEF MigrationNext

LEMMA OnceARunInit == MigrationInit => OnceARun
  <1> SUFFICES ASSUME MigrationInit PROVE OnceARun
    OBVIOUS
  <1>1. runs = 0 /\ \A m \in Migrators : at[m].item = "off"
    BY DEF MigrationInit
  <1>2. Busy = {} /\ \A t \in Bulk : Ahead(t) = {} /\ Lacking(t) = {}
    BY <1>1 DEF Busy, Under, Away, Ahead, Lacking, UpTo, Bulk
  <1>3. \A t \in Bulk : copies[t] \in {0, 1}
    BY DEF MigrationInit, Bulk, Tables
  <1> QED BY <1>1, <1>2, <1>3, FS_EmptySet, MigrationAssumption DEF OnceARun, Paced

MoneyShape ==
  /\ money \in [cost : {0, Leverage}, margin : 0..Leverage, refund : Nat]
  /\ edits \in 0..MaxEdits

LEMMA MoneyStep == MoneyShape /\ [MigrationNext]_migrationVars => MoneyShape'
  <1> SUFFICES ASSUME MoneyShape, [MigrationNext]_migrationVars PROVE MoneyShape'
    OBVIOUS
  <1>1. ASSUME UNCHANGED money, edits' \in 0..MaxEdits PROVE MoneyShape'
    BY <1>1 DEF MoneyShape
  <1>2. ASSUME NEW m \in Migrators, MigrateLeveragedPositions(m) PROVE MoneyShape'
    <2> DEFINE margin == money.cost \div Leverage
    <2>1. money.cost \in {0, 2} /\ money.refund \in Nat
      BY DEF MoneyShape, Leverage
    <2>2. margin \in 0..2 /\ money.refund + money.cost - margin \in Nat
      BY <2>1 DEF Leverage
    <2>3. money' = IF at[m].missing
                   THEN [money EXCEPT !.margin = margin, !.refund = @ + money.cost - margin]
                   ELSE money
      BY <1>2 DEF MigrateLeveragedPositions
    <2>4. edits' = edits
      BY <1>2 DEF MigrateLeveragedPositions, Outside
    <2> HIDE DEF margin
    <2> QED BY <2>2, <2>3, <2>4 DEF MoneyShape, Leverage
  <1>3. EditBegins => UNCHANGED money /\ edits' \in 0..MaxEdits
    BY MigrationAssumption DEF EditBegins, MoneyShape
  <1>4. edits \in 0..MaxEdits
    BY DEF MoneyShape
  <1> QED BY <1>1, <1>2, <1>3, <1>4 DEF MigrationNext, migrationVars, StartMigration, KillMigration,
             MigrateData, FindPositions, ResetSequences, Look, Seed, SeedFundRecord, AddRow,
             DeleteRow, Outside

LEMMA MigrationTypes == MigrationInv /\ FundsInv /\ OnceARun /\ MoneyShape => MigrationTypeOK
  <1> SUFFICES ASSUME MigrationInv, FundsInv, OnceARun, MoneyShape PROVE MigrationTypeOK
    OBVIOUS
  <1>0. MigrationShape
    BY DEF MigrationInv
  <1>1. ASSUME NEW t \in Tables PROVE copies[t] \in 0..MaxRuns
    <2>1. copies[t] \in Nat
      BY <1>0 DEF MigrationShape
    <2>2. CASE t \in Keyed \cup {"articles"}
      BY <2>1, <2>2, MigrationAssumption DEF MigrationInv, SeededInv
    <2>3. CASE t \in Bulk
      <3>1. Cardinality(Ahead(t)) \in Nat /\ Paced(t) /\ runs \in 0..MaxRuns
        BY <2>3, Crowds DEF Ahead, OnceARun
      <3> QED BY <2>1, <3>1, MigrationAssumption DEF Paced
    <2>4. t \in Keyed \cup {"articles"} \cup Bulk
      BY DEF Keyed, Bulk
    <2> QED BY <2>2, <2>3, <2>4
  <1>2. at \in [Migrators -> [item : Away \cup {Items[i] : i \in DOMAIN Items},
                              looked : BOOLEAN, missing : BOOLEAN]]
    <2> HIDE DEF Items
    <2> QED BY <1>0, Order DEF MigrationShape, Places
  <1> HIDE DEF Items
  <1> QED BY <1>0, <1>1, <1>2 DEF MigrationShape, FundsInv, OnceARun, MoneyShape, MigrationTypeOK

-----------------------------------------------------------------------------
(***************************************************************************)
(* An article is related to its security as often as there are collectors  *)
(* at most: one that may still add its relation is counted with those that *)
(* are there, and a drop starts the count anew.                            *)
(***************************************************************************)
AtRelations(r) == {k \in Collectors : Relating(k, r)}

RelationsBounded == \A r \in FeedItems :
  relations[r] + Cardinality(AtRelations(r)) <= Cardinality(Collectors)

NewsCounts ==
  /\ source \in [Sources -> {"none", "enabled", "disabled", "deleted"}]
  /\ \A k \in Collectors : collector[k].tries <= MaxRetries
  /\ collections \in 0..MaxCollections /\ newsEdits \in 0..MaxNewsEdits

LEMMA Teams ==
  /\ IsFiniteSet(Collectors) /\ Cardinality(Collectors) \in Nat
  /\ \A S \in SUBSET Collectors :
       /\ IsFiniteSet(S) /\ Cardinality(S) \in Nat
       /\ Cardinality(S) <= Cardinality(Collectors)
       /\ \A T \in SUBSET S : Cardinality(T) <= Cardinality(S)
  BY NewsAssumption, FS_Subset, FS_CardinalityType

\* Who adds a relation does not add another before he has dropped them.
LEMMA BoundKept ==
  ASSUME NewsShape, RelationsBounded, NEW r \in FeedItems,
         \/ relations'[r] = 0
         \/ relations'[r] = relations[r] /\ AtRelations(r)' \subseteq AtRelations(r)
         \/ /\ relations'[r] = relations[r] + 1
            /\ \E k \in AtRelations(r) : AtRelations(r)' \subseteq AtRelations(r) \ {k}
  PROVE  relations'[r] + Cardinality(AtRelations(r)') <= Cardinality(Collectors)
  <1> DEFINE there == AtRelations(r)
             after == AtRelations(r)'
             all == Cardinality(Collectors)
  <1>1. there \in SUBSET Collectors /\ after \in SUBSET Collectors
    BY DEF AtRelations
  <1>2. /\ relations[r] \in Nat /\ relations[r] + Cardinality(there) <= all
        /\ IsFiniteSet(there) /\ Cardinality(there) \in Nat /\ all \in Nat
        /\ Cardinality(after) \in Nat /\ Cardinality(after) <= all
    BY <1>1, Teams DEF NewsShape, RelationsBounded
  <1>3. CASE relations'[r] = 0
    BY <1>2, <1>3
  <1>4. CASE relations'[r] = relations[r] /\ after \subseteq there
    <2>1. Cardinality(after) <= Cardinality(there)
      BY <1>1, <1>4, Teams
    <2> HIDE DEF there, after, all
    <2> QED BY <1>2, <1>4, <2>1 DEF after, all
  <1>5. ASSUME relations'[r] = relations[r] + 1, NEW k \in there, after \subseteq there \ {k}
        PROVE  relations'[r] + Cardinality(after) <= all
    <2>1. Cardinality(there \ {k}) = Cardinality(there) - 1
      BY <1>2, FS_RemoveElement
    <2>2. Cardinality(after) <= Cardinality(there \ {k})
      BY <1>1, <1>5, Teams
    <2> HIDE DEF there, after, all
    <2> QED BY <1>2, <1>5, <2>1, <2>2
  <1> QED BY <1>3, <1>4, <1>5

\* A collector goes on and relates nothing.
LEMMA NoRelation ==
  ASSUME NewsShape, RelationsBounded, relations' = relations,
         \A k \in Collectors : \/ collector'[k] = collector[k]
                               \/ collector'[k].at # "relate"
  PROVE  RelationsBounded'
  <1>1. ASSUME NEW r \in FeedItems PROVE AtRelations(r)' \subseteq AtRelations(r)
    BY DEF AtRelations, Relating
  <1>2. ASSUME NEW r \in FeedItems
        PROVE  relations'[r] + Cardinality(AtRelations(r)') <= Cardinality(Collectors)
    BY <1>1, BoundKept
  <1> QED BY <1>2 DEF RelationsBounded

LEMMA BoundDrop ==
  ASSUME NewsShape, RelationsBounded, NEW k \in Collectors, DropRelations(k), InHand(collector[k])
  PROVE  RelationsBounded'
  <1> DEFINE w == [collector[k] EXCEPT !.at = "relate"]
  <1>1. PICK q \in FeedItems : /\ q = collector[k].row
                               /\ relations' = [relations EXCEPT ![q] = 0]
    BY DEF DropRelations, InHand, NewsShape, Workers
  <1>2. collector' = [collector EXCEPT ![k] = w] /\ w.row = q
    BY <1>1 DEF DropRelations, Advance, NewsShape, Workers
  <1> HIDE DEF w
  <1>3. ASSUME NEW r \in FeedItems
        PROVE  \/ relations'[r] = 0
               \/ relations'[r] = relations[r] /\ AtRelations(r)' \subseteq AtRelations(r)
    <2>1. \A j \in Collectors : collector'[j] = IF j = k THEN w ELSE collector[j]
      BY <1>2 DEF NewsShape
    <2>2. CASE r = q
      BY <1>1, <2>2 DEF NewsShape
    <2>3. CASE r # q
      <3>1. relations'[r] = relations[r]
        BY <1>1, <2>3 DEF NewsShape
      <3>2. \A j \in Collectors : Relating(j, r)' => Relating(j, r)
        BY <1>2, <2>1, <2>3 DEF Relating
      <3> QED BY <3>1, <3>2 DEF AtRelations
    <2> QED BY <2>2, <2>3
  <1>4. ASSUME NEW r \in FeedItems
        PROVE  relations'[r] + Cardinality(AtRelations(r)') <= Cardinality(Collectors)
    BY <1>3, BoundKept
  <1> QED BY <1>4 DEF RelationsBounded

LEMMA BoundAdd ==
  ASSUME NewsShape, RelationsBounded, NEW k \in Collectors, AddRelations(k), InHand(collector[k])
  PROVE  RelationsBounded'
  <1> DEFINE w == NextItem(k)
  <1>1. PICK q \in FeedItems : /\ q = collector[k].row
                               /\ relations' = [relations EXCEPT ![q] = @ + 1]
    BY DEF AddRelations, InHand, NewsShape, Workers
  <1>2. /\ collector' = [collector EXCEPT ![k] = w] /\ w.at = "items"
        /\ collector[k].at = "relate"
    BY DEF AddRelations, Advance, NewsShape, Workers, NextItem
  <1> HIDE DEF w
  <1>3. /\ k \in AtRelations(q) /\ AtRelations(q)' \subseteq AtRelations(q) \ {k}
        /\ relations'[q] = relations[q] + 1
    BY <1>1, <1>2 DEF AtRelations, Relating, NewsShape
  <1>4. \A r \in FeedItems \ {q} : /\ relations'[r] = relations[r]
                                   /\ AtRelations(r)' \subseteq AtRelations(r)
    BY <1>1, <1>2 DEF AtRelations, Relating, NewsShape
  <1>5. ASSUME NEW r \in FeedItems
        PROVE  relations'[r] + Cardinality(AtRelations(r)') <= Cardinality(Collectors)
    BY <1>3, <1>4, BoundKept
  <1> QED BY <1>5 DEF RelationsBounded

\* The other steps of a collector.
Quietly(k) ==
  /\ relations' = relations
  /\ collector'[k].at # "relate" /\ collector'[k].tries <= MaxRetries
  /\ \A j \in Collectors \ {k} : collector'[j] = collector[j]

LEMMA AdvanceQuietly ==
  ASSUME NewsShape, NEW k \in Collectors, NEW w, Advance(k, w),
         w.at # "relate", w.tries <= MaxRetries, relations' = relations
  PROVE  Quietly(k)
  BY DEF Advance, NewsShape, Quietly

LEMMA QuietWorks ==
  ASSUME NewsShape, NewsCounts, NEW k \in Collectors,
         \/ CollectorStep(k) /\ ~DropRelations(k) /\ ~AddRelations(k)
         \/ CollectEnabledSources(k) \/ \E s \in Sources : CollectBySourceID(k, s)
  PROVE  Quietly(k)
  <1> USE DEF Writing, Workers
  <1>1. /\ collector[k] \in Workers /\ collector[k].tries <= MaxRetries
        /\ collector[k].tries \in Nat /\ MaxRetries \in Nat
    BY NewsAssumption DEF NewsShape, NewsCounts
  <1>2. NextItem(k).at = "items" /\ NextItem(k).tries = collector[k].tries
    BY <1>1 DEF NextItem
  <1>3. Resting.at = "rest" /\ Resting.tries = 0
        /\ \A q : [Resting EXCEPT !.at = "next", !.queue = q].at = "next"
                  /\ [Resting EXCEPT !.at = "next", !.queue = q].tries = 0
    BY DEF Resting
  <1> HIDE DEF Resting
  <1>4. CASE EndCollection(k)
    BY <1>1, <1>3, <1>4, AdvanceQuietly DEF EndCollection
  <1>5. CASE FinishSource(k)
    BY <1>1, <1>5, AdvanceQuietly DEF FinishSource
  <1>6. CASE FetchItems(k)
    <2> DEFINE w == [collector[k] EXCEPT !.at = "items", !.tries = 0,
                   !.todo = {i \in FeedItems : i.source = collector[k].source}]
    <2>1. w.at # "relate" /\ w.tries <= MaxRetries
      BY <1>1
    <2>2. Advance(k, w) /\ relations' = relations
      BY <1>6 DEF FetchItems
    <2> HIDE DEF w
    <2> QED BY <2>1, <2>2, AdvanceQuietly
  <1>7. CASE UpdateExisting(k)
    BY <1>1, <1>7, AdvanceQuietly DEF UpdateExisting
  <1>8. ASSUME NEW i \in FeedItems, NEW d \in Dates, FindExisting(k, i, d) PROVE Quietly(k)
    BY <1>1, <1>8, AdvanceQuietly DEF FindExisting
  <1>9. ASSUME NEW s \in Sources, LockFails(k, s) PROVE Quietly(k)
    BY <1>1, <1>9, AdvanceQuietly DEF LockFails
  <1>10. ASSUME NEW s \in Sources, NEW c \in Sessions, TrySourceLock(k, s, c) PROVE Quietly(k)
    <2> DEFINE w == IF \A d \in Sessions \ {c} : held[d][s] = 0
                    THEN [collector[k] EXCEPT !.at = "fetch", !.source = s, !.queue = @ \ {s}]
                    ELSE [collector[k] EXCEPT !.queue = @ \ {s}]
    <2>1. w.at # "relate" /\ w.tries <= MaxRetries
      BY <1>1, <1>10 DEF TrySourceLock
    <2>2. Advance(k, w) /\ relations' = relations
      BY <1>10 DEF TrySourceLock
    <2> HIDE DEF w
    <2> QED BY <2>1, <2>2, AdvanceQuietly
  <1>11. ASSUME NEW retryable \in BOOLEAN, FetchFails(k, retryable) PROVE Quietly(k)
    <2> DEFINE w == IF retryable /\ collector[k].tries < MaxRetries
                    THEN [collector[k] EXCEPT !.tries = @ + 1]
                    ELSE [collector[k] EXCEPT !.at = "release", !.tries = 0]
    <2>1. w.at # "relate" /\ w.tries <= MaxRetries
      BY <1>1, <1>11 DEF FetchFails
    <2>2. Advance(k, w) /\ relations' = relations
      BY <1>11 DEF FetchFails
    <2> HIDE DEF w
    <2> QED BY <2>1, <2>2, AdvanceQuietly
  <1>12. CASE CreateArticle(k)
    <2> DEFINE w == IF \A r \in FeedItems : article[r] # "none" =>
                         r.uid # collector[k].item.uid /\ r.url # collector[k].item.url
                    THEN [collector[k] EXCEPT !.at = "written", !.row = collector[k].item,
                                              !.date = 0]
                    ELSE NextItem(k)
    <2>1. w.at # "relate" /\ w.tries <= MaxRetries
      BY <1>1, <1>2
    <2>2. Advance(k, w) /\ relations' = relations
      BY <1>12 DEF CreateArticle
    <2> HIDE DEF w
    <2> QED BY <2>1, <2>2, AdvanceQuietly
  <1>13. CASE ItemFails(k)
    BY <1>1, <1>2, <1>13, AdvanceQuietly DEF ItemFails
  <1>14. ASSUME NEW c \in Sessions, ReleaseSourceLock(k, c) PROVE Quietly(k)
    <2> DEFINE w == [Resting EXCEPT !.at = "next", !.queue = collector[k].queue]
    <2>1. w.at # "relate" /\ w.tries <= MaxRetries
      BY <1>1, <1>3
    <2>2. Advance(k, w) /\ relations' = relations
      BY <1>14 DEF ReleaseSourceLock
    <2> HIDE DEF w
    <2> QED BY <2>1, <2>2, AdvanceQuietly
  <1>15. CASE CollectEnabledSources(k) \/ \E s \in Sources : CollectBySourceID(k, s)
    <2>1. PICK q : Collect(k, q)
      BY <1>15 DEF CollectEnabledSources, CollectBySourceID
    <2> DEFINE w == [Resting EXCEPT !.at = "next", !.queue = q]
    <2>2. w.at # "relate" /\ w.tries <= MaxRetries
      BY <1>1, <1>3
    <2>3. Advance(k, w) /\ relations' = relations
      BY <2>1 DEF Collect
    <2> HIDE DEF w
    <2> QED BY <2>2, <2>3, AdvanceQuietly
  <1> QED BY <1>4, <1>5, <1>6, <1>7, <1>8, <1>9, <1>10, <1>11, <1>12, <1>13, <1>14, <1>15
          DEF CollectorStep

LEMMA NewsCountsStep ==
  ASSUME NewsInv, NewsCounts, RelationsBounded, [NewsNext]_newsVars
  PROVE  NewsCounts' /\ RelationsBounded'
  <1>0. /\ NewsShape /\ MaxRetries \in Nat
        /\ \A k \in Collectors : InHand(collector[k]) /\ collector[k] \in Workers
    BY NewsAssumption DEF NewsInv, NewsShape
  <1>1. source' \in [Sources -> {"none", "enabled", "disabled", "deleted"}]
    <2>1. ASSUME NEW s \in Sources, NEW state \in {"enabled", "disabled", "deleted"},
                 SaveSource(s, state)
          PROVE  source' \in [Sources -> {"none", "enabled", "disabled", "deleted"}]
      BY <2>1 DEF SaveSource, NewsCounts
    <2>2. ASSUME NEW k \in Collectors, CollectorStep(k) PROVE source' = source
      BY <2>2 DEF CollectorStep, EndCollection, FinishSource, LockFails, TrySourceLock, FetchItems,
             FetchFails, FindExisting, UpdateExisting, CreateArticle, DropRelations, AddRelations,
             ItemFails, ReleaseSourceLock, Administration, Writing
    <2>3. source' = source \/ \E s \in Sources, state \in {"enabled", "disabled", "deleted"} :
                                SaveSource(s, state)
      BY <2>2 DEF NewsNext, newsVars, CollectEnabledSources, CollectBySourceID, Collect,
             CloseSession, KillServer, DeleteNews, UpdateNews, Administration
    <2> QED BY <2>1, <2>3 DEF NewsCounts
  <1>2. collections' \in 0..MaxCollections /\ newsEdits' \in 0..MaxNewsEdits
    <2>1. NewsEdit => collections' = collections /\ newsEdits' \in 0..MaxNewsEdits
      BY NewsAssumption DEF NewsEdit, NewsCounts
    <2>2. ASSUME NEW k \in Collectors, NEW q, Collect(k, q)
          PROVE  collections' \in 0..MaxCollections /\ newsEdits' = newsEdits
      BY <2>2, NewsAssumption DEF Collect, Administration, NewsCounts
    <2> QED BY <2>1, <2>2
            DEF NewsCounts, NewsNext, newsVars, CollectorStep, EndCollection, FinishSource,
             LockFails, TrySourceLock, FetchItems, FetchFails, FindExisting, UpdateExisting,
             CreateArticle, DropRelations, AddRelations, ItemFails, ReleaseSourceLock,
             CollectEnabledSources, CollectBySourceID, CloseSession, KillServer, DeleteNews,
             UpdateNews, SaveSource, Administration, Writing
  <1> DEFINE Few == \A k \in Collectors : collector'[k].tries <= MaxRetries
  <1>3. ASSUME NEW k \in Collectors, Quietly(k) PROVE Few /\ RelationsBounded'
    <2>1. \A j \in Collectors : collector'[j] = collector[j] \/ collector'[j].at # "relate"
      BY <1>3 DEF Quietly
    <2>2. RelationsBounded'
      BY <1>0, <1>3, <2>1, NoRelation DEF Quietly
    <2>3. ASSUME NEW j \in Collectors PROVE collector'[j].tries <= MaxRetries
      BY <1>3, <2>3 DEF Quietly, NewsCounts
    <2> QED BY <2>2, <2>3
  <1>4. ASSUME NEW k \in Collectors, DropRelations(k) PROVE Few /\ RelationsBounded'
    <2>1. collector' = [collector EXCEPT ![k] = [collector[k] EXCEPT !.at = "relate"]]
      BY <1>4 DEF DropRelations, Advance
    <2>2. Few
      BY <1>0, <2>1 DEF NewsCounts, NewsShape, Workers
    <2> QED BY <1>0, <1>4, <2>2, BoundDrop
  <1>5. ASSUME NEW k \in Collectors, AddRelations(k) PROVE Few /\ RelationsBounded'
    <2>1. /\ collector' = [collector EXCEPT ![k] = NextItem(k)]
          /\ NextItem(k).tries = collector[k].tries
      BY <1>0, <1>5 DEF AddRelations, Advance, NextItem, Workers
    <2>2. Few
      BY <1>0, <2>1 DEF NewsCounts, NewsShape
    <2> QED BY <1>0, <1>5, <2>2, BoundAdd
  <1>6. ASSUME KillServer PROVE Few /\ RelationsBounded'
    <2>1. Resting.at = "rest" /\ Resting.tries = 0
      BY DEF Resting
    <2>2. relations' = relations /\ \A k \in Collectors : collector'[k] = Resting
      BY <1>6 DEF KillServer
    <2>3. RelationsBounded'
      <3>1. \A k \in Collectors : collector'[k].at # "relate"
        BY <2>1, <2>2
      <3> QED BY <1>0, <2>2, <3>1, NoRelation
    <2> HIDE DEF Resting
    <2>4. Few
      BY <1>0, <2>1, <2>2
    <2> QED BY <2>3, <2>4
  <1>7. ASSUME collector' = collector, relations' = relations PROVE Few /\ RelationsBounded'
    BY <1>0, <1>7, NoRelation DEF NewsCounts
  <1>8. Few /\ RelationsBounded'
    <2>1. ASSUME NEW k \in Collectors,
                 CollectorStep(k) \/ CollectEnabledSources(k)
                 \/ \E s \in Sources : CollectBySourceID(k, s)
          PROVE  Few /\ RelationsBounded'
      BY <1>0, <1>3, <1>4, <1>5, <2>1, QuietWorks
    <2>2. ASSUME \/ \E c \in Sessions : CloseSession(c)
                 \/ \E r \in FeedItems : \/ DeleteNews(r)
                                         \/ \E status \in {"published", "hidden"} :
                                              UpdateNews(r, status)
                 \/ \E s \in Sources, state \in {"enabled", "disabled", "deleted"} :
                      SaveSource(s, state)
                 \/ UNCHANGED newsVars
          PROVE  collector' = collector /\ relations' = relations
      BY <2>2 DEF CloseSession, DeleteNews, UpdateNews, SaveSource, NewsEdit, newsVars
    <2> HIDE DEF Few
    <2> QED BY <1>6, <1>7, <2>1, <2>2 DEF NewsNext
  <1> QED BY <1>1, <1>2, <1>8 DEF NewsCounts

LEMMA NewsCountsInit == NewsInit => NewsCounts /\ RelationsBounded
  <1> SUFFICES ASSUME NewsInit PROVE NewsCounts /\ RelationsBounded
    OBVIOUS
  <1>1. Resting.at = "rest" /\ Resting.tries = 0
    BY DEF Resting
  <1> HIDE DEF Resting
  <1>2. \A k \in Collectors : collector[k] = Resting
    BY DEF NewsInit
  <1>3. NewsCounts
    BY <1>1, <1>2, NewsAssumption DEF NewsInit, NewsCounts
  <1>4. \A r \in FeedItems : AtRelations(r) = {} /\ relations[r] = 0
    BY <1>1, <1>2 DEF AtRelations, Relating, NewsInit
  <1> QED BY <1>3, <1>4, FS_EmptySet, Teams DEF RelationsBounded

LEMMA NewsTypes == NewsInv /\ NewsCounts /\ RelationsBounded => NewsTypeOK
  <1> SUFFICES ASSUME NewsInv, NewsCounts, RelationsBounded PROVE NewsTypeOK
    OBVIOUS
  <1>1. NewsShape
    BY DEF NewsInv
  <1>2. relations \in [FeedItems -> 0..Cardinality(Collectors)]
    <2>1. ASSUME NEW r \in FeedItems PROVE relations[r] \in 0..Cardinality(Collectors)
      <3>1. /\ relations[r] \in Nat /\ Cardinality(AtRelations(r)) \in Nat
            /\ relations[r] + Cardinality(AtRelations(r)) <= Cardinality(Collectors)
        BY <1>1, Teams DEF NewsShape, RelationsBounded, AtRelations
      <3> QED BY <3>1, Teams
    <2> QED BY <1>1, <2>1 DEF NewsShape
  <1>3. ASSUME NEW k \in Collectors
        PROVE  collector[k] \in
          [at : {"rest", "next", "fetch", "items", "write", "written", "relate", "release"},
           source : Sources \cup {"nowhere"}, queue : SUBSET Sources, todo : SUBSET FeedItems,
           row : FeedItems \cup {Absent}, item : FeedItems \cup {Absent}, date : Dates,
           tries : 0..MaxRetries]
    BY <1>1, NewsAssumption DEF NewsShape, NewsCounts, Workers
  <1> QED BY <1>1, <1>2, <1>3 DEF NewsShape, NewsCounts, NewsTypeOK

-----------------------------------------------------------------------------
(* The staff, the copy of the users and the catalogue *)

LEMMA StaffTypes == StaffInv /\ StaffTypeOK /\ [StaffNext]_staffVars => StaffTypeOK'
  <1> SUFFICES ASSUME StaffInv, StaffTypeOK, [StaffNext]_staffVars PROVE StaffTypeOK'
    OBVIOUS
  <1>1. StaffShape /\ StaffShape'
    BY StaffStep DEF StaffInv
  <1>2. /\ shifted \subseteq Roles /\ latecomers \subseteq Users
        /\ staffEdits \in 0..MaxStaffEdits
    BY DEF StaffTypeOK
  <1>3. staffEdits' \in 0..MaxStaffEdits
    <2>1. StaffEdit => staffEdits' \in 0..MaxStaffEdits
      BY <1>2, StaffAssumption DEF StaffEdit
    <2> QED BY <1>2, <2>1 DEF StaffNext, staffVars, CheckRole, CountMembers, SaveUser,
                  DeleteDepartment, GiveUp, DeleteUser, AddDepartment, ShiftRole
  <1>4. shifted' \subseteq Roles
    BY <1>2 DEF StaffNext, staffVars, CheckRole, CountMembers, SaveUser, DeleteDepartment, GiveUp,
                DeleteUser, AddDepartment, ShiftRole
  <1>5. latecomers' \subseteq Users
    <2>1. ASSUME NEW a \in Clerks, SaveUser(a) PROVE latecomers' \subseteq Users
      <3>1. clerk[a].who \in Users
        BY <1>1, <2>1 DEF SaveUser, StaffShape, Idler
      <3> QED BY <1>2, <2>1, <3>1 DEF SaveUser
    <2> QED BY <1>2, <2>1 DEF StaffNext, staffVars, CheckRole, CountMembers, DeleteDepartment,
                  GiveUp, DeleteUser, AddDepartment, ShiftRole
  <1> QED BY <1>1, <1>3, <1>4, <1>5 DEF StaffShape, StaffTypeOK

\* What a copy of users is.
Copies == UNION {[S -> Contents] : S \in SUBSET CachedUsers}

CacheShape ==
  /\ user \in Copies /\ info \in Copies
  /\ list \in {{}} \cup {{copy} : copy \in Copies}
  /\ job \in [Jobs -> [reads : {"nothing", "one", "all"}, users : Copies]]
  /\ userEdits \in 0..MaxUserEdits

\* Copies made of copies.
LEMMA MoreCopies ==
  /\ EmptyCopy \in Copies
  /\ \A f, g \in Copies : Over(f, g) \in Copies
  /\ \A f \in Copies : \A S \in SUBSET DOMAIN f : Restrict(f, S) \in Copies
  /\ \A u \in CachedUsers, x \in Contents : [v \in {u} |-> x] \in Copies
  <1>1. EmptyCopy \in [{} -> Contents]
    BY DEF EmptyCopy
  <1>2. ASSUME NEW f \in Copies, NEW g \in Copies PROVE Over(f, g) \in Copies
    <2>1. PICK S \in SUBSET CachedUsers, T \in SUBSET CachedUsers :
            f \in [S -> Contents] /\ g \in [T -> Contents]
      BY DEF Copies
    <2>2. Over(f, g) \in [S \cup T -> Contents]
      BY <2>1 DEF Over
    <2> QED BY <2>2 DEF Copies
  <1>3. ASSUME NEW f \in Copies, NEW S \in SUBSET DOMAIN f PROVE Restrict(f, S) \in Copies
    <2>1. Restrict(f, S) \in [S -> Contents] /\ S \subseteq CachedUsers
      BY DEF Copies, Restrict
    <2> QED BY <2>1 DEF Copies
  <1>4. ASSUME NEW u \in CachedUsers, NEW x \in Contents PROVE [v \in {u} |-> x] \in Copies
    <2>1. [v \in {u} |-> x] \in [{u} -> Contents]
      OBVIOUS
    <2> QED BY <2>1 DEF Copies
  <1> QED BY <1>1, <1>2, <1>3, <1>4 DEF Copies

LEMMA CacheInitShape == CacheInit => CacheShape
  <1> SUFFICES ASSUME CacheInit PROVE CacheShape
    OBVIOUS
  <1>1. /\ user \in Copies /\ info \in {EmptyCopy, user} /\ list \in {{}, {user}}
        /\ job = [j \in Jobs |-> Jobless] /\ userEdits = 0
    BY DEF CacheInit, Copies
  <1>2. Jobless \in [reads : {"nothing", "one", "all"}, users : Copies]
    BY MoreCopies DEF Jobless
  <1> QED BY <1>1, <1>2, MoreCopies, UserCacheAssumption DEF CacheShape

LEMMA CacheStep == CacheShape /\ [CacheNext]_cacheVars => CacheShape'
  <1> DEFINE Reads == [reads : {"nothing", "one", "all"}, users : Copies]
  <1> SUFFICES ASSUME CacheShape, [CacheNext]_cacheVars PROVE CacheShape'
    OBVIOUS
  <1> USE DEF CacheShape, Rows
  <1>0. Jobless \in Reads
    BY MoreCopies DEF Jobless
  <1>1. ASSUME NEW j \in Jobs, ReadAllUsers(j) PROVE CacheShape'
    BY <1>1 DEF ReadAllUsers
  <1>2. ASSUME NEW j \in Jobs, StoreUsers(j) PROVE CacheShape'
    <2>1. job[j] \in Reads /\ job' = [job EXCEPT ![j] = Jobless]
          /\ info' = Over(job[j].users, info) /\ user' = user /\ userEdits' = userEdits
          /\ list' \in {list, {job[j].users}}
      BY <1>2 DEF StoreUsers
    <2>2. info' \in Copies
      BY <2>1, MoreCopies
    <2> QED BY <1>0, <2>1, <2>2
  <1>3. ASSUME NEW j \in Jobs, StoreFails(j) PROVE CacheShape'
    BY <1>0, <1>3 DEF StoreFails
  <1>4. ASSUME NEW j \in Jobs, NEW u \in CachedUsers, ReadUser(j, u) PROVE CacheShape'
    <2>1. Restrict(user, {u}) \in Copies
      BY <1>4, MoreCopies DEF ReadUser
    <2> QED BY <1>4, <2>1 DEF ReadUser
  <1>5. ASSUME NEW u \in CachedUsers, ExpireUser(u) PROVE CacheShape'
    <2>1. Restrict(info, DOMAIN info \ {u}) \in Copies
      BY MoreCopies
    <2> QED BY <1>5, <2>1 DEF ExpireUser
  <1>6. CASE ExpireList
    BY <1>6 DEF ExpireList
  <1>7. ASSUME NEW changed \in Copies, EditUser(changed) PROVE CacheShape'
    BY <1>7, UserCacheAssumption DEF EditUser
  <1>8. ASSUME NEW u \in CachedUsers PROVE Restrict(user, DOMAIN user \ {u}) \in Copies
    BY MoreCopies
  <1>9. ASSUME NEW u \in CachedUsers, NEW x \in Contents
        PROVE  Over([v \in {u} |-> x], user) \in Copies
    <2> DEFINE one == [v \in {u} |-> x]
    <2>1. one \in Copies
      BY MoreCopies
    <2> HIDE DEF one
    <2> QED BY <2>1, MoreCopies
  <1>10. CASE UNCHANGED cacheVars
    BY <1>10 DEF cacheVars
  <1> QED BY <1>1, <1>2, <1>3, <1>4, <1>5, <1>6, <1>7, <1>8, <1>9, <1>10 DEF CacheNext


LEMMA CacheTypes == CacheShape => CacheTypeOK
  <1> SUFFICES ASSUME CacheShape PROVE CacheTypeOK
    OBVIOUS
  <1>1. Cardinality(list) <= 1
    BY FS_EmptySet, FS_Singleton DEF CacheShape
  <1>2. \A copy \in Copies : DOMAIN copy \subseteq CachedUsers /\ copy \in [DOMAIN copy -> Contents]
    BY DEF Copies
  <1>3. list \cup {job[j].users : j \in Jobs} \cup {user, info} \subseteq Copies
    BY DEF CacheShape
  <1> QED BY <1>1, <1>2, <1>3 DEF CacheShape, CacheTypeOK

-----------------------------------------------------------------------------
\* What may have been read of a page, and where a synchronisation may be.
Pages == {{}} \cup {{i} : i \in ListedItems}
Progress == [page : 0..MaxPages, read : Pages, total : 0..Cardinality(Securities)]

LEMMA PagesAre ==
  /\ {} \in Pages
  /\ \A i \in ListedItems : {i} \in Pages
  /\ \A p \in Pages : p \subseteq ListedItems /\ Cardinality(p) <= 1
  <1>1. ASSUME NEW p \in Pages PROVE p \subseteq ListedItems /\ Cardinality(p) <= 1
    <2>1. CASE p = {}
      BY <2>1, FS_EmptySet
    <2>2. ASSUME NEW i \in ListedItems, p = {i}
          PROVE  p \subseteq ListedItems /\ Cardinality(p) <= 1
      <3>1. Cardinality({i}) = 1
        BY FS_Singleton
      <3> QED BY <2>2, <3>1
    <2> QED BY <2>1, <2>2 DEF Pages
  <1> QED BY <1>1 DEF Pages

StockShape ==
  /\ security \in [Securities -> StockRows \cup {Missing}]
  /\ clash \subseteq Securities /\ heldBack \subseteq Securities
  /\ listing \in Lists
  /\ sync \in [Syncs -> Progress]
  /\ form \in {NoForm} \cup [code : Securities, copy : StockRows]
  /\ stockEdits \in 0..MaxStockEdits

\* A list of the source is as long as there are securities at most.
LEMMA ListsAre ==
  ASSUME NEW l \in Lists
  PROVE  /\ Len(l) \in 0..Cardinality(Securities)
         /\ \A n \in DOMAIN l : l[n] \in ListedItems
  <1>1. PICK n \in 0..Cardinality(Securities) : l \in [1..n -> ListedItems]
    BY DEF Lists
  <1>2. n \in Nat
    BY SecuritiesAssumption, FS_CardinalityType
  <1>3. l \in Seq(ListedItems)
    BY <1>1, <1>2, SeqDef
  <1>4. Len(l) = n
    <2>1. Len(l) \in Nat /\ DOMAIN l = 1..Len(l) /\ DOMAIN l = 1..n
      BY <1>1, <1>3, LenProperties
    <2> DEFINE k == Len(l)
    <2>2. k \in Nat /\ 1..k = 1..n
      BY <2>1
    <2> HIDE DEF k
    <2>3. k = n
      <3>1. CASE k < n
        BY <1>2, <2>2, <3>1, n \in 1..n
      <3>2. CASE n < k
        BY <1>2, <2>2, <3>2, k \in 1..k
      <3> QED BY <1>2, <2>2, <3>1, <3>2
    <2> QED BY <2>3 DEF k
  <1> QED BY <1>1, <1>4

LEMMA StockInitShape == StockInit => StockShape
  <1> SUFFICES ASSUME StockInit PROVE StockShape
    OBVIOUS
  <1>1. NoSync \in Progress
    BY SecuritiesAssumption, FS_CardinalityType, PagesAre DEF NoSync, Progress
  <1> QED BY <1>1, SecuritiesAssumption DEF StockInit, StockShape

LEMMA TurnedIs ==
  ASSUME NEW p \in Progress
  PROVE  Turned(p) \in Progress
  <1>1. ASSUME p.page < MaxPages PROVE [p EXCEPT !.page = @ + 1, !.read = {}] \in Progress
    <2>1. p.page + 1 \in 0..MaxPages
      BY <1>1, SecuritiesAssumption DEF Progress
    <2> QED BY <2>1, PagesAre DEF Progress
  <1>2. NoSync \in Progress
    BY SecuritiesAssumption, FS_CardinalityType, PagesAre DEF NoSync, Progress
  <1> QED BY <1>1, <1>2 DEF Turned

\* Who reads a page and writes it.
LEMMA SyncSteps ==
  ASSUME StockShape, NEW j \in Syncs,
         BeginSync(j) \/ SyncFails(j)
         \/ \E n \in 1..MaxPages : ReadPage(j, n) \/ WritePage(j, n)
  PROVE  StockShape'
  <1> USE SecuritiesAssumption DEF StockShape
  <1>0. /\ sync[j] \in Progress /\ NoSync \in Progress /\ Cardinality(Securities) \in Nat
        /\ StockEdit => stockEdits' \in 0..MaxStockEdits
    BY FS_CardinalityType, PagesAre DEF NoSync, Progress, StockEdit
  <1>1. CASE BeginSync(j)
    <2>1. [sync[j] EXCEPT !.page = 1] \in Progress
      BY <1>0 DEF Progress
    <2> QED BY <1>0, <1>1, <2>1 DEF BeginSync, Catalogue
  <1>2. CASE SyncFails(j)
    BY <1>0, <1>2 DEF SyncFails, Catalogue
  <1>3. ASSUME NEW n \in 1..MaxPages, ReadPage(j, n) PROVE StockShape'
    <2> DEFINE p == IF n \in DOMAIN listing
                    THEN [page |-> n, read |-> {listing[n]}, total |-> Len(listing)] ELSE NoSync
    <2>1. p \in Progress
      <3>1. n \in 0..MaxPages /\ Len(listing) \in 0..Cardinality(Securities)
        BY ListsAre
      <3>2. n \in DOMAIN listing => {listing[n]} \in Pages
        BY ListsAre, PagesAre
      <3> QED BY <1>0, <3>1, <3>2 DEF Progress
    <2>2. sync' = [sync EXCEPT ![j] = p]
      BY <1>3 DEF ReadPage
    <2> HIDE DEF p
    <2> QED BY <1>3, <2>1, <2>2 DEF ReadPage, Catalogue
  <1>4. ASSUME NEW n \in 1..MaxPages, WritePage(j, n) PROVE StockShape'
    <2>1. Turned(sync[j]) \in Progress
      BY <1>0, TurnedIs
    <2>2. PICK item \in ListedItems : Upsert(item)
      BY <1>0, <1>4, PagesAre DEF WritePage, Progress
    <2>3. item.code \in Securities /\ item.quote \in Quotes
      BY DEF ListedItems
    <2>4. security' \in [Securities -> StockRows \cup {Missing}]
      BY <2>2, <2>3 DEF Upsert, StockRows
    <2> QED BY <1>4, <2>1, <2>4 DEF WritePage
  <1> QED BY <1>1, <1>2, <1>3, <1>4

LEMMA StockStep == StockShape /\ [StockNext]_stockVars => StockShape'
  <1> SUFFICES ASSUME StockShape, [StockNext]_stockVars PROVE StockShape'
    OBVIOUS
  <1> USE SecuritiesAssumption DEF StockShape
  <1>0. StockEdit => stockEdits' \in 0..MaxStockEdits
    BY DEF StockEdit
  <1>1. ASSUME NEW status \in {"enabled", "disabled"}, SaveSecurity(status) PROVE StockShape'
    <2>1. form.code \in Securities /\ form.copy \in StockRows
      BY <1>1 DEF SaveSecurity
    <2>2. [form.copy EXCEPT !.status = status] \in StockRows
      BY <2>1 DEF StockRows
    <2> QED BY <1>0, <1>1, <2>1, <2>2 DEF SaveSecurity, Say
  <1>2. ASSUME NEW s \in Securities, OpenStockForm(s) PROVE StockShape'
    BY <1>2 DEF OpenStockForm, Catalogue, Missing
  <1>3. ASSUME NEW s \in Securities, EnterSymbol(s) PROVE StockShape'
    BY <1>0, <1>3 DEF EnterSymbol
  <1>4. ASSUME NEW s \in Securities, NEW r \in StockRows, ChangeLive(s, r) PROVE StockShape'
    BY <1>0, <1>4 DEF ChangeLive, Say
  <1>5. ASSUME NEW s \in Securities, DeleteSecurity(s) PROVE StockShape'
    <2>1. [security[s] EXCEPT !.state = "deleted"] \in StockRows
      BY <1>5 DEF DeleteSecurity, ChangeLive, Missing, StockRows
    <2> QED BY <1>4, <1>5, <2>1 DEF DeleteSecurity
  <1>6. ASSUME NEW s \in Securities, NEW status \in {"enabled", "disabled"},
               UpdateStockStatus(s, status)
        PROVE  StockShape'
    <2>1. [security[s] EXCEPT !.status = status] \in StockRows
      BY <1>6 DEF UpdateStockStatus, ChangeLive, Missing, StockRows
    <2> QED BY <1>4, <1>6, <2>1 DEF UpdateStockStatus
  <1>7. ASSUME NEW s \in Securities, NEW q \in Quotes, CreateSecurity(s, q) PROVE StockShape'
    BY <1>0, <1>7 DEF CreateSecurity, StockRows
  <1>8. ASSUME NEW l \in Lists, MarketMoves(l) PROVE StockShape'
    BY <1>0, <1>8 DEF MarketMoves, Catalogue
  <1>9. CASE UNCHANGED stockVars
    BY <1>9 DEF stockVars
  <1> QED BY <1>1, <1>2, <1>3, <1>5, <1>6, <1>7, <1>8, <1>9, SyncSteps DEF StockNext

LEMMA StockTypes == StockShape => StockTypeOK
  <1> SUFFICES ASSUME StockShape PROVE StockTypeOK
    OBVIOUS
  <1>1. ASSUME NEW j \in Syncs
        PROVE  /\ sync[j].page \in 0..MaxPages
               /\ sync[j].read \subseteq ListedItems /\ Cardinality(sync[j].read) <= 1
               /\ sync[j].total \in 0..Cardinality(Securities)
    <2>1. sync[j] \in Progress
      BY DEF StockShape
    <2> QED BY <2>1, PagesAre DEF Progress
  <1> QED BY <1>1 DEF StockShape, StockTypeOK

LEMMA StaffInitTypes == StaffInit => StaffTypeOK
  BY StaffInitInv, StaffAssumption DEF StaffInv, StaffInit, StaffShape, StaffTypeOK

-----------------------------------------------------------------------------
TypesInv ==
  /\ MigrationInv /\ FundsInv /\ OnceARun /\ MoneyShape
  /\ NewsInv /\ NewsCounts /\ RelationsBounded
  /\ LimitInv /\ CaptchaInv
  /\ StaffInv /\ StaffTypeOK
  /\ CacheShape /\ StockShape

LEMMA TypesInit == ServicesInit => TypesInv
  <1> SUFFICES ASSUME ServicesInit PROVE TypesInv
    OBVIOUS
  <1>1. MoneyShape
    BY MigrationAssumption DEF ServicesInit, MigrationInit, MoneyShape, Leverage
  <1>2. CaptchaInv
    BY CaptchaAssumption DEF ServicesInit, CaptchaInit, CaptchaInv, CaptchaTypeOK, OneReader
  <1> QED BY <1>1, <1>2, MigrationInitInv, FundsInit, OnceARunInit, NewsInitInv, NewsCountsInit, LimitInitInv,
             StaffInitInv, StaffInitTypes, CacheInitShape, StockInitShape DEF ServicesInit, TypesInv

\* One part moves and the others stand still.
LEMMA TypesStep == TypesInv /\ [ServicesNext]_servicesVars => TypesInv'
  <1> SUFFICES ASSUME TypesInv, [ServicesNext]_servicesVars PROVE TypesInv'
    OBVIOUS
  <1>1. /\ [MigrationNext]_migrationVars /\ [NewsNext]_newsVars /\ [LimitNext]_limitVars
        /\ [CaptchaNext]_captchaVars /\ [StaffNext]_staffVars /\ [CacheNext]_cacheVars
        /\ [StockNext]_stockVars
    BY DEF ServicesNext, servicesVars, MigrationWatched, NewsWatched, LimiterWatched,
           CaptchaWatched, StaffWatched, CacheWatched, StockWatched
  <1> QED BY <1>1, MigrationStep, FundsStep, OnceARunStep, MoneyStep, NewsStep, NewsCountsStep, LimitStep,
             CaptchaStep, StaffStep, StaffTypes, CacheStep, StockStep DEF TypesInv

\* For every value of the constants each part keeps to its types and its bounds:
\* no default is inserted more often than migrations were run, no article related
\* more often than there are collectors, no bucket holds more than Burst.
THEOREM TypesAlways == ServicesSpec => []TypesOK
  <1>1. TypesInv => TypesOK
    BY MigrationTypes, NewsTypes, CacheTypes, StockTypes
       DEF TypesInv, TypesOK, LimitInv, CaptchaInv
  <1> QED BY TypesInit, TypesStep, <1>1, PTL DEF ServicesSpec
=============================================================================
