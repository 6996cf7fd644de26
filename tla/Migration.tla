----------------------------- MODULE Migration ------------------------------
(***************************************************************************)
(* `main --migrate': the default rows of each table are put into the data  *)
(* base where they are missing, and positions from before there was any    *)
(* leverage are turned into leveraged ones.  It is run for an empty data   *)
(* base and again for every new version, may stop anywhere, may be run     *)
(* twice at a time and runs while administrators work.                     *)
(*                                                                         *)
(* A deleted row is only marked: it keeps its key, and a count does not    *)
(* see it.  The defaults of a table are one row here.                      *)
(***************************************************************************)
EXTENDS Naturals, FiniteSets, Sequences

CONSTANTS
  Migrators,     \* processes that may migrate
  Edited,        \* the tables whose rows administrators add and delete here
  MaxRuns,       \* bound on the migrations
  MaxEdits       \* bound on what the administrators do

ASSUME MigrationAssumption ==
  /\ Edited \subseteq {"articles", "sources", "roles", "customers", "positions", "records"}
  /\ IsFiniteSet(Migrators)
  /\ MaxRuns \in Nat \ {0} /\ MaxEdits \in Nat

\* What one migration does, in its order.  The first item is a transaction.
Items == <<"data", "customers", "funds", "devices", "positions", "records",
           "settings", "leverage", "recharges", "withdrawals", "sequences">>

Tables == {"tenants", "articles", "sources", "roles", "departments", "users", "customers",
           "devices", "positions", "records", "settings", "recharges", "withdrawals"}

\* The tables whose defaults have an id or a unique name of their own.
Keyed == Tables \ {"articles", "positions", "records", "settings"}

VARIABLES
  copies,     \* of its defaults that are live in each table
  funds,      \* first fund records of the customers, two standing for any more
  torn,       \* a migration ended between such a record and the devices
  deleted,    \* tables with defaults that were deleted
  added,      \* tables with a live row of an administrator's
  cleared,    \* an administrator deleted such a row
  money,      \* the old position's cost and margin, and what was paid back for it
  at,         \* where each migration is
  finished,   \* a migration has got to its end
  overlapped, \* two migrations were under way at a time
  edits, runs

migrationVars == <<copies, funds, torn, deleted, added, cleared, money, at, finished,
                   overlapped, edits, runs>>

Leverage == 2
Away == {"off", "failed", "done"}
Under(m) == at[m].item \notin Away

MigrationTypeOK ==
  /\ copies \in [Tables -> 0..MaxRuns]
  /\ funds \in 0..2 /\ torn \in BOOLEAN
  /\ deleted \subseteq Edited /\ added \subseteq Edited
  /\ money \in [cost : {0, Leverage}, margin : 0..Leverage, refund : Nat]
  /\ at \in [Migrators -> [item : Away \cup {Items[i] : i \in DOMAIN Items},
                           looked : BOOLEAN, missing : BOOLEAN]]
  /\ cleared \in BOOLEAN /\ finished \in BOOLEAN /\ overlapped \in BOOLEAN
  /\ edits \in 0..MaxEdits /\ runs \in 0..MaxRuns

-----------------------------------------------------------------------------
Empty(t) == copies[t] = 0 /\ t \notin added

\* The defaults of t can be inserted: nothing has their keys.
MayInsert(t) == t \in Keyed => copies[t] = 0 /\ t \notin deleted

Go(m, item, looked, missing) ==
  at' = [at EXCEPT ![m] = [item |-> item, looked |-> looked, missing |-> missing]]

GoOn(m, item) == Go(m, item, FALSE, FALSE)

After(item) == Items[1 + CHOOSE i \in DOMAIN Items : Items[i] = item]

\* The table that is counted first for the item.
Counted(item) ==
  CASE item = "data" -> "tenants" [] item = "funds" -> "devices" [] OTHER -> item

Funds == <<funds, torn>>
Outside == <<deleted, added, cleared, edits, runs, overlapped>>

StartMigration(m) ==
  /\ ~Under(m) /\ runs < MaxRuns
  /\ runs' = runs + 1
  /\ GoOn(m, "data")
  /\ overlapped' = (overlapped \/ \E n \in Migrators \ {m} : Under(n))
  /\ UNCHANGED <<copies, Funds, deleted, added, cleared, money, finished, edits>>

\* Fault: the records have to be more than are ever inserted.
LookForMore(m, t) ==
  /\ t = Counted(at[m].item)
  /\ t \in Tables /\ ~at[m].looked
  /\ Go(m, at[m].item, TRUE, IF t = "records" THEN TRUE ELSE Empty(t))
  /\ UNCHANGED <<copies, money, finished, Funds, Outside>>

\* A count, alone in its statement.  Of the records there have to be forty.
Look(m, t) ==
  /\ t = Counted(at[m].item)
  /\ t \in Tables /\ ~at[m].looked
  /\ Go(m, at[m].item, TRUE, IF t = "records" THEN copies[t] = 0 ELSE Empty(t))
  /\ UNCHANGED <<copies, money, finished, Funds, Outside>>

-----------------------------------------------------------------------------
(* The transaction.  Whoever is second waits in its first write, for the   *)
(* tenant's key or for the menus that are rebuilt, and so reads what comes *)
(* after the tenants when the first has committed.                         *)

\* Fault: the news sources are inserted without looking for them.
InsertsSources(m) ==
  {t \in {"roles"} : Empty(t)} \cup {t \in {"articles"} : copies[t] = 0} \cup {"sources"}
  \cup (IF at[m].missing THEN {"tenants"} ELSE {})
  \cup (IF Empty("departments") THEN {t \in {"departments", "users", "customers"} : Empty(t)}
        ELSE {})

\* What it finds missing, by name or by count; it stops at the departments if
\* there is one.
Inserts(m) ==
  {t \in {"roles"} : Empty(t)} \cup {t \in {"articles", "sources"} : copies[t] = 0}
  \cup (IF at[m].missing THEN {"tenants"} ELSE {})
  \cup (IF Empty("departments") THEN {t \in {"departments", "users", "customers"} : Empty(t)}
        ELSE {})

\* Role 1 is given every menu, and has to be there.
MigrateData(m) ==
  /\ at[m].item = "data" /\ at[m].looked
  /\ IF /\ "roles" \in Inserts(m) \/ copies["roles"] > 0
        /\ \A t \in Inserts(m) : MayInsert(t)
     THEN /\ copies' = [t \in Tables |-> copies[t] + IF t \in Inserts(m) THEN 1 ELSE 0]
          /\ GoOn(m, "customers")
     ELSE GoOn(m, "failed") /\ UNCHANGED copies
  /\ UNCHANGED <<money, finished, Funds, Outside>>

\* Fault: there is no transaction, and what was written until then stays.
KillWithoutRollback(m) ==
  LET written == IF at[m].item = "data" /\ at[m].looked
                 THEN {t \in Inserts(m) \ {"users", "customers"} : MayInsert(t)} ELSE {}
  IN /\ Under(m)
     /\ GoOn(m, "off")
     /\ copies' = [t \in Tables |-> copies[t] + IF t \in written THEN 1 ELSE 0]
     /\ torn' = (torn \/ (at[m].item = "devices" /\ at[m].missing))
     /\ UNCHANGED <<funds, money, finished, Outside>>

\* The process ends; a transaction it was in is taken back.
KillMigration(m) ==
  /\ Under(m)
  /\ GoOn(m, "off")
  /\ torn' = (torn \/ (at[m].item = "devices" /\ at[m].missing))
  /\ UNCHANGED <<copies, funds, money, finished, Outside>>

-----------------------------------------------------------------------------
(* The rest, every statement by itself *)

NoCustomer == Empty("customers")

\* With the devices, which are counted, comes a fund record for one of the
\* customers, in a statement of its own that may fail unseen.  The devices are made
\* for the customers read here, and to insert none is an error.
SeedFundRecord(m) ==
  /\ at[m].item = "funds" /\ at[m].looked
  /\ IF at[m].missing /\ NoCustomer
     THEN GoOn(m, "failed") /\ UNCHANGED funds
     ELSE /\ Go(m, "devices", TRUE, at[m].missing)
          /\ \/ at[m].missing /\ funds' = IF funds < 2 THEN funds + 1 ELSE 2
             \/ UNCHANGED funds
  /\ UNCHANGED <<copies, torn, money, finished, Outside>>

\* Positions are made for the customers too, and records for the positions.  The
\* withdrawals come with the recharges, in a statement of their own.
Seed(m, t) ==
  LET idle == \/ ~at[m].missing
              \/ t = "records" /\ Empty("positions")
              \/ t = "recharges" /\ NoCustomer
  IN /\ t = at[m].item /\ t \in Tables /\ at[m].looked
     /\ IF idle THEN Go(m, After(t), t = "recharges", FALSE) /\ UNCHANGED copies
        ELSE IF ~MayInsert(t) \/ (t = "positions" /\ NoCustomer)
        THEN GoOn(m, "failed") /\ UNCHANGED copies
        ELSE /\ Go(m, After(t), t = "recharges", t = "recharges")
             /\ copies' = [copies EXCEPT ![t] = @ + 1]
     /\ UNCHANGED <<money, finished, Funds, Outside>>

\* Fault: positions that have their margin are found again.
FindEveryPosition(m) ==
  /\ at[m].item = "leverage" /\ ~at[m].looked
  /\ Go(m, "leverage", TRUE, money.cost > 0)
  /\ UNCHANGED <<copies, money, finished, Funds, Outside>>

\* The positions without a margin, which the query does not lock.
FindPositions(m) ==
  /\ at[m].item = "leverage" /\ ~at[m].looked
  /\ Go(m, "leverage", TRUE, money.cost > 0 /\ money.margin = 0)
  /\ UNCHANGED <<copies, money, finished, Funds, Outside>>

\* The position is given its margin and the customer what it cost above it.
MigrateLeveragedPositions(m) ==
  LET margin == money.cost \div Leverage
  IN /\ at[m].item = "leverage" /\ at[m].looked
     /\ money' = IF at[m].missing
                 THEN [money EXCEPT !.margin = margin, !.refund = @ + money.cost - margin]
                 ELSE money
     /\ GoOn(m, After("leverage"))
     /\ UNCHANGED <<copies, finished, Funds, Outside>>

\* The sequences are set past the ids that were written, which are left out here.
ResetSequences(m) ==
  /\ at[m].item = "sequences"
  /\ GoOn(m, "done")
  /\ finished' = TRUE
  /\ UNCHANGED <<copies, money, Funds, Outside>>

-----------------------------------------------------------------------------
(* Administrators, once there is one *)

EditBegins ==
  /\ copies["users"] > 0
  /\ edits < MaxEdits /\ edits' = edits + 1
  /\ UNCHANGED <<Funds, money, at, finished, overlapped, runs>>

AddRow(t) ==
  /\ EditBegins
  /\ t \notin {"records"}
  /\ added' = added \cup {t}
  /\ UNCHANGED <<copies, deleted, cleared>>

DeleteRow(t) ==
  /\ EditBegins
  /\ \/ /\ copies[t] > 0
        /\ copies' = [copies EXCEPT ![t] = 0] /\ deleted' = deleted \cup {t}
        /\ UNCHANGED <<added, cleared>>
     \/ /\ t \in added
        /\ added' = added \ {t} /\ cleared' = TRUE
        /\ UNCHANGED <<copies, deleted>>

-----------------------------------------------------------------------------
\* An empty data base, or one of a version without leverage.
MigrationInit ==
  /\ \/ /\ copies = [t \in Tables |-> 0] /\ funds = 0
        /\ money = [cost |-> 0, margin |-> 0, refund |-> 0]
     \/ /\ copies = [t \in Tables |-> 1] /\ funds = 1
        /\ money = [cost |-> Leverage, margin |-> 0, refund |-> 0]
  /\ torn = FALSE /\ deleted = {} /\ added = {} /\ cleared = FALSE
  /\ at = [m \in Migrators |-> [item |-> "off", looked |-> FALSE, missing |-> FALSE]]
  /\ finished = FALSE /\ overlapped = FALSE
  /\ edits = 0 /\ runs = 0

MigrationNext ==
  \/ \E m \in Migrators :
       \/ StartMigration(m) \/ KillMigration(m) \/ MigrateData(m) \/ SeedFundRecord(m)
       \/ FindPositions(m) \/ MigrateLeveragedPositions(m) \/ ResetSequences(m)
       \/ \E t \in Tables : Look(m, t) \/ Seed(m, t)
  \/ \E t \in Edited : AddRow(t) \/ DeleteRow(t)

MigrationSpec == MigrationInit /\ [][MigrationNext]_migrationVars

-----------------------------------------------------------------------------
\* However often migrations are run the defaults are there once: a key keeps two
\* migrations at a time from inserting them twice, a count does it for one after
\* the other, wherever the first was stopped but in one place.  The first fund
\* record is not counted and has no key, only the devices that come after it are
\* counted: with a migration that ended between the two it is inserted again.
SeededOnce ==
  /\ \A t \in Tables : (overlapped /\ t \notin Keyed) \/ copies[t] <= 1
  /\ overlapped \/ torn \/ funds <= 1

\* A migration that gets to its end leaves nothing out, even when earlier ones
\* were stopped, as long as nothing is deleted that it has seen or will need.  The
\* exceptions are the withdrawals, which recharges that a stopped migration left
\* without them are not given any later, and the fund record, whose failure is ignored.
Complete ==
  finished /\ deleted = {} /\ ~cleared =>
    \A t \in Tables \ {"withdrawals"} : copies[t] >= 1 \/ t \in added

\* Alone, a migration fails only when a default row was deleted: its key is
\* still in use and the count no longer sees it.
FailsOnlyAfterDeletion ==
  (\E m \in Migrators : at[m].item = "failed") => overlapped \/ deleted # {}

\* The money that a position from before leverage cost is its margin and its
\* refund: it is refunded once, by one of any number of migrations, unless two
\* of them find it before the first has written it.
RefundedOnce ==
  ~overlapped => money.margin + money.refund \in {0, money.cost}
=============================================================================
