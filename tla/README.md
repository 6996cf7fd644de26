# A verification of the leveraged trading back end

This directory holds TLA+ models of `gupiao-admin-server`, a Go back end (gin,
gorm on PostgreSQL, Redis, gocron) for leveraged stock trading: a mobile API for
customers, an admin API for operators, and cron jobs.  The models are checked
with TLC on small instances; the theorems are checked with TLAPS for every value
of the constants.  `PROJECT.json` maps every definition to the lines it models.

Contents: [the system](#the-system), [the modules](#the-modules),
[the runs](#the-runs), [the proofs](#the-proofs),
[what the models leave out](#what-the-models-leave-out), [the plan](#the-plan).

## The system

| Component | Source | State it keeps | Operations |
|---|---|---|---|
| Market orders | `api/app/v1/open/mobile/trade.go` | `customers` (balance, frozen balance, results), `trade_positions`, `trade_records` | `PlaceOrder`, `executeMobileOrder` |
| Limit orders | `mobile/limit_order.go`, `cron/limit_order_match.go` | `limit_orders` with the money or shares each holds | place, cancel, match (after placing, and every minute) |
| Management fee | `mobile/management_fee.go`, `cron/management_fee.go` | `daily_management_fees`, one row per customer and day | nightly batch: charge, else cancel all orders, else close everything |
| Margin calls | `mobile/margin_call.go`, `cron/margin_call.go` | `MarginCallLevel` and `Margin` of the positions | every minute: charge each newly crossed level, else cancel, else close everything |
| Positions (admin) | `platform/trade/position.go` | `trade_positions` | save, delete, forced close |
| Transfers | `mobile/finance.go`, `platform/finance/finance.go` | `finance_recharges`, `finance_withdrawals`, frozen balance | request, create by hand, review |
| Customers (admin) | `platform/customer/customer.go` | `customers`, device blocks | create, update, manual deposit, flags, review of identity, delete |
| Identity and login | `mobile/verification.go`, `mobile/auth.go` | identity columns of `customers`, passwords | upload, profile, identity, face check by a third party, register, log in |
| News | `domain/news`, `cron/news_collect.go` | sources, articles, relations, collection logs, advisory locks | collect, upsert, enable, trigger by hand |
| Scheduler | `cron/manager.go` and the jobs | one mutex per job, last stock sync | start of each job, skipped while the previous run is busy |
| Tenants, roles, menus | `domain/admin/menu`, `domain/admin/role`, `db/pgdb/system/*scope*.go`, `common/menu/tree.go` | menu table and buttons, scope of a tenant, grants of a role | edit the table, change a scope and prune the roles, change the grants of a role, show the filtered trees |
| Users and departments | `domain/admin/user`, `domain/admin/department`, `domain/admin/role` | users of the administration, roles, departments | check, then write; count, then delete |
| User cache and captcha | `db/rdb` | Redis copies of the users table, captchas | refresh, look up, verify |
| Securities | `platform/stock/security.go`, `cron/stock_sync.go` | `stock_securities` | synchronise page by page, save, disable, delete |
| Migration | `db/pgdb/system/migrate.go` | the default rows, the leverage of old positions | `main --migrate` |
| Gateway | `api/middleware` | bounded map of rate limiters | look up, expire, evict |
| Charts, articles, settings, watch lists, branding, start-up, utilities | the rest | single rows, files, quotes of external services | plain reads and writes |

**How they interact.**  All components share the database.  The trading handlers,
the reviews of transfers and the batch jobs run as transactions that lock the
rows they read (`SELECT ... FOR UPDATE`, READ COMMITTED), but not in the same
order.  A few handlers read without a lock and save the whole row
(`customer.Deposit`, `SavePosition`, the face verification).  The placement of a
limit order tries to match it at once, in a second transaction; the job tries
again every minute.  No transaction touches the rows of two customers.

The console is apart from the trading: what a user of a tenant is shown depends
on the menu table, on the scope of the tenant and on the grants of his role.  The
scope is changed by the platform in three transactions, the grants by the tenant
in two checks and a transaction, and neither looks at what the other did since.

The rest shares no state but the database: the collectors of news meet each other
on the sources, the migration meets itself and the administrators, the users'
cache follows the users' table through whoever misses an entry, and the identity
of a customer is written by five handlers that read it, do something slow and
write without a lock.

**What is hard about it.**  Five paths settle the same order; freezes are given
back by code that is written out four times; deadlocks are possible by the lock
order and are answered by skipping; unlocked reads overlap with everything; the
batches hold older copies of rows that they change and re-read; fees are rounded
with a minimum, and leverage can make a balance negative.  Advisory locks are
taken in one database session and released in another; deleted rows keep their
keys in the unique indexes; files and rows change in separate steps; seeds are
guarded by counts; third parties answer after the row has changed.  `PROJECT.json` lists
these hazards at their lines, with the properties that cover them or the reason
why none does yet.

**What makes each part correct.**  The frozen balance is what pending orders and
withdrawals hold; the locked shares are what pending sell orders hold; an order
is executed once, has its own record and is never changed again; money only
moves; a level is called once; a fee closes everything or nothing; no debt
except by a realized loss; every transaction acts on rows that do not change
under it; crossed orders are eventually settled.  A role is granted nothing
outside the scope of its tenant, its users are shown nothing outside it either,
a filtered tree is the scope and the menus above it, and enabled menus stay
reachable.  A customer is verified for what was looked at; the disk has the photos
the rows name; a story has one row, related once, and stays withdrawn; defaults
are seeded once and old positions refunded once; the limiter's forgetting is not
noticed; caches and catalogue converge.

## The modules

| Module | Models |
|---|---|
| `TradeMath` | the pure arithmetic: rounding, commissions, stamp duty, lots, market value, margin-call levels |
| `Sums` | the total of a column of a table, as a recursive function |
| `Account` | all rows of one customer, and every operation of the three kinds of actors on them, one action per transaction |
| `Escrow` | the abstract promise of the limit orders: each operation one step on frozen balance, shares and order states |
| `RowLocks` | the same operations as transactions that take row locks one at a time, with deadlocks; refines `Escrow` |
| `Scopes` | menus, buttons, scopes and roles; the transactions that change them; the trees that are computed from them |
| `Identity` | phone, photos, name and verdict of the customers, the files on the disk, the requests under way |
| `News` | the collection of news with its advisory lock, retries, upserts and relations |
| `Migration` | `main --migrate`, item by item, killed, repeated and overlapped |
| `Securities` | the catalogue of securities between its synchronisations and the administrators |
| `IdealLimiter`, `RateLimit` | the promise of a token bucket per client, and the bounded map that implements it |
| `Captcha`, `UserCache` | what Redis keeps |
| `Staff` | the users of the administration, their roles and departments |
| `Services` | the seven parts that share no state (`Migration`, `News`, `RateLimit`, `Captcha`, `Staff`, `UserCache`, `Securities`), one of them watched at a time |
| `MCAccount`, `MCRowLocks`, `MCScopes`, `MCIdentity`, `MCServices` | the small instances for TLC |
| `Iteration` | lemmas about what is computed in rounds: the least natural with a property, a recursive function over `0..n` |
| `MathProofs` | lemmas about `TradeMath` and `Sums` |
| `AccountProofs`, `LedgerProofs` | the theorems about `Account`: types and orders; money and shares |
| `RowLocksProofs`, `ScopesProofs`, `IdentityProofs` | the theorems about the module each is named after |
| `ServicesProofs` | the theorems about `Services` and the parts it is made of |

### Account

`customer`, `position`, `orders`, `withdrawals`, `recharges` are the rows with
the columns that decide what happens; `records` counts the trade records (an id
is the count at creation), `feeDays` is the set of days with a fee row.  `pnl` is
`TotalProfit - TotalLoss`: the code only adds to the two, and nothing reads them.
`net` is a history variable: what came from outside less what left for good
(fees, withdrawals, forgiven debts).  The column `trades` of an order is history
as well: how many trade records executing it made.

A transaction that locks what it reads is one action.  This is an assumption
about the database that `RowLocks` examines: it has the same handlers lock by
lock and implements the one-step `Escrow`.  The exception is `Deposit`, which
reads without a lock and writes the whole row: `ReadDeposit` and `WriteDeposit`,
with the copy in `deposit`.  `AllowOverlap` says whether other transactions may
run in between, `AllowAdminRows` whether administrators write positions and
withdrawals by hand; a property that needs one of them off says so here.
A crash in a transaction is its rollback, so it is the action not taken.

Money is in cents.  Prices are whole cents, so that price times quantity needs no
rounding, and every rate product is rounded as `roundMoney` does.  The prices a
batch reads are chosen anew for each query (`px` for the first, `py` for the
second), because READ COMMITTED takes a snapshot per statement.

### Escrow and RowLocks

`Escrow` has one position and orders of one share; a buy order holds one unit of
money.  `RowLocks` runs a set `Txns` of transactions over the same rows.  `Begin`
starts one and chooses what it will find outside of these rows (`mode`: whether
the limit is crossed, whether the balance covers a fee); `Lock` takes the row it
waits for and decides the next one from what it sees; one `Commit` action per
handler writes its copies and gives the locks back; `Abort` is PostgreSQL making
a transaction on a circle of waits fail.  Who waits for a row waits for its holder
and for those who queued up before, of whom the first has the lock of the tuple.  So
the victim of a deadlock (`Victim`) need not be on the circle of waits for holders
(`OnCircle`): it may be in the queue before one that is.  The order of arrival is
not kept, so anybody in the queue of such a row may be picked, which is more
than PostgreSQL does.  A transaction in the model has seen the
content of a row at the time it locked it, so `ImplementsEscrow` says that
this is as good as seeing everything at once.  The query for a batch's pending
orders takes its result when it starts (`todo`) and looks at each row again when
it has its lock, as PostgreSQL does.

### Scopes

`menus` and `auths` are the menu table and its buttons, `scope` is a tenant's
`SystemTenantMenuScope` and `SystemTenantAuthScope`, `roles` a role's tenant and
its associations.  A deleted row keeps its id, and scopes and roles may go on
naming it: the queries return live rows only, and each operator says which it
reads.  `update` is a change of scope between its transactions
(`SaveTenantMenuScope`, `SaveTenantAuthScope`, `PruneTenantRoleAssociations`; or
`StopUpdate`, for an unknown button, a database error or a crash).  `save` is a
change of grants between its steps (`BeginSave` checks the menus against the
scope, `CheckAuths` the buttons, `SaveRoleMenuAssociations` writes).  The server does
not ask under which node of the tree a button is sent, nor does the model, so a
role may hold buttons of menus outside the scope of menus, as far as the scope of
buttons has them, until a change of scope prunes them, which it does only when
the new scope of menus is not empty (`tenant_scope.go:121`).

`FilterMenus` is `FilterMenusByIDs`: it visits the ids in an order (`Visit`), and walks
up from each that is kept (`Climb`, step by step `Up`).  Go leaves
open in which order a map is visited, so `FilterExact` asks for the same result
in every order, also when menus hang in a circle, which an update allows.
`Shown` is the tree that is built from the top, one level after another (`Down`).
All are recursive functions over numbers of steps.  The
rows a migrated database starts with are constants.

A history variable explains the exceptions in the properties: `drift` has, for each
role, why its grants may exceed the scope (a save overtaken by a change of scope, a
change that stopped halfway, a move from another tenant).  `drift` is cleared by what
makes the role right again: a complete prune, or a save checked against the scope that
is in force.

### Identity

`row` has the identity columns of the customers, `files` the photos on the disk. Most
handlers read, do something slow and write: `req` holds what a request has read.  An
upload is four steps (`SavePhoto` writes the file, `FindPrevious` reads the row,
`NamePhoto` updates it, `RemovePrevious` deletes the old file), and `Stop` may end a
request, or the process, between any two.  `FaceVerified` writes the verdict of the
third party for the material that was read before the call. The whole-row saves of an
administrator (`Update`, `Deposit`) bring an older copy back; a deposit's request
remembers (`late`) whether the verdict in its copy was already one of those that had
been overtaken.  History variables carry the exceptions: `seen` is what a verdict was
given for, `overtaken` who got a verdict for material that had changed while it was on
its way, `restored` whose row was overwritten by an older copy, `disturbed` that two
requests met or one stopped.

### News

A collector goes through `TrySourceLock`, `FetchItems` or `FetchFails`, then for each
item `FindExisting`, `UpdateExisting` or `CreateArticle`, `DropRelations` and
`AddRelations`, and at last `FinishSource` and `ReleaseSourceLock`.  `pg_try_advisory_lock`
belongs to a session and gorm takes any free one from its pool, so taking and
releasing choose a session of `Sessions` each; the lock can be taken again in
the session that has it, and stay behind in one that has not released it.
`unguarded` records the sources that two collectors got into at once, `crossed`
the articles whose relations were written by two, or half.  Deleted rows stay
in the unique indexes (`Absent`), which is what keeps a withdrawn article away: a
collector's insert fails and is counted as a duplicate.

`Existing` looks for the row of an item by its id, by its address and by its hash.  In
the hash are the title and the source (`story` stands for the title) and the ten minutes
of its date (`made`), and a row is found by it only when the date it was last given
(`published`) is less than six hours off (`Near`).  An item may bring another date each
time (`dates`): the adapter of Sina takes the time of the fetch.  `UpdateExisting`
writes the date and leaves the hash as it is.  So the same story under a second address
has a second row when it comes in another ten minutes, and also when its row was given a
date that is too far from its hash meanwhile, which `strayed` records: no lock helps,
and `OneRowPerStory` promises one row only besides these.

### Migration

`at` is where each process is, `copies` the live default rows of each table.  The
first item is one transaction; the others commit by themselves, so a kill
(`KillMigration`) leaves a prefix.  `deleted` has the tables that lost a default row,
`added` those with a row of an administrator's, and `cleared` says that such a row was
deleted again, which may leave an empty table behind a finished migration just
as well.  `MayInsert` is the primary and unique keys, over
deleted rows too.  `SeedFundRecord` is the first fund record (`funds` counts them),
inserted by a statement of its own just before the devices, which are what is counted:
`torn` records that a migration ended between the two, after which the next inserts
the record again.  `MigrateLeveragedPositions` is two steps, as the positions are
read without a lock.  The model shows, beside its properties, that a default row
that is soft-deleted makes every later migration fail at that table when its key
is fixed, or come back when it is not; that a kill between recharges and
withdrawals loses the withdrawals for good (`Complete` excepts them), and that one
between fund record and devices leaves two fund records (`SeededOnce` excepts it).

### Securities

`SyncEastmoneyData` reads a page and writes it, again and again: `ReadPage` and
`WritePage`, in the job (which does not overlap itself: `TryLock`) and for any
administrator.  `Upsert` leaves status and deletion of a known row alone.  A page
holds one security, in the order of the source, which may change between pages.
The symbol is unique as well: a row that an administrator entered with the
symbol of a listed security (`EnterSymbol`; an empty symbol becomes the code) refuses
the page and with it every later page of the run, each time; `CatalogueSettles`
promises the quotes only without such a `clash`.  A form (`OpenStockForm`,
`SaveSecurity`) writes its old quote and state over what came since.

### IdealLimiter and RateLimit

A tick is the time that refills one token.  `limiters` has the clients of the map
with tokens and age; `Cleanup` drops what is older than the TTL.  For a newcomer to a
full map `AllowStranger` first does the same and then, if that made no room, evicts
the oldest (`Oldest`).
`IdealLimiter` never forgets, except for the
oldest of a crowd of `MaxLimiters` that all asked within the TTL.  Looking up a
limiter and asking it is one step: the limiter just looked up is the youngest
and is not evicted.  `RateLimitAssumption` (a TTL refills the burst) holds for the
defaults (5 a minute, burst 10: 25 tokens in five minutes) and for `config.yaml`.

### Captcha, UserCache and Staff

`Verify` is a get and a delete: `met` records that two logins read a captcha before
either deleted it, the only way in which it is accepted twice.  In `UserCache` a
job reads the table (`ReadAllUsers`, or `ReadUser` for one that was missing) and
writes what it read later (`StoreUsers`), so that copies can be written in the wrong
order; nothing is written on an edit.  In `Staff` a user is written
(`SaveUser`) after his role was checked (`CheckRole`), and a department deleted after
its users were counted; `shifted` and `latecomers` record who was overtaken.

## The runs

| Run | Instance | Shows |
|---|---|---|
| `account_one` | 1 security, prices {1,3}, 2 lots, 2 orders, 1 transfer each way, 1 fee day | `FrozenCovered`, `SharesCovered`, `FillsRecordedOnce`, `FillWithinFreeze` |
| `account_two` | 2 securities at independent prices, 1 order, 3 records, deposits and deductions | `MoneyConserved`, `FeeAllOrNothing`, `LevelsRemembered`, `DebtOnlyByLoss` |
| `account_admin` | overlapping deposits, positions and transfers written by hand | `FrozenNeverNegative`, `SettledForGood` |
| `account_deposit` | an overlapping deposit and one order | **violation** of `FrozenCovered` |
| `account_reopened` | buy, sell out, buy | **violation** of `ClosedMeansFlat` |
| `row_locks` | a buy and a sell order with every kind of transaction on them but the margin call, which takes the same locks as the fee | `Exact`, `ImplementsEscrow`, `DeadlocksTakeABatch`, `BystandersUnharmed` |
| `row_locks_live` | the same orders, both crossed for good, without the forced close and the second match | `EveryoneEnds`, `MarketableSettled` |
| `scopes` | 3 menus, 1 button, 1 role, 2 tenants, 4 requests | `GrantsWithinScope`, `ShownWithinScope`, `FilterExact`, `MenusHang` |
| `scopes_overlap` | the same | **violation** of `NarrowingHolds` |
| `scopes_visible` | the same | **violation** of `VisibleIsAssignable` |
| `identity` | 2 customers, 2 phones, 2 people, 4 files, 2 requests at a time, 4 in all | `PhotosOnDisk`, `DiskExact`, `VerifiedWasSeen` |
| `services`: migration | 2 processes, 2 migrations, 1 edit of 4 tables | `SeededOnce`, `Complete`, `FailsOnlyAfterDeletion`, `RefundedOnce` |
| `services`: news | 1 source with a story under 2 ids, one with 2 dates, a window of 1, 2 collectors, 2 sessions, 1 retry, 2 collections, 1 edit | `OneRowPerStory`, `WithdrawnStaysAway`, `RelationsExact`, `CronRunEnds` |
| `services`: limiter | 4 clients, burst 2, TTL 2, 2 limiters | `LimitsLikeIdeal` |
| `services`: captchas, staff | 2 captchas, 2 logins; 2 users, 2 roles, 2 tenants, 2 departments, 3 edits | `AcceptedOnce`, `WellPlaced` |
| `services`: user cache | 2 users, 2 contents, 2 jobs, 2 edits | `CacheConverges` |
| `services`: securities | 2 securities, 2 quotes, 2 pages, the job and an administrator, 2 edits or failures | `CatalogueSettles` |

`services` is one run of seven components that share no state: `watched` picks one at
the start and the others stand still.  The types of every module are checked
besides (`TypeOK`, `TypesOK`), but for those of `Identity`, which are proved only.

**Bounds.**  `MaxOrders`, `MaxRecords`, `MaxWithdrawals`, `MaxRecharges`, `MaxDays`
and `MaxBalance` bound ids, days and the balance a manual deposit may reach.  Two
orders are enough for one to be placed, filled or cancelled while another holds a
freeze, three records for buying, selling out and buying again or for a forced
close of two positions after a trade.  Two prices, three times apart, make every
branch of a batch possible: a fee that is covered, that is covered after
cancelling, and that is not.  The rates are tenths and the minimum commission is
one cent, so that both the minimum and the rounding matter.  In `RowLocks` a
deadlock takes two transactions and the largest circle here three; the instance
has ten transactions in one run.  In `Scopes`, three menus make a path of three or
a circle with a menu beside it, and four requests (`MaxCalls`) suffice to widen a
scope, grant, narrow it and save in between, or to edit the table after that; a
request may take three transactions, which are not counted.  Roles of one tenant
do not affect each other, hence one role, and two tenants it may move between.
In `Identity` four requests suffice for an upload, a change of it, a verdict and a
whole-row save to overlap in pairs, and cannot use more than four files.  One
news source is enough, because what collectors contend for is kept for each
source by itself, and one retry shows the loop.  Dates are counted in tens of
minutes; the dates 0 and 2 and a `Window` of 1 (six hours in the code) make a
date equal or too far off.  The theorem about it has any dates and any window.
The limiter's map holds two of
four clients, so that a newcomer finds it full of young, of old and of mixed
entries.  Two edits make a cache or catalogue stale behind a copy that was
read between them.

**Fairness** is assumed where something has to come about.  In `RowLocks`, the matching job begins again and
again (weak fairness of `Begin`: `gocron` starts it every minute, and `TryLock`
skips a run only while another is busy).  A handler does not stop inside a
transaction (weak fairness of `Commit`).  PostgreSQL breaks every circle: its last member, at least,
finds it when its timer fires (weak fairness of `BreaksCircle`; that others in the
queue are picked before is possible, but nothing relies on it).  PostgreSQL hands a row to its
waiters in turn, so a transaction that waits for a row which is free again and
again gets it (strong fairness of `Lock`).  `MarketableSettled` assumes in
addition that the price stays beyond the limit (`Marketable`); a victim of a
deadlock is retried by the next run of the job.

In `News` the collector of the cron job goes on (`NewsFairness`): its waits, for a
source and for the database, have timeouts.  The others may stop anywhere, since
a lock that they hold makes the job skip the source.  In `UserCache` the job is due every ten minutes (weak
fairness of `ReadAllUsers(CronJob)`), Redis does not refuse it for ever (strong
fairness of `StoreUsers(CronJob)`), a read ends in a write or a failure, and the
entry of a deleted user, which nobody writes again, expires after twelve hours.
In `Securities` the job is due every minute and goes on (`SyncStep`), when the
synchronisation is enabled; failures of the source and the database are bounded
like the edits, those of a taken symbol are not.

**Deadlock checking** is off: a finished account (all bounds used up), or one
whose transactions are over, stops; so do `Scopes`, `Identity` and the parts of
`MCServices` when their requests are used up.

**Findings.**  `scopes_overlap`: a change of grants that was checked before a
narrowing and is saved after its pruning brings back a menu outside the scope
(`domain/admin/menu/role_menu.go:98`); `API_DOCUMENTATION.md:1285` says that no
role keeps one.  `scopes_visible`: the tree of a role shows the menus above those
of the scope, but a tree with any of them is refused when it is sent back
(`tree.go:56`); `API_DOCUMENTATION.md:563` says that the tree avoids just that.
`account_deposit`: `Deposit` overwrites the frozen balance with a
stale copy when an order is placed or settled in between.  `account_reopened`:
a position that was sold out and bought again keeps its disabled status, and
`ForceClosePosition` refuses it as already closed.

## The proofs

`Spec => []TypeOK` (`AccountTypeCorrect`), for any number of securities, orders
and requests and any rates.  The induction carries `TypeInv`: the types, and that
an order that was placed names a listed security, without which the position row
that a fill writes has no type.  The lemmas at the top of `AccountProofs` give
the type of each helper, then there is one lemma per action.

`Spec => []FrozenNeverNegative` (`FrozenSafe`) holds with every overlap and hand
written row: each settlement compares the freeze with the frozen balance or stops
at zero, and a stale copy was itself once a legal row; hence the invariant also
says that the copy in `deposit` has a frozen balance that is not negative.

`Spec => []FrozenCovered` (`FrozenExact`) assumes `~AllowOverlap` and
`~AllowAdminRows`; `account_deposit` shows that the first is needed, and a
withdrawal created by hand freezes nothing.  The invariant adds that a deposit in
flight carries the frozen balance of the row.  `MathProofs` proves what the step
needs of a total: how it changes with one row, and that it is zero when every
row is.

`Spec => []SharesCovered` (`SharesExact`) assumes `~AllowAdminRows` only: the
deposit that overtakes others writes the customer, not the position.
`SharesInv` is a conjunct per position (`Backed`: the quantity is what is available and
what the pending sells lock, the margin is not negative, and without shares
there is neither cost nor margin) and that a pending sell locks its whole quantity, so
that a batch that closes every open position leaves no sell order with a lock.

`Spec => []MoneyConserved` (`MoneyStays`) assumes `~AllowOverlap` and
`~AllowAdminRows`: the write of an overtaken deposit undoes what was booked in between, as
`account_deposit` shows for the freeze.  It cannot be proved by itself.  A batch gives back
the freeze of all pending orders at once, and that this is no more than the frozen
balance is `FrozenCovered`; closing the open positions returns all the margin there
is only if the others hold none, which is `SharesInv`.  `MoneyInv` has all of these
and what a deposit in flight has read.  Of the rounding it needs that the share
of the margin that a sale takes is not more than the margin (`RoundDivShare`).

`Spec => FillWithinFreeze` (`FillsPaid`) has no assumption beyond those on the
constants: fees, prices and overlaps are arbitrary.  `AskedInv` says that a pending buy
order holds `BuyDebit` at its limit; a fill is at a price no higher, and
`MathProofs` shows that every fee grows with the amount it is charged on
(`DivMonotone`, `RatedMonotone`, `TradeFeeMonotone`), through rounding, minimum
commission and the exchange's levies.  The fee settings are constants, though: what happens
when they are changed between placement and fill is among the hazards without a
property.

`Spec => FeeAllOrNothing` (`FeeWhole`), `Spec => LevelsRemembered` (`LevelsStay`) and
`Spec => DebtOnlyByLoss` (`DebtIsLoss`) assume `~AllowAdminRows`.  Each is a case per
action under an invariant: `SharesInv`, with `AskedInv` for the levels (a fill buys at
least one share, so a position that had shares keeps its level or grows), and with a
balance in the deposit's copy that is not negative for the debts (a stale copy
may repay a debt but never makes one).

`Spec => []FillsRecordedOnce` (`FillsRecorded`): an order is executed by the action that
finds it pending and leaves it filled, and no other touches `trades`.  Records are
numbered by a counter that only grows, and an order that is not filled has no record yet
(the strengthening), so the number a fill writes is new. `Spec => SettledForGood`
(`SettledOnce`): one case per action.

`Spec => []TypeOK` (`LocksTypeCorrect`), `Spec => ImplementsEscrow`
(`LocksImplementEscrow`) and `Spec => []Exact` (`LocksAreExact`) of `RowLocks`, for any
orders and any set of transactions.  Four conjuncts of `LockInv`, besides the types, are
the argument of two-phase locking for these handlers: no row is locked twice (`Alone`);
a row that is locked is as it was read (`Faithful`); who waits for nothing has locked
all it is going to write (`Asked`); and a placement, which writes its new order without
a lock, is the only one who knows of it (`Known`).  The last is particular to this code:
a fee or a margin call lists the pending orders without locking them as a set, and that
no order joins them before it commits (`Listed`) holds only because a placement needs
the customer's row, which the batch has locked before the position.  With `LockInv` a
commit is one step of `Escrow`, and everything else a stutter; `Exact` follows from
`Escrow`'s own steps and the sums over sets of orders. The proofs of these let any
transaction be aborted at any time, so they do not rest on which one the deadlock
detector picks.

`Spec => DeadlocksTakeABatch` (`NoDeadlockWithoutBatch`) and `Spec =>
BystandersUnharmed` (`BystandersSafe`) do rest on it: an `Abort` needs a circle of waits
(`OnCircle`) and a victim that is on it or queued for a row that one on it wants.  The
invariant is the order of the locks (`CustomerFirst`): all but the batches ask for their
order first, if at all, then for the customer and then for the position.  Give the rows
a rank in this order (`Rank`): as long as no batch that has the customer goes back for
an order (`GoesBack`), who holds a row waits for one of a higher rank (`WaitsRise`), so
the waits cannot lead back (`CircleGoesBack`). A placement, or a batch that the balance
covers, wants the customer first and then at most the position. When it wants the
position it has the customer, and then whoever has the position waits for nobody, so
nobody who wants the position is on a circle (`NoCircleBehindCustomer`) and there is
nothing to be the victim of.  What is left is the queue for the customer, and there it
has locked nothing: a fee holds the customer and wants an order, a match that has the
order waits for the customer behind a placement, and the placement may be the one that
fails.

`Spec => []TypeOK` (`ScopesTypeCorrect`), `Spec => []GrantsWithinScope`
(`GrantsScoped`) and `Spec => []MenusHang` (`MenusStayHung`), for any number of
menus, buttons, roles and tenants.  `MenusHang` is inductive with the types: each
edit checks the menu it hangs under and the menus that hang under it.
`GrantsWithinScope` is not, because the next step writes what an earlier one
checked.  `ScopeInv` adds: what a fresh save holds is within the scope it was
checked against, so far as it was checked (`SaveWithin`); a change of scope has
committed what its phase says (`UpdateSaved`), so that the prune cuts the roles to
the scope in force; and roles of other tenants
are within their scope while one tenant's scope is changed (`RoleWithin`).

`Spec => []FilterExact` (`FilterAlwaysExact`), for a menu table of any size in which
menus may hang in circles, and for every order of the map.  A walk (`Climbed`) keeps
nothing but what is above its start and leaves no gap below where it is, and each of its
steps keeps another menu until it ends; so it has ended after as many steps as there are
menus, which are finitely many.  Of the visits (`Filtered`), what is kept but lacks the
menu above it can only be a menu whose turn is still to come, so none is left when all
had theirs; a menu that is kept on the way has been climbed through already. `Spec =>
[]ShownWithinScope` (`ShownIsScoped`) needs of this that nothing is kept but what is
allowed or above it, and that a tree shows only rows it is made of; it holds whatever
role and scope contain, so it needs the types only.

What is computed in rounds has no induction here, because the library's induction
theorems are out of the provers' reach.  `Iteration` replaces it: if a fact about the
rounds failed, there would be a first round at which it fails (`LeastElement`), and the
step from the round before excludes that.  `LeastElement` itself follows from the
library's theorem that the order of the naturals is well-founded.

`LimitSpec => LimitsLikeIdeal` (`LimiterImplementsIdeal`), for any number of clients,
any burst and any TTL that refills it.  The mapping gives a client that is not in
the map a full bucket and an age beyond the TTL, so the theorem says that dropping
a limiter is not noticed, and that needs an invariant: a bucket has a token for
every tick since its last use or is full (`RefilledByAge`,
`AlwaysRefilledByAge`), so that one that is old enough to be dropped is full.  Each
step then maps: a cleanup to a stutter, an eviction of an old entry to a
forgotten client that no one could tell, an eviction of a young one to
the exception that `IdealLimiter` allows.

`IdentitySpec => []TypeOK` (`IdentityTyped`), for any number of customers, photos,
people and requests.  `IdentitySpec => []VerifiedWasSeen`
(`VerdictsAreForWhatWasSeen`): the invariant adds that a verdict in the copy that a
deposit is going to write back is as good as one in the row (`CopiesWereSeen`).
`IdentitySpec => []PhotosOnDisk` (`PhotosStay`) and `IdentitySpec => []DiskExact`
(`NothingLeftOnDisk`) need to know whose a file is, which the code keeps nowhere: the
invariant says that there is an assignment `own` of the files to customers and
sides that rows, uploads and copies respect (`DiskInvariant`), so what an upload
removes can only be missed by the row of its own customer.  There
`UploadsSafe` says that a new file is on the disk and in nobody's way until the
row names it, and that what is to be removed has left the row; `Undisturbed`, for
requests that never met or stopped, that a file on the disk is named, just saved
or about to be removed.

`CaptchaSpec => []AcceptedOnce` (`CaptchaUsedUp`): a captcha that no two logins
had at a time has one reader, and none after it let somebody in (`OneReader`).
`StaffSpec => []WellPlaced` (`StaffWellPlaced`): what a request has looked up is still
true when it writes, or who changed it is in `shifted` or `latecomers`.

`MigrationSpec => []SeededOnce`, `[]Complete`, `[]FailsOnlyAfterDeletion` and
`[]RefundedOnce` (`DefaultsOnce`, `NothingLeftOut`, `FailureExplained`, `OneRefund`),
for any number of processes, runs and edits.  They share `MigrationInv`: the first
transaction has left all of its tables or none (`DataTogether`), and a migration that is
at an item can rely on every table before it, and on what it counted unless others
interfered (`Good`).  `FundsInv` is for the fund record: once there is one there are
devices, or a migration is about to insert them, as long as none ended there (`torn`).
`Complete` speaks of a database from which no row was deleted, neither a default nor one
of an administrator's that took its place.

`NewsSpec => []OneRowPerStory`, `[]WithdrawnStaysAway` and `[]RelationsExact`
(`OneRowForAStory`, `WithdrawnIsGone`, `RelatedOnce`), for any sources, items,
collectors and sessions of the pool.  `NewsInv` says that the lock of a source that was
never left behind has one collector behind it, and some session (`Guarded`); that what
this collector took for a new story of that date still is new (`StillNew`), although
`FindExisting` was a query before; that a row that did not stray has a date near the one
in its hash, where it is looked for (`Findable`); that ids and addresses are apart,
deleted rows included (`KeysApart`), which is why a withdrawn row stays away; and where
the relations are between the two statements that write them (`RelationsInv`).

`ServicesSpec => []TypesOK` (`TypesAlways`): the types of the seven parts, for any size
of each.  Most of it is in the invariants above; what the code counts is bounded by an
argument of its own.  The rows of positions, records and settings have no key that would
refuse them; that there are no more than migrations were run (`OnceARun`) is proved by
counting a migration that may still insert together with the rows that are there
(`Paced`). A story is related to its security no more often than there are collectors,
counting those that are about to relate it (`RelationsBounded`).  `MoneyShape` says that
the margin of an old position never exceeds what was invested, whatever overlaps;
`CacheShape` that what jobs carry and Redis keeps are copies of users; `StockShape` that
a synchronisation has no more rows and pages than the source lists.

The assumptions are those on the constants (`AccountAssumption`, `TradeMathAssumption`,
`RowLocksAssumption`, `ScopesAssumption`, `RateLimitAssumption`, `IdentityAssumption`,
`CaptchaAssumption`, `StaffAssumption`, `MigrationAssumption`, `NewsAssumption`,
`UserCacheAssumption`, `SecuritiesAssumption`), which TLC evaluates in every run of
these modules: numbers are natural, rates have a scale, prices and quantities are
positive, marks such as `Nobody` or `"idle"` are not names.

Menus, transactions, migrations, collectors and securities are
finite sets, which is what a database and its connections are; the counting arguments
rest on it.

Every safety property that a run checks is stated by a theorem.  Only model-checked is
liveness under fairness, which is out of the prover's reach: `EveryoneEnds` and
`MarketableSettled` of `RowLocks`, `CronRunEnds` of `News`, `CacheConverges` of
`UserCache` and `CatalogueSettles` of `Securities`.  The properties of the violation
runs are, of course, not proved: `FrozenCovered` is one of them and is proved where it
holds.

## What the models leave out

* Trading hours, disabled securities and the buy bans (ST shares, new listings,
  daily rise) only refuse an order; the models accept a superset.
* A form of `SavePosition` without an id, which gives a security that has a position a
  second row (no index is unique): in the model a form carries the id of the row.
* `customer_fund_records` (but the first, in `Migration`), remarks and display columns (`ProfitLoss`, `ProfitRate`,
  `MarketValue`, `CurrentPrice`): written, never read by these operations.
* Floating point: amounts are exact here; `roundMoney` is applied where the code
  applies it, except that cost prices keep no fraction below a cent.
* In `RowLocks`, one position: the batches lock all of the customer's positions in
  one query.  The trade records, fund records and fee rows are inserts that wait
  for no one.
* In `Scopes`: two menu edits, two changes of scope or two changes of grants at
  once (the unique index that would refuse the second scope is missing, so the
  union of two scopes can stay); the tenants' own rows; the level, order and
  display columns of a menu.
* In `Identity`: login, passwords, the bank card and the trade password; the
  content of a photo.  In `News`: counters, logs, what the adapters extract; that the
  six hours are counted in seconds, so that a row whose date is 36 tens of minutes off may or may not be found.  In
  `Migration`: the schema, the sequences and the menus; a table's defaults are
  one row.  Every migration also resets the margin-call settings, and makes the menus
  anew with scopes and grants for the first tenant and role only; neither is in
  a property.
* In `RateLimit`: limiters of equal rate and burst share a map in the code, and
  several maps are independent.  In `Staff`: names, passwords and tokens.  In
  `Securities`: what a row has beside its quote, status and deletion.
* The loop of the nightly fee over the customers and its schedule; the watch
  list, articles and settings (single rows, written as they come); charts and
  order books, which are passed through; configuration, logging, certificates and
  ids.  These are the components that `PROJECT.json` lists as `not_modelled` or
  `partly`.

## The plan

1. *Account*, *Escrow*, *RowLocks*, *Scopes* (done), with the theorems above.
2. *Identity*, *News*, *Migration*, *RateLimit*, *Captcha*, *UserCache*, *Staff*,
   *Securities* (done), and that the limiter implements its ideal.
3. *Batches*: the nightly fee over all customers, an error in one of them, two
   servers, a restart at midnight.
4. Proofs (done): every invariant and action property that a run checks, and the
   two refinements.  Left: whatever *Batches* promises.
