SPECIFICATION MCSpec
CONSTANTS
  A = A  u1 = u1  u2 = u2  l1 = l1  l2 = l2  t = t  r1 = r1  t1 = t1  d1 = d1
  Migrators = {m1, m2}
  Edited = {"articles", "sources", "roles", "customers"}
  MaxRuns = 2
  MaxEdits = 1
  Sources = {A}
  FeedItems <- MCItems
  Window = 1
  Collectors = {k1, k2}
  Cron = k1
  Sessions = {c1, c2}
  MaxRetries = 1
  MaxCollections = 2
  MaxNewsEdits = 1
  Clients = {i1, i2, i3, i4}
  Burst = 2
  TTL = 2
  MaxLimiters = 2
  Captchas = {x1, x2}
  Logins = {q1, q2}
  Users = {boss, clerk1}
  Boss = boss
  Roles = {r1, r2}
  Tenants = {t1, t2}
  Departments = {d1, d2}
  Clerks = {a1, a2}
  MaxStaffEdits = 3
  CachedUsers = {v1, v2}
  Contents = {y1, y2}
  Jobs = {j1, j2}
  CronJob = j1
  MaxUserEdits = 2
  Securities = {z1, z2}
  Quotes = {p1, p2}
  Syncs = {o1, o2}
  CronSync = o1
  MaxPages = 2
  MaxStockEdits = 2
CHECK_DEADLOCK FALSE
INVARIANTS
  TypesOK
  
  WithdrawnStaysAway
  RelationsExact
  SeededOnce
  Complete
  FailsOnlyAfterDeletion
  RefundedOnce
  AcceptedOnce
  WellPlaced
PROPERTIES
  CronRunEnds
  LimitsLikeIdeal
  CacheConverges
  CatalogueSettles
