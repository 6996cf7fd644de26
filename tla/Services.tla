------------------------------ MODULE Services ------------------------------
(***************************************************************************)
(* The parts around the accounts that share no state with each other: the  *)
(* migrations, the collection of news, a rate limiter, the captchas, the   *)
(* staff, the copy of the users in Redis and the catalogue of securities.  *)
(* One of them is watched from the start and the others stand still.       *)
(***************************************************************************)
EXTENDS Migration, News, RateLimit, Captcha, Staff, UserCache, Securities

VARIABLE watched

servicesVars == <<watched, migrationVars, newsVars, limitVars, captchaVars, staffVars,
                  cacheVars, stockVars>>

ServicesInit ==
  /\ watched \in {"migration", "news", "limiter", "captcha", "staff", "cache", "stock"}
  /\ MigrationInit /\ NewsInit /\ LimitInit /\ CaptchaInit
  /\ StaffInit /\ CacheInit /\ StockInit

MigrationWatched ==
  /\ watched = "migration" /\ MigrationNext
  /\ UNCHANGED <<watched, newsVars, limitVars, captchaVars, staffVars, cacheVars, stockVars>>

NewsWatched ==
  /\ watched = "news" /\ NewsNext
  /\ UNCHANGED <<watched, migrationVars, limitVars, captchaVars, staffVars, cacheVars, stockVars>>

LimiterWatched ==
  /\ watched = "limiter" /\ LimitNext
  /\ UNCHANGED <<watched, migrationVars, newsVars, captchaVars, staffVars, cacheVars, stockVars>>

CaptchaWatched ==
  /\ watched = "captcha" /\ CaptchaNext
  /\ UNCHANGED <<watched, migrationVars, newsVars, limitVars, staffVars, cacheVars, stockVars>>

StaffWatched ==
  /\ watched = "staff" /\ StaffNext
  /\ UNCHANGED <<watched, migrationVars, newsVars, limitVars, captchaVars, cacheVars, stockVars>>

CacheWatched ==
  /\ watched = "cache" /\ CacheNext
  /\ UNCHANGED <<watched, migrationVars, newsVars, limitVars, captchaVars, staffVars, stockVars>>

StockWatched ==
  /\ watched = "stock" /\ StockNext
  /\ UNCHANGED <<watched, migrationVars, newsVars, limitVars, captchaVars, staffVars, cacheVars>>

ServicesNext ==
  \/ MigrationWatched \/ NewsWatched \/ LimiterWatched
  \/ CaptchaWatched \/ StaffWatched \/ CacheWatched \/ StockWatched

ServicesSpec == ServicesInit /\ [][ServicesNext]_servicesVars

-----------------------------------------------------------------------------
\* Every component keeps to its types.
TypesOK ==
  /\ MigrationTypeOK /\ NewsTypeOK /\ LimitTypeOK /\ CaptchaTypeOK
  /\ StaffTypeOK /\ CacheTypeOK /\ StockTypeOK
=============================================================================
