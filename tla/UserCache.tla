----------------------------- MODULE UserCache ------------------------------
(***************************************************************************)
(* The copy of the users that Redis keeps: an entry for each and a list of *)
(* all.  A job writes both every ten minutes, and whoever misses an entry  *)
(* or the list writes it.  Nothing is written or removed when a user       *)
(* changes, and an entry goes when it is twelve hours old.                 *)
(*                                                                         *)
(* The users are changed by Staff, here in any way.  What the copy has of  *)
(* a user, his names and his role, is one value.                           *)
(***************************************************************************)
EXTENDS Naturals, FiniteSets, Functions

CONSTANTS
  CachedUsers, Contents,
  Jobs, CronJob,   \* those that write the cache
  MaxUserEdits     \* bound

ASSUME UserCacheAssumption == CronJob \in Jobs /\ MaxUserEdits \in Nat

VARIABLES
  user,        \* the content of each live user
  info,        \* the cached users
  list,        \* the cached list, alone in a set, or {}
  job,         \* what each job has read
  userEdits

cacheVars == <<user, info, list, job, userEdits>>

EmptyCopy == [u \in {} |-> CHOOSE x \in Contents : TRUE]
Jobless == [reads |-> "nothing", users |-> EmptyCopy]

CacheTypeOK ==
  /\ Cardinality(list) <= 1
  /\ \A copy \in list \cup {job[j].users : j \in Jobs} \cup {user, info} :
       DOMAIN copy \subseteq CachedUsers /\ copy \in [DOMAIN copy -> Contents]
  /\ \A j \in Jobs : job[j].reads \in {"nothing", "one", "all"}
  /\ userEdits \in 0..MaxUserEdits

Rows == <<user, userEdits>>

\* The copy old with the users of the copy new written over it.
Over(new, old) ==
  [u \in DOMAIN new \cup DOMAIN old |-> IF u \in DOMAIN new THEN new[u] ELSE old[u]]

-----------------------------------------------------------------------------
\* CacheAllUsers, by the job at its time or for a list that is missing.
ReadAllUsers(j) ==
  /\ job[j] = Jobless /\ (j = CronJob \/ list = {})
  /\ job' = [job EXCEPT ![j] = [reads |-> "all", users |-> user]]
  /\ UNCHANGED <<info, list, Rows>>

\* cacheUserByID, for a user that is missing.
ReadUser(j, u) ==
  /\ job[j] = Jobless /\ j # CronJob
  /\ u \in DOMAIN user \ DOMAIN info
  /\ job' = [job EXCEPT ![j] = [reads |-> "one", users |-> Restrict(user, {u})]]
  /\ UNCHANGED <<info, list, Rows>>

\* Fault: the entries of the users are written once and kept.
StoreUsersOnce(j) ==
  /\ job[j] # Jobless
  /\ info' = Over(info, job[j].users)
  /\ list' = IF job[j].reads = "all" THEN {job[j].users} ELSE list
  /\ job' = [job EXCEPT ![j] = Jobless]
  /\ UNCHANGED Rows

StoreUsers(j) ==
  /\ job[j] # Jobless
  /\ info' = Over(job[j].users, info)
  /\ list' = IF job[j].reads = "all" THEN {job[j].users} ELSE list
  /\ job' = [job EXCEPT ![j] = Jobless]
  /\ UNCHANGED Rows

StoreFails(j) ==
  /\ job[j] # Jobless
  /\ job' = [job EXCEPT ![j] = Jobless]
  /\ UNCHANGED <<info, list, Rows>>

ExpireUser(u) ==
  /\ u \in DOMAIN info
  /\ info' = Restrict(info, DOMAIN info \ {u})
  /\ UNCHANGED <<list, job, Rows>>

ExpireList ==
  /\ list # {} /\ list' = {}
  /\ UNCHANGED <<info, job, Rows>>

EditUser(changed) ==
  /\ userEdits < MaxUserEdits /\ userEdits' = userEdits + 1
  /\ user' = changed
  /\ UNCHANGED <<info, list, job>>

-----------------------------------------------------------------------------
\* The cache may have been written in an earlier life of the server.
CacheInit ==
  /\ user \in UNION {[S -> Contents] : S \in SUBSET CachedUsers}
  /\ info \in {EmptyCopy, user} /\ list \in {{}, {user}}
  /\ job = [j \in Jobs |-> Jobless]
  /\ userEdits = 0

CacheNext ==
  \/ \E j \in Jobs :
       \/ ReadAllUsers(j) \/ StoreUsers(j) \/ StoreFails(j)
       \/ \E u \in CachedUsers : ReadUser(j, u)
  \/ \E u \in CachedUsers :
       \/ ExpireUser(u)
       \/ EditUser(Restrict(user, DOMAIN user \ {u}))
       \/ \E x \in Contents : EditUser(Over([v \in {u} |-> x], user))
  \/ ExpireList

\* Redis does not fail the job for ever; every reading comes to its end; an entry
\* that is not written again expires.
StoreFairness ==
  /\ SF_cacheVars(StoreUsers(CronJob))
  /\ \A j \in Jobs : WF_cacheVars(StoreUsers(j) \/ StoreFails(j))
  /\ \A u \in CachedUsers : WF_cacheVars(u \notin DOMAIN user /\ ExpireUser(u))

\* The job is due again and again.
CacheSpec ==
  CacheInit /\ [][CacheNext]_cacheVars /\ WF_cacheVars(ReadAllUsers(CronJob)) /\ StoreFairness

-----------------------------------------------------------------------------
\* Whatever older copies were written on the way, the cache comes to agree with
\* the data base for good once the users are not edited any more, the deleted
\* ones included.
CacheConverges == <>[](
  /\ \A u \in DOMAIN info : u \in DOMAIN user /\ info[u] = user[u]
  /\ list \subseteq {user})
=============================================================================
