----------------------------- MODULE MCServices -----------------------------
(* Services on small instances, with one initial state of each part that is *)
(* not watched.                                                             *)
EXTENDS Services

CONSTANTS A, u1, u2, l1, l2, t, r1, t1, d1

\* One story that the source brings under two ids and addresses, once with a date
\* and once with the time of a later fetch.
MCItems == {[source |-> A, uid |-> u1, url |-> l1, story |-> t, dates |-> {0, 2}],
            [source |-> A, uid |-> u2, url |-> l2, story |-> t, dates |-> {0}]}

MCInit ==
  /\ ServicesInit
  /\ watched # "migration" => copies["tenants"] = 0
  /\ watched # "staff" => /\ \A r \in Roles : roleTenant[r] = t1
                          /\ staff[Boss].role = r1 /\ staff[Boss].dept = d1
                          /\ \A d \in Departments : department[d] = "live"
  /\ watched # "cache" => user = EmptyCopy /\ list = {}
  /\ watched # "stock" => listing = << >>

MCSpec ==
  /\ MCInit /\ [][ServicesNext]_servicesVars
  /\ WF_newsVars(watched = "news" /\ CollectorStep(Cron))
  /\ WF_cacheVars(watched = "cache" /\ ReadAllUsers(CronJob)) /\ StoreFairness
  /\ WF_stockVars(watched = "stock" /\ SyncStep)
=============================================================================
