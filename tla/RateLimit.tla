----------------------------- MODULE RateLimit ------------------------------
(***************************************************************************)
(* A RateLimiter: a map from clients to token buckets with the time of     *)
(* their last request.  Buckets of clients that have been quiet for longer *)
(* than the TTL are thrown away from time to time, and the map holds       *)
(* MaxLimiters at most: a newcomer to a full map costs the oldest its      *)
(* place.                                                                  *)
(*                                                                         *)
(* The unit of time is what it takes to refill one token.  Taking the      *)
(* bucket from the map and the token from the bucket is one step, although *)
(* the map is not locked in between: the bucket just taken is the youngest *)
(* of the map.                                                             *)
(***************************************************************************)
EXTENDS Integers, FiniteSets

CONSTANTS Clients, Burst, TTL, MaxLimiters

\* A bucket is full again before it is thrown away: the rate times five minutes
\* is at least the burst, as it is for the default settings.
ASSUME RateLimitAssumption ==
  /\ Burst \in Nat \ {0} /\ TTL \in Nat /\ Burst <= TTL
  /\ MaxLimiters \in Nat \ {0}
  /\ IsFiniteSet(Clients) /\ "nobody" \notin Clients

VARIABLES
  limiters,   \* a function on the clients that are in the map
  answer

limitVars == <<limiters, answer>>

Entries == [tokens : 0..Burst, age : 0..(TTL + 1)]

LimitTypeOK ==
  /\ DOMAIN limiters \subseteq Clients
  /\ limiters \in [DOMAIN limiters -> Entries]
  /\ answer \in [client : Clients \cup {"nobody"}, allowed : BOOLEAN]

Lesser(m, n) == IF m <= n THEN m ELSE n

-----------------------------------------------------------------------------
LimitInit ==
  /\ limiters = [k \in {} |-> [tokens |-> Burst, age |-> 0]]
  /\ answer = [client |-> "nobody", allowed |-> FALSE]

Tick ==
  /\ limiters' = [k \in DOMAIN limiters |->
                    [tokens |-> Lesser(Burst, limiters[k].tokens + 1),
                     age |-> Lesser(TTL + 1, limiters[k].age + 1)]]
  /\ UNCHANGED answer

\* The keys that cleanupLocked leaves.
Kept == {k \in DOMAIN limiters : limiters[k].age <= TTL}

\* Fault: the age is compared the wrong way.
CleanupYoung ==
  /\ limiters' = [k \in DOMAIN limiters \ Kept |-> limiters[k]]
  /\ UNCHANGED answer

Cleanup ==
  /\ limiters' = [k \in Kept |-> limiters[k]]
  /\ UNCHANGED answer

Oldest == {o \in Kept : \A k \in Kept : limiters[k].age <= limiters[o].age}

\* Fault: the bucket may be overdrawn.
AllowOverdraft(k) ==
  /\ k \in DOMAIN limiters
  /\ limiters' = [limiters EXCEPT ![k] = [tokens |-> @.tokens - 1, age |-> 0]]
  /\ answer' = [client |-> k, allowed |-> TRUE]

\* A client in the map.
AllowKnown(k) ==
  LET allowed == limiters[k].tokens > 0
  IN /\ k \in DOMAIN limiters
     /\ limiters' = [limiters EXCEPT
          ![k] = [tokens |-> IF allowed THEN limiters[k].tokens - 1 ELSE 0, age |-> 0]]
     /\ answer' = [client |-> k, allowed |-> allowed]

\* A new bucket for k, beside those that stay.
AllowNew(k, staying) ==
  /\ limiters' = [j \in staying \cup {k} |->
                    IF j = k THEN [tokens |-> Burst - 1, age |-> 0] ELSE limiters[j]]
  /\ answer' = [client |-> k, allowed |-> TRUE]

AllowStranger(k) ==
  /\ k \in Clients \ DOMAIN limiters
  /\ \/ Cardinality(DOMAIN limiters) < MaxLimiters /\ AllowNew(k, DOMAIN limiters)
     \/ /\ Cardinality(DOMAIN limiters) >= MaxLimiters
        /\ Cardinality(Kept) < MaxLimiters
        /\ AllowNew(k, Kept)
     \/ /\ Cardinality(DOMAIN limiters) >= MaxLimiters
        /\ Cardinality(Kept) >= MaxLimiters
        /\ \E o \in Oldest : AllowNew(k, Kept \ {o})

LimitNext ==
  \/ Tick \/ Cleanup
  \/ \E k \in Clients : AllowKnown(k) \/ AllowStranger(k)

LimitSpec == LimitInit /\ [][LimitNext]_limitVars

-----------------------------------------------------------------------------
\* Who is not in the map counts as one whose bucket is full and who has long been
\* quiet.
Ideal == INSTANCE IdealLimiter WITH
  bucket <- [k \in Clients |-> IF k \in DOMAIN limiters THEN limiters[k].tokens ELSE Burst],
  quiet <- [k \in Clients |-> IF k \in DOMAIN limiters THEN limiters[k].age ELSE TTL + 1]

\* Forgetting clients is not noticed: everybody is granted what a bucket that is
\* never thrown away would grant him, unless the map overflows with clients that
\* have all asked of late.
LimitsLikeIdeal == Ideal!Spec

\* A bucket has got a token for every tick since it was used, so that one that is
\* old enough to be thrown away is full.
RefilledByAge == \A k \in DOMAIN limiters :
  limiters[k].tokens >= Lesser(Burst, limiters[k].age)
=============================================================================
