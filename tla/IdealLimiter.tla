---------------------------- MODULE IdealLimiter ----------------------------
(***************************************************************************)
(* What rate limiting promises: every client has a bucket that is never    *)
(* forgotten, holds Burst requests and gets one more with every tick.  The *)
(* one exception is a crowd: while MaxLimiters others have all asked       *)
(* within the last TTL ticks, a newcomer may cost the one of them that has *)
(* been quiet for the longest his account, and he starts afresh.           *)
(***************************************************************************)
EXTENDS Naturals, FiniteSets

CONSTANTS Clients, Burst, TTL, MaxLimiters

VARIABLES
  bucket,   \* the requests each client may make at once
  quiet,    \* the ticks since he asked, counted up to TTL + 1
  answer    \* the last answer

idealVars == <<bucket, quiet, answer>>

Least(m, n) == IF m <= n THEN m ELSE n

Init ==
  /\ bucket = [k \in Clients |-> Burst]
  /\ quiet = [k \in Clients |-> TTL + 1]
  /\ answer = [client |-> "nobody", allowed |-> FALSE]

Tick ==
  /\ bucket' = [k \in Clients |-> Least(Burst, bucket[k] + 1)]
  /\ quiet' = [k \in Clients |-> Least(TTL + 1, quiet[k] + 1)]
  /\ UNCHANGED answer

Crowd(k) == {j \in Clients \ {k} : quiet[j] <= TTL}

Forgettable(k) ==
  IF Cardinality(Crowd(k)) < MaxLimiters THEN {}
  ELSE {o \in Crowd(k) : \A j \in Crowd(k) : quiet[j] <= quiet[o]}

\* k asks, and the clients in F are forgotten for him.
Ask(k, F) ==
  LET allowed == bucket[k] > 0
  IN /\ bucket' = [j \in Clients |-> IF j \in F THEN Burst
                                     ELSE IF j = k /\ allowed THEN bucket[j] - 1
                                     ELSE bucket[j]]
     /\ quiet' = [j \in Clients |-> IF j \in F THEN TTL + 1 ELSE IF j = k THEN 0 ELSE quiet[j]]
     /\ answer' = [client |-> k, allowed |-> allowed]

Next ==
  \/ Tick
  \/ \E k \in Clients :
       Ask(k, {}) \/ \E o \in Forgettable(k) : Ask(k, {o})

Spec == Init /\ [][Next]_idealVars
=============================================================================
