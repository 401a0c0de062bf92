----------------------------- MODULE RateLimit -----------------------------
(***************************************************************************)
(* RateLimitGuard: a map from keys to buckets in the memory of the         *)
(* process, swept of expired buckets now and then by the requests          *)
(* themselves.  canActivate is synchronous, so a request is one action.    *)
(***************************************************************************)
EXTENDS Integers, FiniteSets, Functions

CONSTANTS
  Keys,           \* a handler together with the address of a client
  Limit, Ttl,     \* of each key, from @RateLimit or from the defaults
  SweepInterval,  \* SWEEP_INTERVAL_MS
  MaxBuckets,     \* MAX_BUCKETS_BEFORE_SWEEP
  MaxTime,        \* bound: the last instant of the clock
  MaxRequests,    \* bound: requests of a key within one window
  MaxRestarts     \* bound: restarts of the process

ASSUME LimitsAssumption ==
  /\ Limit \in [Keys -> Nat \ {0}]
  /\ Ttl \in [Keys -> Nat \ {0}]

ASSUME TableAssumption ==
  /\ SweepInterval \in Nat \ {0}
  /\ MaxBuckets \in Nat \ {0}
  /\ {MaxTime, MaxRequests, MaxRestarts} \subseteq Nat
  /\ MaxTime >= SweepInterval

VARIABLES
  count, resetAt,  \* the buckets; a key without a bucket has count 0
  lastSweep,
  now,             \* Date.now()
  answer,          \* what the latest request was told
  admitted,        \* history: requests admitted at each instant
  restarts         \* times the process was restarted

tableVars == <<count, resetAt, lastSweep>>
vars == <<tableVars, now, answer, admitted, restarts>>

-----------------------------------------------------------------------------
\* Date.now() is far from 0 when the process starts, so that the first
\* request always finds a sweep due.
Start == SweepInterval
Clock == Start..MaxTime

Buckets == {k \in Keys : count[k] > 0}

Replies ==
  [key : Keys, ok : BOOLEAN, remaining : Nat, wait : Nat] \union {[ok |-> TRUE]}

TypeOK ==
  /\ count \in [Keys -> Nat]
  /\ resetAt \in [Keys -> Nat]
  /\ lastSweep \in Nat /\ now \in Clock
  /\ lastSweep <= now
  /\ answer \in Replies
  /\ admitted \in [Keys -> [Clock -> Nat]]
  /\ restarts \in 0..MaxRestarts

Init ==
  /\ count = [k \in Keys |-> 0]
  /\ resetAt = [k \in Keys |-> 0]
  /\ lastSweep = 0
  /\ now = Start
  /\ answer = [ok |-> TRUE]
  /\ admitted = [k \in Keys |-> [t \in Clock |-> 0]]
  /\ restarts = 0

-----------------------------------------------------------------------------
\* Seeded defect: a sweep waits for the map to be full.
DueWhenFull == Cardinality(Buckets) >= MaxBuckets

Due == now - lastSweep >= SweepInterval \/ Cardinality(Buckets) >= MaxBuckets

\* Seeded defect: the sweep of a full map makes room at any price.
SweptAll == IF Due THEN Buckets ELSE {}

\* The buckets that sweepIfDue deletes.
Swept == IF Due THEN {k \in Buckets : resetAt[k] <= now} ELSE {}

\* nextBucket finds a bucket that counts on.
Current(k) == count[k] > 0 /\ k \notin Swept /\ resetAt[k] > now

\* The count and the end of the bucket that nextBucket returns.
NextCount(k) == IF Current(k) THEN count[k] + 1 ELSE 1
NextReset(k) == IF Current(k) THEN resetAt[k] ELSE now + Ttl[k]

\* Math.max(0, limit - bucket.count)
Remaining(k, n) == IF n <= Limit[k] THEN Limit[k] - n ELSE 0

\* The verdict, X-RateLimit-Remaining and X-RateLimit-Reset.
Reply(k, n, wait) ==
  [key |-> k, ok |-> n <= Limit[k], remaining |-> Remaining(k, n), wait |-> wait]

\* The buckets after the sweep, without the one that k goes on to use.
Kept(f) == [j \in Keys |-> IF j \in Swept THEN 0 ELSE f[j]]

CanActivate(k) ==
  /\ count[k] < MaxRequests
  /\ count' = [Kept(count) EXCEPT ![k] = NextCount(k)]
  /\ resetAt' = [Kept(resetAt) EXCEPT ![k] = NextReset(k)]
  /\ lastSweep' = IF Due THEN now ELSE lastSweep
  /\ answer' = Reply(k, NextCount(k), NextReset(k) - now)
  /\ admitted' = IF NextCount(k) <= Limit[k]
                   THEN [admitted EXCEPT ![k][now] = @ + 1]
                   ELSE admitted
  /\ UNCHANGED <<now, restarts>>

Tick ==
  /\ now < MaxTime
  /\ now' = now + 1
  /\ UNCHANGED <<tableVars, answer, admitted, restarts>>

\* The map lives and dies with the process.
Restart ==
  /\ restarts < MaxRestarts
  /\ restarts' = restarts + 1
  /\ count' = [k \in Keys |-> 0]
  /\ resetAt' = [k \in Keys |-> 0]
  /\ lastSweep' = 0
  /\ UNCHANGED <<now, answer, admitted>>

Next == (\E k \in Keys : CanActivate(k)) \/ Tick \/ Restart

Spec == Init /\ [][Next]_vars

-----------------------------------------------------------------------------
(* What the table implements                                               *)

Left(k) == IF count[k] > 0 /\ resetAt[k] > now THEN resetAt[k] - now ELSE 0

\* A bucket that has expired and is still in the map counts for nothing.
Window == INSTANCE FixedWindow
  WITH used <- [k \in Keys |-> IF Left(k) > 0 THEN count[k] ELSE 0],
       left <- [k \in Keys |-> Left(k)]

\* The verdicts and the headers are those of fixed windows: neither expired
\* buckets that linger nor sweeps (rate-limit.guard.ts:89-97) can be noticed.
IsFixedWindow == Window!Spec

-----------------------------------------------------------------------------
(* Correctness                                                             *)

\* The admissions of k within the Ttl[k] instants from t on.
Admissions(k, t) ==
  SumFunctionOnSet(admitted[k], {s \in Clock : t <= s /\ s < t + Ttl[k]})

\* docs/authentication.md:140: the limits are limits per minute.  A minute that
\* may begin at any instant meets a window that has begun before it, of which
\* the first request lies outside, one more window, and one for each restart
\* (rate-limit.guard.ts:78-87).
SlidingBound ==
  \A k \in Keys, t \in Clock :
    Admissions(k, t) <= (2 + restarts) * Limit[k] - 1

\* The map does not keep dead buckets (rate-limit.guard.ts:89-97): after a
\* request, no bucket in it expired longer than one sweep interval ago.
DeadBucketsGo ==
  [][\A k \in Keys :
       CanActivate(k) =>
         \A j \in Keys : count'[j] > 0 => resetAt'[j] + SweepInterval > now]_vars
=============================================================================
