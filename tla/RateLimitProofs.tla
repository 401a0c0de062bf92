-------------------------- MODULE RateLimitProofs --------------------------
(***************************************************************************)
(* Theorems about RateLimit, for every set of keys, all limits and windows *)
(* and every size of the table.                                            *)
(***************************************************************************)
EXTENDS RateLimit, FiniteSetTheorems, WellFoundedInduction, TLAPS

-----------------------------------------------------------------------------
(* Type correctness                                                        *)

\* rate-limit.guard.ts:78-87: the bucket that a request gets has a positive
\* count and ends later than now.
LEMMA NextTyped ==
  ASSUME TypeOK, NEW k \in Keys
  PROVE  /\ NextCount(k) \in Nat \ {0}
         /\ NextReset(k) \in Nat
         /\ NextReset(k) > now
BY LimitsAssumption, TableAssumption
   DEF TypeOK, NextCount, NextReset, Current, Clock, Start

\* Every variable keeps its type: no header is negative, and the last sweep
\* is never in the future.
THEOREM LimiterTypeCorrect == Spec => []TypeOK
<1>1. Init => TypeOK
  BY LimitsAssumption, TableAssumption DEF Init, TypeOK, Clock, Start, Replies
<1>2. TypeOK /\ [Next]_vars => TypeOK'
  <2> SUFFICES ASSUME TypeOK, [Next]_vars PROVE TypeOK'
    OBVIOUS
  <2>1. ASSUME NEW k \in Keys, CanActivate(k) PROVE TypeOK'
    <3>1. /\ NextCount(k) \in Nat \ {0} /\ NextReset(k) \in Nat
          /\ NextReset(k) - now \in Nat /\ now \in Nat
      BY NextTyped, TableAssumption DEF TypeOK, Clock, Start
    <3>2. count' \in [Keys -> Nat] /\ resetAt' \in [Keys -> Nat]
      BY <2>1, <3>1 DEF CanActivate, Kept, TypeOK
    <3>3. answer' \in Replies
      <4>1. Remaining(k, NextCount(k)) \in Nat
        BY <3>1, LimitsAssumption DEF Remaining
      <4>2. QED
        BY <2>1, <3>1, <4>1 DEF CanActivate, Reply, Replies
    <3>4. admitted' \in [Keys -> [Clock -> Nat]]
      BY <2>1 DEF CanActivate, TypeOK
    <3>5. lastSweep' \in Nat /\ now' \in Clock /\ lastSweep' <= now'
      BY <2>1, <3>1 DEF CanActivate, TypeOK
    <3>6. QED
      BY <2>1, <3>2, <3>3, <3>4, <3>5 DEF CanActivate, TypeOK
  <2>2. CASE Tick
    BY <2>2, TableAssumption DEF Tick, tableVars, TypeOK, Clock, Start
  <2>3. CASE Restart
    BY <2>3, TableAssumption DEF Restart, TypeOK, Clock, Start
  <2>4. CASE UNCHANGED vars
    BY <2>4 DEF vars, tableVars, TypeOK
  <2>5. QED
    BY <2>1, <2>2, <2>3, <2>4 DEF Next
<1>3. QED
  BY <1>1, <1>2, PTL DEF Spec

-----------------------------------------------------------------------------
(* The table is kept clean                                                 *)

\* Whatever had expired at the last sweep is gone.
SweptClean == \A k \in Keys : count[k] > 0 => resetAt[k] > lastSweep

\* Buckets that are in the table ended after the last sweep, or will end.
LEMMA SweptCleanInvariant == Spec => []SweptClean
<1>1. Init => SweptClean
  BY DEF Init, SweptClean
<1>2. TypeOK /\ SweptClean /\ [Next]_vars => SweptClean'
  <2> SUFFICES ASSUME TypeOK, SweptClean, [Next]_vars PROVE SweptClean'
    OBVIOUS
  <2>1. ASSUME NEW k \in Keys, CanActivate(k) PROVE SweptClean'
    <3>1. lastSweep' \in {lastSweep, now} /\ lastSweep \in Nat /\ now \in Nat
          /\ lastSweep <= now
      BY <2>1, TableAssumption DEF CanActivate, TypeOK, Clock, Start
    <3>2. count'[k] > 0 => resetAt'[k] > lastSweep'
      BY <2>1, <3>1, NextTyped DEF CanActivate, Kept
    <3>3. ASSUME NEW j \in Keys, j # k, count'[j] > 0
          PROVE  resetAt'[j] > lastSweep'
      <4>1. /\ count'[j] = Kept(count)[j] /\ resetAt'[j] = Kept(resetAt)[j]
        BY <2>1, <3>3 DEF CanActivate, Kept
      <4>2. j \notin Swept /\ count[j] > 0 /\ resetAt'[j] = resetAt[j]
        BY <3>3, <4>1 DEF Kept
      <4>3. CASE Due
        BY <2>1, <4>2, <4>3, <3>1 DEF CanActivate, Swept, Buckets, TypeOK
      <4>4. CASE ~Due
        BY <2>1, <4>2, <4>4 DEF CanActivate, SweptClean
      <4>5. QED
        BY <4>3, <4>4
    <3>4. QED
      BY <3>2, <3>3 DEF SweptClean
  <2>2. CASE Tick \/ Restart
    BY <2>2 DEF Tick, Restart, tableVars, SweptClean
  <2>3. CASE UNCHANGED vars
    BY <2>3 DEF vars, tableVars, SweptClean
  <2>4. QED
    BY <2>1, <2>2, <2>3 DEF Next
<1>3. QED
  BY <1>1, <1>2, LimiterTypeCorrect, PTL DEF Spec

\* rate-limit.guard.ts:89-97: after a request the table holds no bucket that
\* expired longer than a sweep interval ago.
THEOREM DeadBucketsAreSwept == Spec => DeadBucketsGo
<1>1. TypeOK /\ TypeOK' /\ SweptClean' /\ [Next]_vars =>
        [\A k \in Keys :
           CanActivate(k) => \A j \in Keys :
             count'[j] > 0 => resetAt'[j] + SweepInterval > now]_vars
  <2> SUFFICES ASSUME TypeOK, TypeOK', SweptClean', NEW k \in Keys, CanActivate(k),
                      NEW j \in Keys, count'[j] > 0
               PROVE  resetAt'[j] + SweepInterval > now
    OBVIOUS
  <2>1. resetAt'[j] > lastSweep'
    BY DEF SweptClean
  <2>2. /\ now \in Nat /\ lastSweep \in Nat /\ resetAt'[j] \in Nat
        /\ SweepInterval \in Nat \ {0}
    BY TableAssumption DEF TypeOK, Clock, Start
  <2>3. CASE Due
    BY <2>1, <2>2, <2>3 DEF CanActivate
  <2>4. CASE ~Due
    BY <2>1, <2>2, <2>4 DEF CanActivate, Due
  <2>5. QED
    BY <2>3, <2>4
<1>2. QED
  BY <1>1, LimiterTypeCorrect, SweptCleanInvariant, PTL DEF Spec, DeadBucketsGo

-----------------------------------------------------------------------------
(* The table implements fixed windows                                      *)

UsedBar == [k \in Keys |-> IF Left(k) > 0 THEN count[k] ELSE 0]
LeftBar == [k \in Keys |-> Left(k)]

\* A bucket counts on exactly when its window is open, whether or not this
\* request sweeps.
LEMMA CurrentIsOpen ==
  ASSUME TypeOK, NEW k \in Keys
  PROVE  Current(k) <=> Left(k) > 0
BY TableAssumption DEF TypeOK, Current, Left, Swept, Clock, Start

\* The verdicts and the headers are those of fixed windows: initial states map
\* to initial states, a request to a request, a tick to a tick and a restart
\* to the loss of all windows.
THEOREM ImplementsFixedWindow == Spec => IsFixedWindow
<1>1. Init => Window!Init
  BY DEF Init, Window!Init, Window!NoReply, Left
<1>2. TypeOK /\ TypeOK' /\ [Next]_vars => [Window!Next]_(Window!vars)
  <2> SUFFICES ASSUME TypeOK, TypeOK', [Next]_vars
               PROVE  Window!Next \/ UNCHANGED Window!vars
    OBVIOUS
  <2>1. ASSUME NEW k \in Keys, CanActivate(k) PROVE Window!Request(k)
    <3>1. /\ NextCount(k) \in Nat \ {0} /\ NextReset(k) \in Nat /\ now \in Nat
          /\ NextReset(k) > now /\ now' = now
      BY <2>1, NextTyped, TableAssumption DEF TypeOK, Clock, Start, CanActivate
    <3>2. count'[k] = NextCount(k) /\ resetAt'[k] = NextReset(k)
      BY <2>1 DEF CanActivate, Kept
    <3>3. Left(k)' = NextReset(k) - now
      BY <3>1, <3>2 DEF Left
    <3>4. UsedBar'[k] = (IF LeftBar[k] > 0 THEN UsedBar[k] + 1 ELSE 1)
      BY <3>1, <3>2, <3>3, CurrentIsOpen DEF UsedBar, LeftBar, NextCount
    <3>5. LeftBar'[k] = (IF LeftBar[k] > 0 THEN LeftBar[k] ELSE Ttl[k])
      <4>1. CASE Current(k)
        BY <4>1, <3>3, CurrentIsOpen DEF LeftBar, NextReset, Left, Current
      <4>2. CASE ~Current(k)
        BY <4>2, <3>1, <3>3, CurrentIsOpen, LimitsAssumption DEF LeftBar, NextReset
      <4>3. QED
        BY <4>1, <4>2
    <3>6. ASSUME NEW j \in Keys, j # k
          PROVE  Left(j)' = Left(j) /\ UsedBar'[j] = UsedBar[j]
      <4>1. count'[j] = Kept(count)[j] /\ resetAt'[j] = Kept(resetAt)[j]
        BY <2>1, <3>6 DEF CanActivate, Kept
      <4>2. CASE j \in Swept
        BY <4>1, <4>2, <3>1 DEF Kept, Swept, Left, UsedBar, TypeOK
      <4>3. CASE j \notin Swept
        BY <4>1, <4>3, <3>1 DEF Kept, Left, UsedBar
      <4>4. QED
        BY <4>2, <4>3
    <3>7. UsedBar' = [UsedBar EXCEPT ![k] = IF LeftBar[k] > 0 THEN @ + 1 ELSE 1]
      BY <3>4, <3>6 DEF UsedBar
    <3>8. LeftBar' = [LeftBar EXCEPT ![k] = IF @ > 0 THEN @ ELSE Ttl[k]]
      BY <3>5, <3>6 DEF LeftBar
    <3>9. answer' = Window!Reply(k, UsedBar'[k], LeftBar'[k])
      BY <2>1, <3>1, <3>2, <3>3
      DEF CanActivate, Reply, Remaining, Window!Reply, UsedBar, LeftBar
    <3>10. QED
      BY <3>7, <3>8, <3>9 DEF Window!Request, UsedBar, LeftBar
  <2>2. ASSUME Tick PROVE Window!Tick
    <3>1. ASSUME NEW k \in Keys
          PROVE  /\ Left(k)' = IF Left(k) > 0 THEN Left(k) - 1 ELSE 0
                 /\ UsedBar'[k] = IF Left(k) > 1 THEN UsedBar[k] ELSE 0
      BY <2>2, TableAssumption
      DEF Tick, tableVars, Left, UsedBar, TypeOK, Clock, Start
    <3>2. QED
      BY <2>2, <3>1 DEF Tick, Window!Tick, UsedBar
  <2>3. ASSUME Restart PROVE Window!Forget
    BY <2>3 DEF Restart, Window!Forget, Left
  <2>4. ASSUME UNCHANGED vars PROVE UNCHANGED Window!vars
    BY <2>4 DEF vars, tableVars, Window!vars, Left
  <2>5. QED
    BY <2>1, <2>2, <2>3, <2>4 DEF Next, Window!Next
<1>3. QED
  BY <1>1, <1>2, LimiterTypeCorrect, PTL DEF Spec, IsFixedWindow, Window!Spec
-----------------------------------------------------------------------------
(* Sums over finite sets                                                   *)

Below == {p \in Nat \X Nat : p[1] < p[2]}

\* A set of natural numbers has a least one.  Where the proofs below are by
\* induction, it is the size of the smallest set for which they would fail.
LEMMA LeastOf ==
  ASSUME NEW T \in SUBSET Nat, T # {}
  PROVE  \E least \in T : \A n \in T : least <= n
<1>1. IsWellFoundedOn(Below, Nat)
  BY NatLessThanWellFounded DEF OpToRel, Below
<1>2. PICK least \in T : \A n \in T : <<n, least>> \notin Below
  BY <1>1, WFMin
<1>3. ASSUME NEW n \in T PROVE least <= n
  <2>1. <<n, least>> \in Nat \X Nat /\ ~(n < least)
    BY <1>2 DEF Below
  <2>2. QED
    BY <2>1
<1>4. QED
  BY <1>3

\* The element that a sum takes first.
Pick(s) == CHOOSE x \in s : TRUE

LEMMA PickTakes ==
  ASSUME NEW S, IsFiniteSet(S), NEW s \in SUBSET S, s # {}
  PROVE  /\ Pick(s) \in s /\ Pick(s) \in S
         /\ s \ {Pick(s)} \in SUBSET S
         /\ Cardinality(s) \in Nat \ {0}
         /\ Cardinality(s \ {Pick(s)}) = Cardinality(s) - 1
<1>1. Pick(s) \in s
  BY DEF Pick
<1>2. IsFiniteSet(s) /\ Cardinality(s) \in Nat /\ Cardinality(s) # 0
  BY FS_Subset, FS_CardinalityType, FS_EmptySet
<1>3. QED
  BY <1>1, <1>2, FS_RemoveElement

\* sum adds up f over the subsets of S.
Adds(sum, f, s) ==
  sum[s] = IF s = {} THEN 0 ELSE f[Pick(s)] + sum[s \ {Pick(s)}]

Sums(f, S, sum) ==
  sum = [s \in SUBSET S |-> IF s = {} THEN 0 ELSE f[Pick(s)] + sum[s \ {Pick(s)}]]

LEMMA SumUnfolds ==
  ASSUME NEW f, NEW S
  PROVE  SumFunctionOnSet(f, S) = (CHOOSE sum : Sums(f, S, sum))[S]
BY Zenon DEF SumFunctionOnSet, FoldFunctionOnSet, MapThenFoldSet, Sums, Pick

LEMMA SumsExist ==
  ASSUME NEW D, NEW f \in [D -> Nat], NEW S \in SUBSET D, IsFiniteSet(S)
  PROVE  \E sum : Sums(f, S, sum)
<1> DEFINE Small(n) == {s \in SUBSET S : Cardinality(s) <= n}
           Added(n) == \E sum \in [Small(n) -> Nat] : \A s \in Small(n) : Adds(sum, f, s)
           Bad == {n \in Nat : ~Added(n)}
<1>0. \A s \in SUBSET S : IsFiniteSet(s) /\ Cardinality(s) \in Nat
                          /\ Cardinality(s) <= Cardinality(S)
  BY FS_Subset, FS_CardinalityType
<1>1. Added(0)
  <2>1. \A s \in Small(0) : s = {}
    BY <1>0, FS_EmptySet
  <2>2. WITNESS [s \in Small(0) |-> 0] \in [Small(0) -> Nat]
  <2>3. QED
    BY <2>1 DEF Adds
<1>2. ASSUME NEW n \in Nat, Added(n) PROVE Added(n + 1)
  <2>1. PICK sum \in [Small(n) -> Nat] : \A s \in Small(n) : Adds(sum, f, s)
    BY <1>2
  <2> DEFINE next == [s \in Small(n + 1) |->
                        IF s = {} THEN 0 ELSE f[Pick(s)] + sum[s \ {Pick(s)}]]
  <2>2. ASSUME NEW s \in Small(n + 1), s # {}
        PROVE  /\ s \ {Pick(s)} \in Small(n) /\ s \ {Pick(s)} \in Small(n + 1)
               /\ f[Pick(s)] \in Nat
    <3>1. /\ Pick(s) \in D /\ s \ {Pick(s)} \in SUBSET S
          /\ Cardinality(s) \in Nat /\ Cardinality(s \ {Pick(s)}) = Cardinality(s) - 1
      BY <2>2, PickTakes
    <3>2. Cardinality(s) <= n + 1
      OBVIOUS
    <3>3. QED
      BY <3>1, <3>2
  <2>3. next \in [Small(n + 1) -> Nat]
    BY <2>2
  <2>4. \A s \in Small(n) : next[s] = sum[s] /\ s \in Small(n + 1)
    <3>1. \A s \in Small(n) : s \in Small(n + 1)
      BY <1>0
    <3>2. QED
      BY <2>1, <3>1 DEF Adds
  <2>5. \A s \in Small(n + 1) : Adds(next, f, s)
    BY <2>2, <2>4 DEF Adds
  <2>6. QED
    BY <2>3, <2>5
<1>3. Bad = {}
  <2> SUFFICES ASSUME Bad # {} PROVE FALSE
    OBVIOUS
  <2> HIDE DEF Added
  <2>1. PICK n \in Bad : \A m \in Bad : n <= m
    BY LeastOf
  <2>2. n # 0 /\ n - 1 \in Nat /\ Added(n - 1)
    BY <1>1, <2>1
  <2>3. QED
    BY <1>2, <2>1, <2>2
<1>4. PICK sum \in [Small(Cardinality(S)) -> Nat] :
        \A s \in Small(Cardinality(S)) : Adds(sum, f, s)
  BY <1>0, <1>3, FS_CardinalityType
<1>5. Small(Cardinality(S)) = SUBSET S
  BY <1>0
<1>6. Sums(f, S, sum)
  BY <1>4, <1>5 DEF Sums, Adds
<1>7. QED
  BY <1>6

AddsUp(sum, f, S) == \A s \in SUBSET S : Adds(sum, f, s)

\* The sum over S is that of a function that adds up over its subsets.
LEMMA SumAdds ==
  ASSUME NEW D, NEW f \in [D -> Nat], NEW S \in SUBSET D, IsFiniteSet(S)
  PROVE  \E sum : /\ SumFunctionOnSet(f, S) = sum[S]
                  /\ AddsUp(sum, f, S)
<1> DEFINE sum == CHOOSE sum : Sums(f, S, sum)
<1>1. Sums(f, S, sum)
  BY SumsExist
<1>2. SumFunctionOnSet(f, S) = sum[S]
  BY SumUnfolds
<1> HIDE DEF sum
<1>3. AddsUp(sum, f, S)
  BY <1>1 DEF Sums, AddsUp, Adds
<1>4. QED
  BY <1>2, <1>3

\* A sum of natural numbers is one, and grows by one with one of them.
LEMMA SumGrows ==
  ASSUME NEW D, NEW f \in [D -> Nat], NEW x \in D, NEW S \in SUBSET D, IsFiniteSet(S),
         NEW more, more = [f EXCEPT ![x] = @ + 1]
  PROVE  /\ SumFunctionOnSet(f, S) \in Nat
         /\ SumFunctionOnSet(more, S)
              = SumFunctionOnSet(f, S) + (IF x \in S THEN 1 ELSE 0)
<1>1. more \in [D -> Nat]
  OBVIOUS
<1>2. PICK sum : SumFunctionOnSet(f, S) = sum[S] /\ AddsUp(sum, f, S)
  BY SumAdds
<1>3. PICK next : SumFunctionOnSet(more, S) = next[S] /\ AddsUp(next, more, S)
  BY <1>1, SumAdds
<1> DEFINE Holds(s) == sum[s] \in Nat /\ next[s] = sum[s] + (IF x \in s THEN 1 ELSE 0)
           Bad == {n \in Nat : \E s \in SUBSET S : Cardinality(s) = n /\ ~Holds(s)}
<1>4. ASSUME NEW s \in SUBSET S, s # {}, Holds(s \ {Pick(s)}) PROVE Holds(s)
  <2> DEFINE r == s \ {Pick(s)}
  <2>1. Pick(s) \in s /\ Pick(s) \in D /\ r \in SUBSET S
    BY <1>4, PickTakes
  <2>2. sum[s] = f[Pick(s)] + sum[r] /\ next[s] = more[Pick(s)] + next[r]
    BY <1>2, <1>3, <1>4 DEF AddsUp, Adds
  <2>3. CASE x = Pick(s)
    BY <1>4, <2>1, <2>2, <2>3
  <2>4. CASE x # Pick(s)
    BY <1>4, <2>1, <2>2, <2>4
  <2>5. QED
    BY <2>3, <2>4
<1>5. Holds({})
  <2>1. {} \in SUBSET S
    OBVIOUS
  <2>2. sum[{}] = 0 /\ next[{}] = 0
    BY <1>2, <1>3, <2>1 DEF AddsUp, Adds
  <2>3. QED
    BY <2>2
<1>6. Bad = {}
  <2> SUFFICES ASSUME Bad # {} PROVE FALSE
    OBVIOUS
  <2> HIDE DEF Holds
  <2>1. PICK n \in Bad : \A m \in Bad : n <= m
    BY LeastOf
  <2>2. PICK s \in SUBSET S : Cardinality(s) = n /\ ~Holds(s)
    BY <2>1
  <2>3. s # {}
    BY <1>5, <2>2
  <2>4. s \ {Pick(s)} \in SUBSET S /\ Cardinality(s \ {Pick(s)}) = n - 1 /\ n \in Nat \ {0}
    BY <2>2, <2>3, PickTakes
  <2>5. Holds(s \ {Pick(s)})
    BY <2>1, <2>4
  <2>6. QED
    BY <1>4, <2>2, <2>3, <2>5
<1>7. S \in SUBSET S /\ Cardinality(S) \in Nat
  BY FS_CardinalityType
<1>8. Holds(S)
  BY <1>6, <1>7
<1>9. QED
  BY <1>2, <1>3, <1>8

\* A sum of nothing but zeros is zero.
LEMMA SumOfZeros ==
  ASSUME NEW D, NEW S \in SUBSET D, IsFiniteSet(S)
  PROVE  SumFunctionOnSet([x \in D |-> 0], S) = 0
<1> DEFINE f == [x \in D |-> 0]
<1>1. f \in [D -> Nat]
  OBVIOUS
<1>2. PICK sum : SumFunctionOnSet(f, S) = sum[S] /\ AddsUp(sum, f, S)
  BY <1>1, SumAdds
<1> DEFINE Bad == {n \in Nat : \E s \in SUBSET S : Cardinality(s) = n /\ sum[s] # 0}
<1>3. Bad = {}
  <2> SUFFICES ASSUME Bad # {} PROVE FALSE
    OBVIOUS
  <2>1. PICK n \in Bad : \A m \in Bad : n <= m
    BY LeastOf
  <2>2. PICK s \in SUBSET S : Cardinality(s) = n /\ sum[s] # 0
    BY <2>1
  <2>3. s # {} /\ sum[s] = f[Pick(s)] + sum[s \ {Pick(s)}]
    BY <1>2, <2>2 DEF AddsUp, Adds
  <2>4. /\ s \ {Pick(s)} \in SUBSET S /\ Cardinality(s \ {Pick(s)}) = n - 1
        /\ n \in Nat \ {0} /\ Pick(s) \in D
    BY <2>2, <2>3, PickTakes
  <2>5. sum[s \ {Pick(s)}] = 0
    BY <2>1, <2>4
  <2>6. QED
    BY <2>2, <2>3, <2>4, <2>5
<1>4. S \in SUBSET S /\ Cardinality(S) \in Nat
  BY FS_CardinalityType
<1>5. QED
  BY <1>2, <1>3, <1>4

-----------------------------------------------------------------------------
(* Admissions within a minute that begins at any instant                   *)

\* The instants that Admissions adds up.
Minute(k, t) == {s \in Clock : t <= s /\ s < t + Ttl[k]}

LEMMA AdmissionsGrow ==
  ASSUME TypeOK, NEW k \in Keys, NEW t \in Clock
  PROVE  /\ Admissions(k, t) \in Nat
         /\ admitted'[k] = [admitted[k] EXCEPT ![now] = @ + 1] =>
              Admissions(k, t)' = Admissions(k, t) + (IF now \in Minute(k, t) THEN 1 ELSE 0)
<1>1. IsFiniteSet(Clock)
  BY TableAssumption, FS_Interval DEF Clock, Start
<1>2. Minute(k, t) \in SUBSET Clock /\ IsFiniteSet(Minute(k, t))
  BY <1>1, FS_Subset DEF Minute
<1>3. admitted[k] \in [Clock -> Nat] /\ now \in Clock
  BY DEF TypeOK
<1>4. Admissions(k, t) = SumFunctionOnSet(admitted[k], Minute(k, t))
  BY DEF Admissions, Minute
<1>5. Admissions(k, t)' = SumFunctionOnSet(admitted'[k], Minute(k, t))
  BY DEF Admissions, Minute
<1>6. QED
  BY <1>2, <1>3, <1>4, <1>5, SumGrows

LEMMA AdmissionsStay ==
  ASSUME NEW k \in Keys, NEW t \in Clock, admitted'[k] = admitted[k]
  PROVE  Admissions(k, t)' = Admissions(k, t)
BY DEF Admissions

\* The bucket of k is counting.
Open(k) == count[k] > 0 /\ resetAt[k] > now

\* What the bucket of k has admitted.
Granted(k) == IF count[k] <= Limit[k] THEN count[k] ELSE Limit[k]

\* When the bucket of k was opened.
Opened(k) == resetAt[k] - Ttl[k]

\* What can have been admitted within the Ttl[k] instants from t on if these are
\* not over: nothing that is still to come; of the bucket that counts, what it
\* has admitted, without its first request if that came before t; and in front
\* of it what a minute may hold that is not begun by a bucket of its own.
Room(k, t) ==
  IF t > now THEN 0
  ELSE IF ~Open(k) THEN (1 + restarts) * Limit[k] - 1
  ELSE IF t <= Opened(k) THEN (1 + restarts) * Limit[k] - 1 + Granted(k)
  ELSE restarts * Limit[k] - 1 + Granted(k)

WithinBounds(k) ==
  /\ Open(k) => Opened(k) <= now
  /\ \A t \in Clock :
       /\ Admissions(k, t) <= (2 + restarts) * Limit[k] - 1
       /\ t + Ttl[k] > now => Admissions(k, t) <= Room(k, t)

WindowInv == \A k \in Keys : WithinBounds(k)

\* The multiples of a limit, for provers that do not multiply.
LEMMA Multiples ==
  ASSUME TypeOK, NEW k \in Keys
  PROVE  /\ restarts * Limit[k] \in Nat /\ Limit[k] \in Nat \ {0}
         /\ (1 + restarts) * Limit[k] = restarts * Limit[k] + Limit[k]
         /\ (2 + restarts) * Limit[k] = restarts * Limit[k] + 2 * Limit[k]
         /\ (1 + (restarts + 1)) * Limit[k] = restarts * Limit[k] + 2 * Limit[k]
         /\ (2 + (restarts + 1)) * Limit[k] = restarts * Limit[k] + 3 * Limit[k]
<1>1. restarts \in Nat /\ Limit[k] \in Nat \ {0}
  BY LimitsAssumption, TableAssumption DEF TypeOK
<1>2. QED
  BY <1>1

\* A key whose buckets, admissions and restarts stay what they are.
LEMMA KeyStays ==
  ASSUME TypeOK, TypeOK', NEW k \in Keys, WithinBounds(k),
         now' = now, restarts' = restarts, admitted'[k] = admitted[k],
         Open(k)' <=> Open(k),
         Open(k) => count'[k] = count[k] /\ resetAt'[k] = resetAt[k]
  PROVE  WithinBounds(k)'
<1>1. \A t \in Clock : Admissions(k, t)' = Admissions(k, t) /\ Room(k, t)' = Room(k, t)
  BY AdmissionsStay DEF Room, Opened, Granted
<1>2. QED
  BY <1>1 DEF WithinBounds, Opened

\* A request of k: the bucket that counts it is open, and what it admits finds
\* room, in the bucket or in front of it.
LEMMA RequestWithinBounds ==
  ASSUME TypeOK, TypeOK', NEW k \in Keys, WithinBounds(k), CanActivate(k)
  PROVE  WithinBounds(k)'
<1> USE LimitsAssumption, TableAssumption
<1>1. /\ now \in Nat /\ now' = now /\ now \in Clock /\ restarts' = restarts
      /\ Limit[k] \in Nat \ {0} /\ Ttl[k] \in Nat \ {0}
      /\ count[k] \in Nat /\ resetAt[k] \in Nat
  <2>1. now \in Nat /\ now \in Clock
    BY DEF TypeOK, Clock, Start
  <2>2. now' = now /\ restarts' = restarts
    BY DEF CanActivate
  <2>3. QED
    BY <2>1, <2>2 DEF TypeOK
<1>2. /\ count'[k] = NextCount(k) /\ resetAt'[k] = NextReset(k)
      /\ NextCount(k) \in Nat \ {0} /\ NextReset(k) \in Nat /\ NextReset(k) > now
  BY NextTyped DEF CanActivate, Kept, TypeOK
<1>3. Open(k)' /\ (Current(k) <=> Open(k))
  BY <1>1, <1>2, CurrentIsOpen DEF Open, Left
<1>4. /\ Open(k) => NextCount(k) = count[k] + 1 /\ Opened(k)' = Opened(k)
      /\ ~Open(k) => NextCount(k) = 1 /\ Opened(k)' = now
  BY <1>1, <1>2, <1>3 DEF NextCount, NextReset, Opened
<1>5. Opened(k)' <= now /\ Opened(k)' \in Int
  BY <1>1, <1>2, <1>4 DEF WithinBounds, Opened
<1>6. ASSUME NEW t \in Clock
      PROVE  /\ Admissions(k, t)' <= (2 + restarts) * Limit[k] - 1
             /\ t + Ttl[k] > now => Admissions(k, t)' <= Room(k, t)'
  <2> DEFINE R == restarts * Limit[k]
             A == Admissions(k, t)
             B == Admissions(k, t)'
  <2>0. t \in Nat
    BY DEF Clock, Start
  <2>1. R \in Nat /\ A \in Nat
    BY AdmissionsGrow, Multiples
  <2>2. /\ A <= R + 2 * Limit[k] - 1
        /\ t + Ttl[k] > now => A <= Room(k, t)
    BY Multiples DEF WithinBounds
  <2>3. B = IF NextCount(k) <= Limit[k] /\ t <= now /\ now < t + Ttl[k] THEN A + 1 ELSE A
    <3>1. CASE NextCount(k) <= Limit[k]
      <4>1. admitted'[k] = [admitted[k] EXCEPT ![now] = @ + 1]
        BY <3>1 DEF CanActivate, TypeOK
      <4>2. QED
        BY <1>1, <3>1, <4>1, AdmissionsGrow DEF Minute
    <3>2. CASE ~(NextCount(k) <= Limit[k])
      BY <3>2, AdmissionsStay DEF CanActivate
    <3>3. QED
      BY <3>1, <3>2
  <2>4. Room(k, t) = IF t > now THEN 0
                     ELSE IF ~Open(k) THEN R + Limit[k] - 1
                     ELSE IF t <= Opened(k) THEN R + Limit[k] - 1 + Granted(k)
                     ELSE R - 1 + Granted(k)
    BY Multiples DEF Room
  <2>5. Room(k, t)' = IF t > now THEN 0
                      ELSE IF t <= Opened(k)' THEN R + Limit[k] - 1 + Granted(k)'
                      ELSE R - 1 + Granted(k)'
    BY <1>1, <1>3, Multiples DEF Room
  <2>6. Granted(k)' = (IF NextCount(k) <= Limit[k] THEN NextCount(k) ELSE Limit[k])
        /\ Granted(k) = (IF count[k] <= Limit[k] THEN count[k] ELSE Limit[k])
    BY <1>2 DEF Granted
  <2> HIDE DEF A, B, R
  <2>7. t + Ttl[k] > now => B <= Room(k, t)'
    <3>1. CASE Open(k)
      BY <1>1, <1>2, <1>4, <2>0, <2>1, <2>2, <2>3, <2>4, <2>5, <2>6, <3>1
    <3>2. CASE ~Open(k)
      BY <1>1, <1>2, <1>4, <2>0, <2>1, <2>2, <2>3, <2>4, <2>5, <2>6, <3>2
    <3>3. QED
      BY <3>1, <3>2
  <2>8. B <= R + 2 * Limit[k] - 1
    <3>1. Granted(k)' \in Nat /\ Granted(k)' <= Limit[k] /\ Limit[k] \in Nat \ {0}
      BY <1>1, <1>2, <2>6
    <3>2. Room(k, t)' <= R + 2 * Limit[k] - 1 /\ Room(k, t)' \in Int
      BY <2>1, <2>5, <3>1
    <3>3. B \in Nat
      BY <2>1, <2>3
    <3>4. CASE t + Ttl[k] > now
      BY <2>1, <2>7, <3>1, <3>2, <3>3, <3>4
    <3>5. CASE ~(t + Ttl[k] > now)
      BY <1>1, <2>0, <2>2, <2>3, <3>5
    <3>6. QED
      BY <3>4, <3>5
  <2>9. QED
    BY <2>7, <2>8, Multiples DEF A, B, R
<1>7. QED
  BY <1>1, <1>5, <1>6 DEF WithinBounds

\* The clock: a bucket that closes leaves the room that one that is closed has.
LEMMA TickWithinBounds ==
  ASSUME TypeOK, TypeOK', NEW k \in Keys, WithinBounds(k), Tick
  PROVE  WithinBounds(k)'
<1> USE LimitsAssumption, TableAssumption
<1>1. /\ now \in Nat /\ now' = now + 1 /\ Limit[k] \in Nat \ {0} /\ Ttl[k] \in Nat \ {0}
      /\ count[k] \in Nat /\ resetAt[k] \in Nat
  <2>1. now \in Nat /\ now' = now + 1
    BY DEF TypeOK, Clock, Start, Tick
  <2>2. QED
    BY <2>1 DEF TypeOK
<1>2. UNCHANGED <<count, resetAt, admitted, restarts>>
  BY DEF Tick, tableVars
<1>3. Opened(k)' = Opened(k) /\ Opened(k) \in Int /\ Granted(k)' = Granted(k)
      /\ Granted(k) <= Limit[k] /\ (count[k] > 0 => Granted(k) \in Nat \ {0})
      /\ Opened(k) + Ttl[k] = resetAt[k]
  BY <1>1, <1>2 DEF Opened, Granted
<1>4. /\ Open(k) <=> count[k] > 0 /\ resetAt[k] > now
      /\ Open(k)' <=> count[k] > 0 /\ resetAt[k] > now + 1
  BY <1>1, <1>2 DEF Open
<1>5. ASSUME NEW t \in Clock
      PROVE  /\ Admissions(k, t)' <= (2 + restarts) * Limit[k] - 1
             /\ t + Ttl[k] > now' => Admissions(k, t)' <= Room(k, t)'
  <2> DEFINE R == restarts * Limit[k]
             A == Admissions(k, t)
  <2>0. t \in Nat
    BY DEF Clock, Start
  <2>1. R \in Nat /\ A \in Nat /\ Admissions(k, t)' = A
    BY <1>2, AdmissionsGrow, AdmissionsStay, Multiples
  <2>2. A <= (2 + restarts) * Limit[k] - 1 /\ (t + Ttl[k] > now => A <= Room(k, t))
    BY DEF WithinBounds
  <2>3. Room(k, t) = IF t > now THEN 0
                     ELSE IF ~Open(k) THEN R + Limit[k] - 1
                     ELSE IF t <= Opened(k) THEN R + Limit[k] - 1 + Granted(k)
                     ELSE R - 1 + Granted(k)
    BY Multiples DEF Room
  <2>4. Room(k, t)' = IF t > now + 1 THEN 0
                      ELSE IF ~Open(k)' THEN R + Limit[k] - 1
                      ELSE IF t <= Opened(k) THEN R + Limit[k] - 1 + Granted(k)
                      ELSE R - 1 + Granted(k)
    BY <1>1, <1>2, <1>3, Multiples DEF Room
  <2> HIDE DEF A, R
  <2>5. t + Ttl[k] > now' => A <= Room(k, t)'
    <3>1. CASE Open(k)
      BY <1>1, <1>3, <1>4, <2>0, <2>1, <2>2, <2>3, <2>4, <3>1
    <3>2. CASE ~Open(k)
      BY <1>1, <1>4, <2>0, <2>1, <2>2, <2>3, <2>4, <3>2
    <3>3. QED
      BY <3>1, <3>2
  <2>6. QED
    BY <2>1, <2>2, <2>5
<1>6. QED
  BY <1>1, <1>2, <1>3, <1>4, <1>5 DEF WithinBounds

\* A restart: what the lost bucket has admitted is paid for by the restart.
LEMMA RestartWithinBounds ==
  ASSUME TypeOK, TypeOK', NEW k \in Keys, WithinBounds(k), Restart
  PROVE  WithinBounds(k)'
<1> USE LimitsAssumption, TableAssumption
<1>1. restarts' = restarts + 1 /\ now' = now /\ admitted' = admitted /\ ~Open(k)'
  BY DEF Restart, Open
<1>2. Limit[k] \in Nat \ {0} /\ count[k] \in Nat /\ Granted(k) <= Limit[k]
      /\ now \in Nat /\ resetAt[k] \in Nat /\ Ttl[k] \in Nat
  <2>1. now \in Nat
    BY DEF TypeOK, Clock, Start
  <2>2. QED
    BY <2>1 DEF TypeOK, Granted
<1>3. ASSUME NEW t \in Clock
      PROVE  /\ Admissions(k, t)' <= (2 + restarts') * Limit[k] - 1
             /\ t + Ttl[k] > now => Admissions(k, t)' <= Room(k, t)'
  <2> DEFINE R == restarts * Limit[k]
             A == Admissions(k, t)
  <2>0. t \in Nat /\ Opened(k) \in Int
    BY <1>2 DEF Clock, Start, Opened
  <2>1. R \in Nat /\ A \in Nat /\ Admissions(k, t)' = A
    BY <1>1, AdmissionsGrow, AdmissionsStay, Multiples
  <2>2. A <= R + 2 * Limit[k] - 1 /\ (t + Ttl[k] > now => A <= Room(k, t))
    BY Multiples DEF WithinBounds
  <2>3. t > now => Room(k, t) = 0
    BY DEF Room
  <2>4. Room(k, t)' = IF t > now THEN 0 ELSE R + 2 * Limit[k] - 1
    BY <1>1, Multiples DEF Room
  <2>5. (2 + restarts') * Limit[k] = R + 3 * Limit[k]
    BY <1>1, Multiples
  <2> HIDE DEF A, R
  <2>6. QED
    BY <1>2, <2>0, <2>1, <2>2, <2>3, <2>4, <2>5
<1>4. QED
  BY <1>1, <1>3 DEF WithinBounds

\* The inductive invariant: how much room each key has left in each minute.
THEOREM WindowInvariance == Spec => []WindowInv
<1> USE LimitsAssumption, TableAssumption
<1>1. Init => WindowInv
  <2> SUFFICES ASSUME Init, NEW k \in Keys PROVE WithinBounds(k)
    BY DEF WindowInv
  <2>1. ~Open(k) /\ restarts = 0 /\ now = Start /\ Limit[k] \in Nat \ {0}
    BY DEF Init, Open
  <2>2. ASSUME NEW t \in Clock PROVE Admissions(k, t) = 0
    <3>1. IsFiniteSet(Clock)
      BY FS_Interval DEF Clock, Start
    <3>2. Minute(k, t) \in SUBSET Clock /\ IsFiniteSet(Minute(k, t))
      BY <3>1, FS_Subset DEF Minute
    <3>3. SumFunctionOnSet([s \in Clock |-> 0], Minute(k, t)) = 0
      BY <3>2, SumOfZeros
    <3>4. admitted[k] = [s \in Clock |-> 0]
      BY DEF Init
    <3>5. QED
      BY <3>3, <3>4 DEF Admissions, Minute
  <2>3. \A t \in Clock : Room(k, t) = IF t > now THEN 0 ELSE Limit[k] - 1
    BY <2>1 DEF Room
  <2>4. QED
    BY <2>1, <2>2, <2>3 DEF WithinBounds
<1>2. TypeOK /\ TypeOK' /\ WindowInv /\ [Next]_vars => WindowInv'
  <2> SUFFICES ASSUME TypeOK, TypeOK', WindowInv, [Next]_vars, NEW k \in Keys
               PROVE  WithinBounds(k)'
    BY DEF WindowInv
  <2>0. WithinBounds(k)
    BY DEF WindowInv
  <2>1. ASSUME NEW j \in Keys, CanActivate(j) PROVE WithinBounds(k)'
    <3>1. CASE j = k
      BY <2>0, <2>1, <3>1, RequestWithinBounds
    <3>2. CASE j # k
      <4>1. /\ now' = now /\ restarts' = restarts /\ admitted'[k] = admitted[k]
            /\ count'[k] = Kept(count)[k] /\ resetAt'[k] = Kept(resetAt)[k]
        BY <2>1, <3>2 DEF CanActivate, Kept, TypeOK
      <4>2. CASE k \in Swept
        <5>1. ~Open(k) /\ ~Open(k)'
          BY <4>1, <4>2 DEF Kept, Swept, Open, TypeOK, Clock, Start
        <5>2. QED
          BY <2>0, <4>1, <5>1, KeyStays
      <4>3. CASE k \notin Swept
        <5>1. count'[k] = count[k] /\ resetAt'[k] = resetAt[k]
          BY <4>1, <4>3 DEF Kept
        <5>2. Open(k)' <=> Open(k)
          BY <4>1, <5>1 DEF Open
        <5>3. QED
          BY <2>0, <4>1, <5>1, <5>2, KeyStays
      <4>4. QED
        BY <4>2, <4>3
    <3>3. QED
      BY <3>1, <3>2
  <2>2. CASE Tick
    BY <2>0, <2>2, TickWithinBounds
  <2>3. CASE Restart
    BY <2>0, <2>3, RestartWithinBounds
  <2>4. CASE UNCHANGED vars
    <3>1. UNCHANGED <<count, resetAt, now, admitted, restarts>>
      BY <2>4 DEF vars, tableVars
    <3>2. Open(k)' <=> Open(k)
      BY <3>1 DEF Open
    <3>3. QED
      BY <2>0, <3>1, <3>2, KeyStays
  <2>5. QED
    BY <2>1, <2>2, <2>3, <2>4 DEF Next
<1>3. QED
  BY <1>1, <1>2, LimiterTypeCorrect, PTL DEF Spec

\* docs/authentication.md:140 promises limits per minute.  Of the requests of a
\* key within its window, begun at any instant, fewer than two limits are
\* admitted, and one more for each restart (rate-limit.guard.ts:78-97).
THEOREM MinuteIsBounded == Spec => []SlidingBound
<1>1. WindowInv => SlidingBound
  BY DEF WindowInv, WithinBounds, SlidingBound
<1>2. QED
  BY <1>1, WindowInvariance, PTL
=============================================================================
