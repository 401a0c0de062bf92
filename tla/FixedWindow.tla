---------------------------- MODULE FixedWindow ----------------------------
(***************************************************************************)
(* What the rate limiter promises for every key, which is a handler and an *)
(* address.  A window opens with the first request after the previous one  *)
(* has ended, lasts Ttl[k], and admits the first Limit[k] requests.  There *)
(* is no table here and nothing to clean: a window that ends is forgotten. *)
(***************************************************************************)
EXTENDS Integers

CONSTANTS Keys, Limit, Ttl

VARIABLES
  used,    \* requests in the open window of a key, refused ones included
  left,    \* the time until it ends, 0 when no window is open
  answer   \* what the latest request was told

vars == <<used, left, answer>>

\* The verdict, X-RateLimit-Remaining and X-RateLimit-Reset.
Reply(k, n, wait) ==
  [key |-> k, ok |-> n <= Limit[k],
   remaining |-> IF n <= Limit[k] THEN Limit[k] - n ELSE 0, wait |-> wait]

NoReply == [ok |-> TRUE]

Init ==
  /\ used = [k \in Keys |-> 0]
  /\ left = [k \in Keys |-> 0]
  /\ answer = NoReply

Request(k) ==
  /\ used' = [used EXCEPT ![k] = IF left[k] > 0 THEN @ + 1 ELSE 1]
  /\ left' = [left EXCEPT ![k] = IF @ > 0 THEN @ ELSE Ttl[k]]
  /\ answer' = Reply(k, used'[k], left'[k])

Tick ==
  /\ left' = [k \in Keys |-> IF left[k] > 0 THEN left[k] - 1 ELSE 0]
  /\ used' = [k \in Keys |-> IF left[k] > 1 THEN used[k] ELSE 0]
  /\ UNCHANGED answer

\* The process that holds the windows is replaced.
Forget ==
  /\ used' = [k \in Keys |-> 0]
  /\ left' = [k \in Keys |-> 0]
  /\ UNCHANGED answer

Next == (\E k \in Keys : Request(k)) \/ Tick \/ Forget

Spec == Init /\ [][Next]_vars
=============================================================================
