---------------------------- MODULE MCRateLimit ----------------------------
(***************************************************************************)
(* Instances of RateLimit for TLC.                                         *)
(***************************************************************************)
EXTENDS RateLimit

CONSTANTS login, confirm

\* Two handlers with different limits and windows.
MCKeys  == {login, confirm}
MCLimit == [k \in {login, confirm} |-> IF k = login THEN 2 ELSE 1]
MCTtl   == [k \in {login, confirm} |-> IF k = login THEN 2 ELSE 3]
=============================================================================
