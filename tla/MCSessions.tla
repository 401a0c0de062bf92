----------------------------- MODULE MCSessions -----------------------------
(***************************************************************************)
(* Instances of Sessions for TLC.                                          *)
(***************************************************************************)
EXTENDS Sessions

CONSTANTS left, right

\* One page with two calls, and another one with one call.
MCTabOf == [c \in Calls |-> IF c = "c3" THEN right ELSE left]
=============================================================================
