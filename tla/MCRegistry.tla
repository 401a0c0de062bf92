----------------------------- MODULE MCRegistry -----------------------------
(***************************************************************************)
(* Instances of Registry for TLC.                                          *)
(***************************************************************************)
EXTENDS Registry, TLC

\* Imports, requests, tenants, names and document numbers are
\* interchangeable.
Symmetry ==
  Permutations(Jobs) \union Permutations(Requests) \union
  Permutations(Tenants) \union Permutations(Names) \union
  Permutations(Numbers)
=============================================================================
