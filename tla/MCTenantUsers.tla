--------------------------- MODULE MCTenantUsers ---------------------------
(***************************************************************************)
(* Instances of TenantUsers for TLC.                                       *)
(***************************************************************************)
EXTENDS TenantUsers, TLC

\* Requests, and the users other than the founder, are interchangeable.
Symmetry == Permutations(Requests) \union Permutations(Users \ {Founder})
=============================================================================
