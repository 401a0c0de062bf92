----------------------------- MODULE MCAccounts -----------------------------
(* The instance of Accounts for TLC: one person with an account at each    *)
(* provider, and another one; the requests are interchangeable, and so are *)
(* the providers.                                                          *)
EXTENDS Accounts, TLC

CONSTANTS h1, h2, google, github, form

MCEmailOf == [p \in Profiles |-> "ana"]
Symmetry == Permutations(Handlers) \union Permutations(Profiles)
=============================================================================
