--------------------------- MODULE MCCredentials ---------------------------
(* The instance of Credentials for TLC: the requests are interchangeable. *)
EXTENDS Credentials, TLC

CONSTANTS h1, h2, h3

Symmetry == Permutations(Handlers)
=============================================================================
