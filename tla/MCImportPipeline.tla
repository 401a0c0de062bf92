-------------------------- MODULE MCImportPipeline --------------------------
(***************************************************************************)
(* Instances of ImportPipeline for TLC.                                    *)
(***************************************************************************)
EXTENDS ImportPipeline, TLC

\* Imports, and requests, are interchangeable: used by the runs that check
\* safety only.
Symmetry == Permutations(Imports) \union Permutations(RetryReqs)

\* FairSpec with fewer files: one row with or without a name, or two rows of
\* which both or none have one.  How a run ends does not depend on the rows.
InitOfFewFiles ==
  /\ Init
  /\ \A i \in Imports : rows[i] = 2 => named[i] \in {{}, {1, 2}}

FairSpecOfFewFiles == InitOfFewFiles /\ [][Next]_vars /\ Fairness
=============================================================================
