----------------------------- MODULE MCInsights -----------------------------
(* The instance of Insights for TLC: costs that are two percent apart, so   *)
(* that trends of exactly one percent and of more occur, and half a cent    *)
(* around their average, so that averages have to be rounded.               *)
EXTENDS Insights

CONSTANTS s1, s2
=============================================================================
