---------------------------- MODULE MCSimulations ----------------------------
(***************************************************************************)
(* Instances of Simulations for TLC, with the costs of Freight.            *)
(***************************************************************************)
EXTENDS Simulations, Freight, TLC

CONSTANTS h1, h2, s1, s2, k1, k2

\* R$ 50.00 + 1.00 per kg + 0.50 per km + 1 %, and a carrier that is dearer by
\* weight and cheaper by distance.
MCTerms ==
  {[baseFee |-> 5000, pricePerKg |-> 100, pricePerKm |-> 5000,
    riskPercent |-> 100, cubingFactor |-> 6000],
   [baseFee |-> 5000, pricePerKg |-> 200, pricePerKm |-> 2500,
    riskPercent |-> 100, cubingFactor |-> 3000]}

\* A large cargo: its volume counts with the second carrier's factor only,
\* which also has the rebate.
MCCargos == {[weightKg |-> 400, volumeCm3 |-> 1800000, cargoValue |-> 1000]}

\* São Paulo to Curitiba.
MCCost(t, cargo, route) == TotalCost(t, cargo, 410)

MCCosts == {MCCost(t, g, "SP-CWB") : t \in MCTerms, g \in MCCargos}

Symmetry ==
  Permutations({h1, h2}) \union Permutations({s1, s2}) \union Permutations({k1, k2})
=============================================================================
