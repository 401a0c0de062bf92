------------------------------- MODULE Freight -------------------------------
(***************************************************************************)
(* What a carrier asks for a cargo.  Money is in cents, a price per km in  *)
(* hundredths of a cent, a risk in ten-thousandths: the decimals that the  *)
(* columns of the table have.  JavaScript computes in binary fractions,    *)
(* which may differ from this by a cent where a half is rounded.           *)
(***************************************************************************)
EXTENDS Integers

Larger(a, b) == IF a < b THEN b ELSE a

\* round2: the integer next to n / d, halves up.
RoundDiv(n, d) == (2 * n + d) \div (2 * d)

\* The chargeable weight times the cubing factor of the carrier.
ChargeableWeight(t, cargo) ==
  Larger(cargo.weightKg * t.cubingFactor, cargo.volumeCm3)

FreightCost(t, cargo) ==
  RoundDiv(t.baseFee * t.cubingFactor + ChargeableWeight(t, cargo) * t.pricePerKg,
           t.cubingFactor)

DistanceCost(t, km) == RoundDiv(km * t.pricePerKm, 100)

RiskCost(t, cargo) == RoundDiv(cargo.cargoValue * t.riskPercent, 10000)

HasDiscount(t, cargo) == ChargeableWeight(t, cargo) > 500 * t.cubingFactor

FullCost(t, cargo, km) ==
  FreightCost(t, cargo) + DistanceCost(t, km) + RiskCost(t, cargo)

\* calculate: the whole total is rebated, not only what is above 500 kg.
TotalCost(t, cargo, km) ==
  IF HasDiscount(t, cargo) THEN RoundDiv(95 * FullCost(t, cargo, km), 100)
                           ELSE FullCost(t, cargo, km)
=============================================================================
