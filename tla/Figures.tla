------------------------------- MODULE Figures -------------------------------
(***************************************************************************)
(* What the dashboard and the insights compute from the simulations of a   *)
(* tenant.  rows are what a query returned: for each simulation its route, *)
(* when it was created, what each carrier asks (total), and the carriers   *)
(* that are marked as the cheapest.  Averages are sums and counts until    *)
(* they are rounded to cents.                                              *)
(***************************************************************************)
EXTENDS Freight, FiniteSets, FiniteSetsExt

-----------------------------------------------------------------------------
QuotesIn(rows) == UNION {{s} \X DOMAIN rows[s].total : s \in DOMAIN rows}

Asked(rows, Q) == {rows[q[1]].total[q[2]] : q \in Q}

SumOf(rows, Q) == SumFunction([q \in Q |-> rows[q[1]].total[q[2]]])

Mean(rows, Q) ==
  IF Q = {} THEN 0 ELSE RoundDiv(SumOf(rows, Q), Cardinality(Q))

MarkedIn(rows) == {q \in QuotesIn(rows) : q[2] \in rows[q[1]].cheapest}

CarriersIn(rows) == {q[2] : q \in QuotesIn(rows)}

RoutesIn(rows) == {rows[s].route : s \in DOMAIN rows}

OnRoute(rows, r) == {s \in DOMAIN rows : rows[s].route = r}

\* What could have been saved by taking the cheapest quote instead of the
\* selected one, which is the first that is marked as the cheapest.
Saving(row) ==
  IF row.cheapest = {} THEN 0
  ELSE row.total[CHOOSE k \in row.cheapest : TRUE]
         - Min({row.total[k] : k \in DOMAIN row.total})

PotentialSavings(rows) == SumFunction([s \in DOMAIN rows |-> Saving(rows[s])])

-----------------------------------------------------------------------------
(* DashboardService                                                        *)

Overview(rows) ==
  LET shown == IF MarkedIn(rows) # {} THEN MarkedIn(rows) ELSE QuotesIn(rows)
  IN [totalSimulations |-> Cardinality(DOMAIN rows),
      avgFreight |-> Mean(rows, shown),
      minFreight |-> IF shown = {} THEN 0 ELSE Min(Asked(rows, shown)),
      maxFreight |-> IF shown = {} THEN 0 ELSE Max(Asked(rows, shown)),
      potentialSavings |-> PotentialSavings(rows),
      carriersUsed |-> Cardinality(CarriersIn(rows))]

\* trendWeekly
WeeklyCost(rows, w) == Mean(rows, {q \in MarkedIn(rows) : rows[q[1]].week = w})

QuotesBy(rows, k) == {q \in QuotesIn(rows) : q[2] = k}

\* Seeded defect: the count starts at the second quote of a carrier.
CarrierFiguresShort(rows) ==
  [k \in CarriersIn(rows) |->
     [avgCost |-> Mean(rows, QuotesBy(rows, k)),
      totalCost |-> SumOf(rows, QuotesBy(rows, k)),
      simulationCount |-> Cardinality(QuotesBy(rows, k)) - 1]]

CarrierFigures(rows) ==
  [k \in CarriersIn(rows) |->
     [avgCost |-> Mean(rows, QuotesBy(rows, k)),
      totalCost |-> SumOf(rows, QuotesBy(rows, k)),
      simulationCount |-> Cardinality(QuotesBy(rows, k))]]

\* The averages of the simulations, which have one, two ... quotes, as
\* multiples of a common fraction.
Fractions(rows) ==
  FoldFunction(LAMBDA a, b : a * b, 1,
               [s \in DOMAIN rows |-> Cardinality(DOMAIN rows[s].total)])

SumOfAverages(rows, S) ==
  SumFunction([s \in S |-> SumOf(rows, {s} \X DOMAIN rows[s].total)
                 * (Fractions(rows) \div Cardinality(DOMAIN rows[s].total))])

\* avgCost adds the averages up and divides by nothing.
RouteFigures(rows) ==
  [r \in RoutesIn(rows) |->
     [count |-> Cardinality(OnRoute(rows, r)),
      avgCost |-> RoundDiv(SumOfAverages(rows, OnRoute(rows, r)), Fractions(rows))]]

-----------------------------------------------------------------------------
(* InsightsService.generateRules.  The figure of a rule is a fraction,     *)
(* figure / per, which is stored as it is.                                 *)

\* Seeded defect: the lowest sum, not the lowest average.
LowestSum(rows) ==
  {k \in CarriersIn(rows) : \A j \in CarriersIn(rows) :
     SumOf(rows, QuotesBy(rows, k)) <= SumOf(rows, QuotesBy(rows, j))}

\* The carriers with the lowest average; which of them is met first depends
\* on the order of the rows.
LowestAverage(rows) ==
  {k \in CarriersIn(rows) : \A j \in CarriersIn(rows) :
     SumOf(rows, QuotesBy(rows, k)) * Cardinality(QuotesBy(rows, j))
       <= SumOf(rows, QuotesBy(rows, j)) * Cardinality(QuotesBy(rows, k))}

MostFrequent(rows) ==
  {r \in RoutesIn(rows) : \A q \in RoutesIn(rows) :
     Cardinality(OnRoute(rows, q)) <= Cardinality(OnRoute(rows, r))}

Share(rows, r) ==
  RoundDiv(100 * Cardinality(OnRoute(rows, r)), Cardinality(DOMAIN rows))

Economy(rows) ==
  IF PotentialSavings(rows) > 0
  THEN {[type |-> "economy", about |-> "", figure |-> PotentialSavings(rows),
         per |-> 1]}
  ELSE {}

\* The lowest average, not rounded.
Carrier(rows) ==
  {[type |-> "carrier", about |-> k, figure |-> SumOf(rows, QuotesBy(rows, k)),
    per |-> Cardinality(QuotesBy(rows, k))] : k \in LowestAverage(rows)}

\* The figure in whole reais, as the text of the insight has it.
InReais(rule) == RoundDiv(rule.figure, 100 * rule.per)

Concentration(rows) ==
  {[type |-> "concentration", about |-> r, figure |-> Share(rows, r),
    per |-> 1] : r \in MostFrequent(rows)}

\* Quotes of the last period against those of the one before; a change of one
\* percent or less is not worth a word.
Trend(rows, now, period) ==
  LET within(from, to) ==
        {q \in QuotesIn(rows) : rows[q[1]].week >= from /\ rows[q[1]].week < to}
      recent == within(now - period, now + 1)
      previous == within(now - 2 * period, now - period)
      \* averages over the common denominator
      r == SumOf(rows, recent) * Cardinality(previous)
      p == SumOf(rows, previous) * Cardinality(recent)
      change == RoundDiv(100 * (r - p), p)
  IN IF recent # {} /\ p > 0 /\ (100 * (r - p) > p \/ 100 * (p - r) > p)
     THEN {[type |-> "trend", about |-> IF r < p THEN "caiu" ELSE "subiu",
            figure |-> change, per |-> 1]}
     ELSE {}
=============================================================================
