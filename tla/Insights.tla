------------------------------ MODULE Insights ------------------------------
(***************************************************************************)
(* The dashboard of a tenant and the insights that are generated from the  *)
(* same simulations.  regenerate reads them by three queries and inserts   *)
(* the insights one by one, while simulations come and go, which they do   *)
(* as SimulationTable says.  Nobody ever changes or removes an insight.    *)
(* The names do not clash with those of Simulations, so that one module    *)
(* can extend both.                                                        *)
(***************************************************************************)
EXTENDS SimulationTable, Figures

CONSTANTS
  Period,       \* four weeks
  MaxWeek,      \* bound: the end of time
  MaxChanges,   \* bound: simulations that come or go during one regenerate
  Runs          \* calls of regenerate

ASSUME PeriodAssumption ==
  Period \in Nat \ {0} /\ MaxWeek \in Nat /\ MaxChanges \in Nat

ASSUME FiniteAssumption == IsFiniteSet(Carriers)

VARIABLES
  now, week,    \* the time, and when each simulation was created
  awaits,       \* the call each regenerate awaits next
  read,         \* what its queries returned
  rules,        \* the insights it has still to insert
  inserted,     \* those it has inserted
  changes       \* history: what came or went since its first query

runVars == <<awaits, read, rules, inserted>>
insightVars == <<tableVars, now, week, runVars, changes>>

-----------------------------------------------------------------------------
Types == {"economy", "carrier", "concentration", "trend"}

\* The rows of the tenant.
Rows ==
  [s \in Stored |->
     [route |-> routeOf[s], week |-> week[s],
      total |-> [k \in Quoted(quotes[s]) |-> quotes[s][k]],
      cheapest |-> isCheapest[s]]]

Nothing == LET none == [s \in {} |-> 0] IN [sims |-> none, quotes |-> none]

\* The type invariant; a run inserts at most one insight of a type, and none
\* of them twice.
InsightsTypeOK ==
  /\ now \in 0..MaxWeek /\ week \in [Ids -> 0..now]
  /\ awaits \in [Runs -> {"sims", "quotes", "routes", "insert"}]
  /\ DOMAIN read = Runs
  /\ \A h \in Runs :
       /\ awaits[h] # "insert" => rules[h] = {} /\ inserted[h] = {}
       /\ DOMAIN read[h] = {"sims", "quotes"}
       /\ \A rule \in rules[h] \union inserted[h] : rule.type \in Types
       /\ \A rule \in rules[h], done \in inserted[h] : rule.type # done.type
  /\ changes \in [Runs -> 0..MaxChanges]

InsightsInit ==
  /\ TableInit
  /\ now = 0 /\ week = [s \in Ids |-> 0]
  /\ awaits = [h \in Runs |-> "sims"]
  /\ read = [h \in Runs |-> Nothing]
  /\ rules = [h \in Runs |-> {}]
  /\ inserted = [h \in Runs |-> {}]
  /\ changes = [h \in Runs |-> 0]

-----------------------------------------------------------------------------
(* The simulations                                                         *)

Busy(h) == awaits[h] # "sims"

\* Bounds how much the world moves under a handler.
Disturb ==
  /\ \A h \in Runs : Busy(h) => changes[h] < MaxChanges
  /\ changes' = [h \in Runs |-> IF Busy(h) THEN changes[h] + 1 ELSE 0]
  /\ UNCHANGED runVars

Simulate(s) ==
  /\ \E route \in Routes, offer \in Offers : Store(s, route, offer)
  /\ week' = [week EXCEPT ![s] = now]
  /\ Disturb
  /\ UNCHANGED now

Discard(s) ==
  /\ Remove(s)
  /\ week' = [week EXCEPT ![s] = 0]
  /\ Disturb
  /\ UNCHANGED now

Tick ==
  /\ now < MaxWeek
  /\ now' = now + 1
  /\ Disturb
  /\ UNCHANGED <<tableVars, week>>

-----------------------------------------------------------------------------
(* InsightsService.regenerate                                              *)

beyondRuns == <<tableVars, now, week>>

Await(h, p) == awaits' = [awaits EXCEPT ![h] = p]

GetOverviewData(h) ==
  /\ awaits[h] = "sims"
  /\ read' = [read EXCEPT ![h].sims = Rows]
  /\ Await(h, "quotes")
  /\ UNCHANGED <<beyondRuns, rules, inserted, changes>>

GetCarrierData(h) ==
  /\ awaits[h] = "quotes"
  /\ read' = [read EXCEPT ![h].quotes = Rows]
  /\ Await(h, "routes")
  /\ UNCHANGED <<beyondRuns, rules, inserted, changes>>

\* The handler has answered, or is about to answer; what it read is gone.
EndRun(h) ==
  /\ Await(h, "sims")
  /\ read' = [read EXCEPT ![h] = Nothing]
  /\ rules' = [rules EXCEPT ![h] = {}]
  /\ inserted' = [inserted EXCEPT ![h] = {}]
  /\ changes' = [changes EXCEPT ![h] = 0]

\* generateRules.  The first query decides whether there is anything to say.
Candidates(r) ==
  IF DOMAIN r.sims = {} THEN {}
  ELSE Economy(r.sims) \union Carrier(r.quotes) \union Concentration(Rows)
         \union Trend(r.sims, now, Period)

\* One rule of each type that has any.
Generated(r) ==
  {R \in SUBSET Candidates(r) :
     \A c \in Candidates(r) : \E x \in R : {y \in R : y.type = c.type} = {x}}

\* getRouteData is the last query, and the rules follow at once.
GetRouteData(h) ==
  /\ awaits[h] = "routes"
  /\ \E R \in Generated(read[h]) :
       /\ rules' = [rules EXCEPT ![h] = R]
       /\ Await(h, "insert")
  /\ read' = [read EXCEPT ![h] = Nothing]
  /\ UNCHANGED <<beyondRuns, inserted, changes>>

Order == <<"economy", "carrier", "concentration", "trend">>

First(R) ==
  CHOOSE rule \in R :
    \A other \in R : \E i, j \in 1..4 :
      rule.type = Order[i] /\ other.type = Order[j] /\ i <= j

\* Seeded defect: what was inserted is still to be inserted.
InsertAgain(h) ==
  LET rule == First(rules[h]) IN
  /\ awaits[h] = "insert" /\ rules[h] # {}
  /\ inserted' = [inserted EXCEPT ![h] = @ \union {rule}]
  /\ UNCHANGED <<beyondRuns, awaits, read, rules, changes>>

Insert(h) ==
  LET rule == First(rules[h]) IN
  /\ awaits[h] = "insert" /\ rules[h] # {}
  /\ inserted' = [inserted EXCEPT ![h] = @ \union {rule}]
  /\ rules' = [rules EXCEPT ![h] = @ \ {rule}]
  /\ UNCHANGED <<beyondRuns, awaits, read, changes>>

\* All is inserted; or a query or an insert is rejected, and what was inserted
\* stays.
Reply(h) ==
  /\ Busy(h)
  /\ EndRun(h)
  /\ UNCHANGED beyondRuns

InsightsNext ==
  \/ \E s \in Ids : Simulate(s) \/ Discard(s)
  \/ Tick
  \/ \E h \in Runs :
       GetOverviewData(h) \/ GetCarrierData(h) \/ GetRouteData(h) \/ Insert(h)
         \/ Reply(h)

InsightsSpec == InsightsInit /\ [][InsightsNext]_insightVars

-----------------------------------------------------------------------------
(* Correctness                                                             *)

\* dashboard.service.ts:38-193: the three figures of the dashboard, computed by
\* three queries in different ways, say the same of the same simulations: the
\* cheapest freight is the cheapest quote there is, every simulation is on one
\* route and every quote by one carrier, averages lie between what was averaged,
\* and what was marked as the cheapest leaves nothing to be saved.
FiguresAgree ==
  LET all == QuotesIn(Rows)
      o == Overview(Rows)
      byCarrier == CarrierFigures(Rows)
      byRoute == RouteFigures(Rows)
  IN /\ o.potentialSavings = 0
     /\ Stored # {} => o.minFreight = Min(Asked(Rows, all))
     /\ o.minFreight <= o.avgFreight /\ o.avgFreight <= o.maxFreight
     /\ \A s \in Stored :
          LET weekly == WeeklyCost(Rows, week[s])
          IN o.minFreight <= weekly /\ weekly <= o.maxFreight
     /\ o.carriersUsed = Cardinality(DOMAIN byCarrier)
     /\ SumFunction([r \in DOMAIN byRoute |-> byRoute[r].count]) = o.totalSimulations
     /\ SumFunction([k \in DOMAIN byCarrier |-> byCarrier[k].simulationCount])
          = Cardinality(all)
     /\ SumFunction([k \in DOMAIN byCarrier |-> byCarrier[k].totalCost])
          = SumOf(Rows, all)
     /\ \A k \in DOMAIN byCarrier :
          /\ o.minFreight <= byCarrier[k].avgCost
          /\ byCarrier[k].avgCost <= Max(Asked(Rows, QuotesBy(Rows, k)))
     /\ \A r \in DOMAIN byRoute :
          byRoute[r].avgCost >= byRoute[r].count * o.minFreight

\* What an insight may say, given what the dashboard shows.
MatchesDashboard(i) ==
  LET byCarrier == CarrierFigures(Rows)
      byRoute == RouteFigures(Rows)
  IN CASE i.type = "economy" -> i.figure = Overview(Rows).potentialSavings
       [] i.type = "carrier" ->
            LET shown == byCarrier[i.about].avgCost
            IN /\ shown = RoundDiv(i.figure, i.per)
               /\ \A k \in DOMAIN byCarrier : shown <= byCarrier[k].avgCost
               /\ shown - 50 <= 100 * InReais(i)
               /\ 100 * InReais(i) <= shown + 50
       [] i.type = "concentration" ->
            /\ \A r \in DOMAIN byRoute : byRoute[r].count <= byRoute[i.about].count
            /\ (2 * i.figure + 1) * Cardinality(DOMAIN byRoute) >= 200
       [] i.type = "trend" ->
            LET old == {q \in QuotesIn(Rows) : week[q[1]] < now - Period}
                new == QuotesIn(Rows) \ old
            IN /\ old # {} /\ new # {}
               /\ IF i.about = "caiu"
                    THEN i.figure < 0 /\ Min(Asked(Rows, new)) < Max(Asked(Rows, old))
                    ELSE i.figure > 0 /\ Max(Asked(Rows, new)) > Min(Asked(Rows, old))

\* insights.service.ts:36-66: the insights of a run that nothing disturbed say
\* what the dashboard shows: the carrier with the lowest average, which the
\* insight keeps as it is and tells in whole reais, so that the dashboard's
\* average in cents is what it rounds to and at most half a real off what it
\* tells; the most frequent route and at least its share of an even split
\* (rounded to a percent); no saving that the dashboard does not have; and a
\* trend only if some freight did change in its direction.
InsightsMatchDashboard ==
  \A h \in Runs : \A i \in inserted[h] \union rules[h] :
    Busy(h) /\ changes[h] = 0 => MatchesDashboard(i)
=============================================================================
