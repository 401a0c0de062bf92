--------------------------- MODULE SimulationTable ---------------------------
(***************************************************************************)
(* What the freight simulations of a tenant are to everybody who reads     *)
(* them: each appears whole, with the quotes of the carriers that were     *)
(* compared and the cheapest of them marked, and stays as it is until it   *)
(* is removed.  Simulations implements this; Insights is built on it.      *)
(***************************************************************************)
EXTENDS Integers

CONSTANTS
  Ids, Routes, Carriers,
  Costs                   \* what a carrier may ask, in cents

ASSUME TableAssumption == "none" \notin Routes /\ Costs \subseteq Nat

VARIABLES
  routeOf,    \* the route of each simulation, "none" while there is no row
  quotes,     \* its quotes: what each carrier asks, or NoQuote
  isCheapest  \* the carriers whose quotes are marked as the cheapest

tableVars == <<routeOf, quotes, isCheapest>>

-----------------------------------------------------------------------------
NoQuote == -1

Offers == [Carriers -> Costs \union {NoQuote}]

NoOffer == [k \in Carriers |-> NoQuote]

Quoted(offer) == {k \in Carriers : offer[k] # NoQuote}

\* Several carriers may ask the same.
CheapestOf(offer) ==
  {k \in Quoted(offer) : \A j \in Quoted(offer) : offer[k] <= offer[j]}

Stored == {s \in Ids : routeOf[s] # "none"}

TableInit ==
  /\ routeOf = [s \in Ids |-> "none"]
  /\ quotes = [s \in Ids |-> NoOffer]
  /\ isCheapest = [s \in Ids |-> {}]

Store(s, route, offer) ==
  /\ s \notin Stored
  /\ Quoted(offer) # {}
  /\ routeOf' = [routeOf EXCEPT ![s] = route]
  /\ quotes' = [quotes EXCEPT ![s] = offer]
  /\ isCheapest' = [isCheapest EXCEPT ![s] = CheapestOf(offer)]

Remove(s) ==
  /\ s \in Stored
  /\ routeOf' = [routeOf EXCEPT ![s] = "none"]
  /\ quotes' = [quotes EXCEPT ![s] = NoOffer]
  /\ isCheapest' = [isCheapest EXCEPT ![s] = {}]

TableNext ==
  \E s \in Ids :
    \/ \E route \in Routes, offer \in Offers : Store(s, route, offer)
    \/ Remove(s)

TableSpec == TableInit /\ [][TableNext]_tableVars
=============================================================================
