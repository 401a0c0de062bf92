-------------------------- MODULE SimulationsProofs --------------------------
(***************************************************************************)
(* Theorems about Simulations, for every set of handlers, simulations,     *)
(* carriers and customers, and all terms and cargos; and about Insights,   *)
(* whose figures are computed from the same table, for every number of     *)
(* simulations and quotes and all costs.                                   *)
(***************************************************************************)
EXTENDS Simulations, Insights, FiniteSetTheorems, WellFoundedInduction, TLAPS

-----------------------------------------------------------------------------
(* The least of a set                                                      *)

Below == {p \in Nat \X Nat : p[1] < p[2]}

\* A set of natural numbers has a least one.
LEMMA LeastOf ==
  ASSUME NEW T \in SUBSET Nat, T # {}
  PROVE  \E least \in T : \A n \in T : least <= n
<1>1. IsWellFoundedOn(Below, Nat)
  BY NatLessThanWellFounded DEF OpToRel, Below
<1>2. PICK least \in T : \A n \in T : <<n, least>> \notin Below
  BY <1>1, WFMin
<1>3. ASSUME NEW n \in T PROVE least <= n
  <2>1. <<n, least>> \in Nat \X Nat /\ ~(n < least)
    BY <1>2 DEF Below
  <2>2. QED
    BY <2>1
<1>4. QED
  BY <1>3

-----------------------------------------------------------------------------
(* The cheapest quotes                                                     *)

\* What create marks with the minimum it computes are the cheapest quotes.
LEMMA MarkedAreCheapest ==
  ASSUME NEW q \in Offers, Quoted(q) # {}
  PROVE  Marked(q) = CheapestOf(q)
<1> USE TableAssumption
<1> DEFINE asked == {q[k] : k \in Quoted(q)}
<1>1. \A k \in Quoted(q) : q[k] \in Nat
  BY DEF Offers, Quoted, NoQuote
<1>2. asked \subseteq Nat /\ asked # {}
  BY <1>1
<1>3. PICK x \in asked : \A y \in asked : x <= y
  <2> HIDE DEF asked
  <2>1. QED
    BY <1>2, LeastOf
<1> DEFINE minTotal == CHOOSE a \in asked : \A b \in asked : a <= b
<1>6. minTotal \in asked /\ \A b \in asked : minTotal <= b
  BY <1>3
<1>7. Marked(q) = {k \in Quoted(q) : q[k] = minTotal}
  BY DEF Marked
<1> HIDE DEF minTotal
<1>8. \A k \in Quoted(q) :
        q[k] = minTotal <=> \A j \in Quoted(q) : q[k] <= q[j]
  <2> SUFFICES ASSUME NEW k \in Quoted(q)
               PROVE  q[k] = minTotal <=> \A j \in Quoted(q) : q[k] <= q[j]
    OBVIOUS
  <2>1. PICK i \in Quoted(q) : minTotal = q[i]
    BY <1>6
  <2>2. minTotal <= q[k] /\ q[k] \in Nat /\ q[i] \in Nat
    BY <1>1, <1>6
  <2>3. ASSUME q[k] = minTotal PROVE \A j \in Quoted(q) : q[k] <= q[j]
    BY <1>6, <2>3
  <2>4. ASSUME \A j \in Quoted(q) : q[k] <= q[j] PROVE q[k] = minTotal
    BY <2>1, <2>2, <2>4
  <2>5. QED
    BY <2>3, <2>4
<1>9. QED
  BY <1>7, <1>8 DEF CheapestOf

-----------------------------------------------------------------------------
(* Type correctness                                                        *)

\* Every active carrier gives a quote.
LEMMA OffersAreQuoted ==
  ASSUME TypeOK, active # {}, NEW route \in Routes, NEW cargo \in Cargos
  PROVE  /\ OfferOf(route, cargo) \in Offers
         /\ Quoted(OfferOf(route, cargo)) # {}
<1> USE TableAssumption, CostAssumption DEF TypeOK, OfferOf
<1>1. \A k \in active : Cost(terms[k], cargo, route) \in Costs
  OBVIOUS
<1>2. OfferOf(route, cargo) \in Offers
  BY <1>1 DEF Offers
<1>3. PICK k \in active : k \in Carriers
  OBVIOUS
<1>4. OfferOf(route, cargo)[k] \in Nat
  BY <1>1, <1>3
<1>5. k \in Quoted(OfferOf(route, cargo))
  BY ONLY <1>3, <1>4 DEF Quoted, NoQuote
<1>6. QED
  BY <1>2, <1>5

LEMMA NoOfferType == NoOffer \in Offers
BY DEF NoOffer, Offers

\* A handler that ends leaves the types as they are.
LEMMA FinishTyped ==
  ASSUME TypeOK, NEW h \in Handlers, Finish(h), UNCHANGED <<customers, carrierVars>>,
         routeOf' \in [Ids -> Routes \union {"none"}], quotes' \in [Ids -> Offers],
         isCheapest' \in [Ids -> SUBSET Carriers], used' = used, Stored' \subseteq used,
         customerId' \in [Ids -> Customers \union {"nobody"}]
  PROVE  TypeOK'
<1> USE NoOfferType DEF TypeOK, Finish, Goto, carrierVars, Phases
<1>1. /\ phase' \in [Handlers -> Phases] /\ client' \in [Handlers -> Customers \union {"nobody"}]
      /\ hauler' \in [Handlers -> Carriers \union {"nobody"}]
      /\ subject' \in [Handlers -> Ids \union {"nobody"}]
      /\ place' \in [Handlers -> Routes \union {"none"}] /\ offer' \in [Handlers -> Offers]
      /\ known' \in [Handlers -> SUBSET used']
  OBVIOUS
<1>2. phase'[h] = "idle" /\ \A i \in Handlers \ {h} :
        /\ phase'[i] = phase[i] /\ client'[i] = client[i] /\ hauler'[i] = hauler[i]
        /\ subject'[i] = subject[i] /\ place'[i] = place[i] /\ offer'[i] = offer[i]
  <2>1. /\ phase \in [Handlers -> Phases] /\ DOMAIN client = Handlers
        /\ DOMAIN hauler = Handlers /\ DOMAIN subject = Handlers
        /\ DOMAIN place = Handlers /\ DOMAIN offer = Handlers
    BY DEF TypeOK
  <2>2. \A i \in Handlers \ {h} :
          /\ phase'[i] = phase[i] /\ client'[i] = client[i] /\ hauler'[i] = hauler[i]
          /\ subject'[i] = subject[i] /\ place'[i] = place[i] /\ offer'[i] = offer[i]
    BY ONLY <2>1, Finish(h), h \in Handlers DEF Finish, Goto
  <2>3. phase'[h] = "idle"
    BY ONLY <2>1, Finish(h), h \in Handlers DEF Finish, Goto
  <2>4. QED
    BY <2>2, <2>3
<1>3. \A i \in Handlers :
        /\ phase'[i] = "store" => Quoted(offer'[i]) # {} /\ place'[i] \in Routes
        /\ phase'[i] = "delete simulation" => subject'[i] \in Ids
        /\ phase'[i] \in {"selections", "delete carrier", "update carrier"} =>
             hauler'[i] \in Carriers
        /\ phase'[i] \in {"look", "delete customer"} => client'[i] \in Customers
  <2> SUFFICES ASSUME NEW i \in Handlers
               PROVE  /\ phase'[i] = "store" => Quoted(offer'[i]) # {} /\ place'[i] \in Routes
                      /\ phase'[i] = "delete simulation" => subject'[i] \in Ids
                      /\ phase'[i] \in {"selections", "delete carrier", "update carrier"} =>
                           hauler'[i] \in Carriers
                      /\ phase'[i] \in {"look", "delete customer"} => client'[i] \in Customers
    OBVIOUS
  <2>1. CASE i = h
    BY <1>2, <2>1
  <2>2. CASE i # h
    BY ZenonT(30), <1>2, <2>2
  <2>3. QED
    BY <2>1, <2>2
<1>4. QED
  BY <1>1, <1>3

\* Every variable keeps its type: the ids in use cover the rows, and a handler
\* that is about to write has something to write.
THEOREM SimulationsTypeCorrect == Spec => []TypeOK
<1>1. Init => TypeOK
  BY NoOfferType DEF Init, TableInit, TypeOK, Phases, Stored
<1>2. TypeOK /\ [Next]_vars => TypeOK'
  <2> SUFFICES ASSUME TypeOK, [Next]_vars PROVE TypeOK'
    OBVIOUS
  <2> USE DEF Goto, Phases, simVars, carrierVars, tableVars
  <2>1. ASSUME NEW h \in Handlers, NEW c \in Customers \union {"nobody"}, AskCreate(h, c)
        PROVE  TypeOK'
    BY ZenonT(30), <2>1 DEF AskCreate, TypeOK, Stored
  <2>2. ASSUME NEW h \in Handlers, NEW route \in Routes, NEW cargo \in Cargos,
               FindCarriers(h, route, cargo)
        PROVE  TypeOK'
    <3>1. OfferOf(route, cargo) \in Offers /\ Quoted(OfferOf(route, cargo)) # {}
      BY <2>2, OffersAreQuoted DEF FindCarriers
    <3>2. QED
      BY ZenonT(30), <2>2, <3>1 DEF FindCarriers, TypeOK, Stored
  <2>3. ASSUME NEW h \in Handlers, NoCarriers(h) \/ Answer(h) \/ Rejected(h)
        PROVE  TypeOK'
    <3>1. Finish(h) /\ UNCHANGED <<simVars, customers, carrierVars>>
      BY ONLY <2>3 DEF NoCarriers, Answer, Rejected
    <3>2. /\ UNCHANGED <<customers, carrierVars>>
          /\ routeOf' = routeOf /\ quotes' = quotes /\ isCheapest' = isCheapest
          /\ used' = used /\ customerId' = customerId
      BY ONLY <3>1 DEF simVars, tableVars, carrierVars
    <3>3. Stored' = Stored
      BY ONLY <3>2 DEF Stored
    <3>4. /\ routeOf \in [Ids -> Routes \union {"none"}] /\ quotes \in [Ids -> Offers]
          /\ isCheapest \in [Ids -> SUBSET Carriers] /\ Stored \subseteq used
          /\ customerId \in [Ids -> Customers \union {"nobody"}]
      BY ONLY TypeOK DEF TypeOK
    <3>5. QED
      BY ONLY TypeOK, h \in Handlers, <3>1, <3>2, <3>3, <3>4, FinishTyped
  <2>4. ASSUME NEW h \in Handlers, NEW s \in Ids, StoreSimulation(h, s) PROVE TypeOK'
    <3>1. Marked(offer[h]) \subseteq Carriers
      BY DEF Marked, Quoted
    <3>2. isCheapest' \in [Ids -> SUBSET Carriers] /\ used' \subseteq Ids
          /\ Stored' \subseteq used'
      BY ZenonT(30), <2>4, <3>1 DEF StoreSimulation, TypeOK, Stored
    <3>3. QED
      BY ZenonT(30), <2>4, <3>2, NoOfferType DEF StoreSimulation, TypeOK
  <2>5. ASSUME NEW h \in Handlers, Log(h) PROVE TypeOK'
    <3>1. phase' = [phase EXCEPT ![h] = "idle"] \/ phase' = [phase EXCEPT ![h] = "answer"]
      BY <2>5 DEF Log
    <3>2. UNCHANGED <<simVars, customers, carrierVars, client, hauler, subject, place,
                      offer, known>>
      BY <2>5 DEF Log
    <3>3. CASE phase' = [phase EXCEPT ![h] = "idle"]
      BY ZenonT(30), <3>2, <3>3 DEF TypeOK, Stored
    <3>4. CASE phase' = [phase EXCEPT ![h] = "answer"]
      BY ZenonT(30), <3>2, <3>4 DEF TypeOK, Stored
    <3>5. QED
      BY <3>1, <3>3, <3>4
  <2>6. ASSUME NEW h \in Handlers, NEW s \in Ids, AskRemove(h, s) PROVE TypeOK'
    BY ZenonT(30), <2>6 DEF AskRemove, TypeOK, Stored
  <2>7. ASSUME NEW h \in Handlers, DeleteSimulation(h) PROVE TypeOK'
    <3>1. /\ routeOf' \in [Ids -> Routes \union {"none"}] /\ quotes' \in [Ids -> Offers]
          /\ isCheapest' \in [Ids -> SUBSET Carriers]
          /\ Stored' \subseteq used
          /\ customerId' \in [Ids -> Customers \union {"nobody"}]
      BY ZenonT(30), <2>7, NoOfferType DEF DeleteSimulation, Remove, TypeOK, Stored
    <3>2. QED
      BY <2>7, <3>1, FinishTyped DEF DeleteSimulation
  <2>8. ASSUME NEW h \in Handlers, NEW c \in Customers, AskRemoveCustomer(h, c)
        PROVE  TypeOK'
    BY ZenonT(30), <2>8 DEF AskRemoveCustomer, TypeOK, Stored
  <2>9. ASSUME NEW h \in Handlers, LookForSimulations(h) PROVE TypeOK'
    BY ZenonT(30), <2>9 DEF LookForSimulations, TypeOK, Stored
  <2>10. ASSUME NEW h \in Handlers, DeleteCustomer(h) PROVE TypeOK'
    BY ZenonT(30), <2>10 DEF DeleteCustomer, TypeOK, Stored
  <2>11. ASSUME NEW h \in Handlers, LookForSelections(h) PROVE TypeOK'
    BY ZenonT(30), <2>11 DEF LookForSelections, TypeOK, Stored
  <2>12. ASSUME NEW h \in Handlers, DeleteCarrier(h) PROVE TypeOK'
    BY ZenonT(30), <2>12 DEF DeleteCarrier, TypeOK, Stored
  <2>13. ASSUME NEW h \in Handlers, NEW k \in Carriers, NEW p \in {"selections", "update carrier"},
                AskCarrier(h, k, p)
         PROVE  TypeOK'
    BY ZenonT(30), <2>13 DEF AskCarrier, TypeOK, Stored
  <2>14. ASSUME NEW h \in Handlers, NEW t \in Terms, NEW on \in BOOLEAN, UpdateCarrier(h, t, on)
         PROVE  TypeOK'
    BY ZenonT(30), <2>14 DEF UpdateCarrier, TypeOK, Stored
  <2>15. CASE UNCHANGED vars
    BY <2>15 DEF vars, handlerVars, TypeOK, Stored
  <2>16. QED
    BY <2>1, <2>2, <2>3, <2>4, <2>5, <2>6, <2>7, <2>8, <2>9, <2>10, <2>11, <2>12,
       <2>13, <2>14, <2>15 DEF Next, Creating, Removing, Changing
<1>3. QED
  BY <1>1, <1>2, PTL DEF Spec

-----------------------------------------------------------------------------
(* Simulations implements the table of SimulationTable                     *)

\* Whatever carriers are changed or removed meanwhile, each simulation appears
\* whole with the cheapest of its quotes marked, and stays as it is until it is
\* removed (simulations.service.ts 86-118, 207-208).
THEOREM SimulationsImplementTable == Spec => ImplementsTable
<1> USE DEF Table!TableInit, Table!NoOffer, Table!NoQuote, NoOffer, NoQuote
<1>1. Init => Table!TableInit
  BY DEF Init, TableInit
<1>2. TypeOK /\ [Next]_vars => [Table!TableNext]_(Table!tableVars)
  <2> SUFFICES ASSUME TypeOK, [Next]_vars
               PROVE  Table!TableNext \/ UNCHANGED Table!tableVars
    OBVIOUS
  <2>1. ASSUME NEW h \in Handlers, NEW s \in Ids, StoreSimulation(h, s)
        PROVE  Table!TableNext
    <3>1. /\ offer[h] \in Offers /\ Quoted(offer[h]) # {} /\ place[h] \in Routes
          /\ s \notin Stored
      BY <2>1 DEF StoreSimulation, TypeOK
    <3>2. Marked(offer[h]) = CheapestOf(offer[h])
      BY <3>1, MarkedAreCheapest
    <3>3. Table!Store(s, place[h], offer[h])
      BY <2>1, <3>1, <3>2
         DEF StoreSimulation, Table!Store, Table!Stored, Table!Quoted, Table!CheapestOf,
             Stored, Quoted, CheapestOf
    <3>4. offer[h] \in Table!Offers
      BY <3>1 DEF Offers, Table!Offers
    <3>5. QED
      BY <3>1, <3>3, <3>4 DEF Table!TableNext
  <2>2. ASSUME NEW h \in Handlers, DeleteSimulation(h) PROVE Table!TableNext
    <3>1. subject[h] \in Ids
      BY <2>2 DEF DeleteSimulation, TypeOK
    <3>2. Table!Remove(subject[h])
      BY <2>2 DEF DeleteSimulation, Remove, Table!Remove, Stored, Table!Stored
    <3>3. QED
      BY <3>1, <3>2 DEF Table!TableNext
  <2>3. ASSUME NEW h \in Handlers, Creating(h), ~ \E s \in Ids : StoreSimulation(h, s)
        PROVE  UNCHANGED tableVars
    BY <2>3 DEF Creating, AskCreate, FindCarriers, NoCarriers, Answer, simVars
  <2>4. ASSUME NEW h \in Handlers, Removing(h), ~DeleteSimulation(h)
        PROVE  UNCHANGED tableVars
    BY <2>4 DEF Removing, AskRemove, AskRemoveCustomer, LookForSimulations, DeleteCustomer,
                LookForSelections, DeleteCarrier, simVars
  <2>5. ASSUME NEW h \in Handlers, Changing(h) \/ Log(h) \/ Rejected(h)
        PROVE  UNCHANGED tableVars
    BY <2>5 DEF Changing, AskCarrier, UpdateCarrier, Log, Rejected, simVars
  <2>6. CASE UNCHANGED vars
    BY <2>6 DEF vars, simVars, tableVars, Table!tableVars
  <2>7. QED
    BY <2>1, <2>2, <2>3, <2>4, <2>5, <2>6 DEF Next, tableVars, Table!tableVars
<1>3. QED
  BY <1>1, <1>2, SimulationsTypeCorrect, PTL DEF Spec, ImplementsTable, Table!TableSpec

-----------------------------------------------------------------------------
(* Who is deleted                                                          *)

\* A handler that is about to delete a customer: none of the simulations that
\* were there when it looked is for that customer.
LooksHold ==
  \A h \in Handlers :
    phase[h] = "delete customer" => \A s \in known[h] : customerId[s] # client[h]

\* A customer is only deleted if each of its simulations was created after the
\* handler had looked for some (customers.service.ts 167-177).
THEOREM CustomersGoOnlyUnused == Spec => CustomersGoUnused
<1>1. Init => LooksHold
  BY DEF Init, LooksHold
<1>2. TypeOK /\ LooksHold /\ [Next]_vars => LooksHold'
  <2> SUFFICES ASSUME TypeOK, LooksHold, [Next]_vars,
                      NEW i \in Handlers, phase'[i] = "delete customer",
                      NEW s \in known'[i]
               PROVE  customerId'[s] # client'[i]
    BY DEF LooksHold
  <2> USE DEF Goto, simVars, carrierVars, tableVars
  <2>a. /\ phase \in [Handlers -> Phases] /\ client \in [Handlers -> Customers \union {"nobody"}]
        /\ known \in [Handlers -> SUBSET used] /\ used \subseteq Ids
    BY DEF TypeOK
  <2>1. ASSUME NEW h \in Handlers, LookForSimulations(h) PROVE customerId'[s] # client'[i]
    <3>1. CASE i = h
      BY <2>1, <3>1 DEF LookForSimulations, HasSimulations, TypeOK
    <3>2. CASE i # h
      BY <2>1, <3>2 DEF LookForSimulations, LooksHold, TypeOK
    <3>3. QED
      BY <3>1, <3>2
  <2>2. ASSUME NEW h \in Handlers, NEW t \in Ids, StoreSimulation(h, t)
        PROVE  customerId'[s] # client'[i]
    <3>1. i # h
      BY <2>2 DEF StoreSimulation, TypeOK
    <3>2. s \in known[i] /\ s \in used /\ s # t /\ phase[i] = "delete customer"
      BY <2>2, <3>1 DEF StoreSimulation, TypeOK
    <3>3. customerId'[s] = customerId[s] /\ client'[i] = client[i]
      BY <2>2, <3>1, <3>2 DEF StoreSimulation, TypeOK
    <3>4. QED
      BY <3>2, <3>3 DEF LooksHold
  <2>3. ASSUME NEW h \in Handlers, DeleteSimulation(h) \/ DeleteCustomer(h)
        PROVE  customerId'[s] # client'[i]
    <3>f. /\ phase' = [phase EXCEPT ![h] = "idle"] \/ phase' = [phase EXCEPT ![h] = "log"]
          /\ client' = [client EXCEPT ![h] = "nobody"]
          /\ known' = [known EXCEPT ![h] = {}]
      BY ONLY <2>3 DEF DeleteSimulation, DeleteCustomer, Finish, Goto
    <3>1. i # h
      BY ONLY <2>a, <3>f, i \in Handlers, phase'[i] = "delete customer"
    <3>2. s \in known[i] /\ s \in Ids /\ phase[i] = "delete customer" /\ client'[i] = client[i]
      BY ONLY <2>a, <3>f, <3>1, i \in Handlers, phase'[i] = "delete customer", s \in known'[i]
    <3>3. customerId'[s] = customerId[s] \/ customerId'[s] = "nobody"
      <4>1. CASE DeleteSimulation(h)
        BY <3>2, <4>1 DEF DeleteSimulation, TypeOK
      <4>2. CASE DeleteCustomer(h)
        BY <3>2, <4>2 DEF DeleteCustomer
      <4>3. QED
        BY <2>3, <4>1, <4>2
    <3>4. client[i] # "nobody"
      BY <3>2, NobodyAssumption DEF TypeOK
    <3>5. QED
      BY <3>2, <3>3, <3>4 DEF LooksHold
  <2>4. ASSUME UNCHANGED customerId,
               s \in known[i], phase[i] = "delete customer", client'[i] = client[i]
        PROVE  customerId'[s] # client'[i]
    BY <2>4 DEF LooksHold
  <2>5. ASSUME NEW h \in Handlers, Creating(h), ~ \E t \in Ids : StoreSimulation(h, t)
        PROVE  customerId'[s] # client'[i]
    <3> DEFINE Others == /\ i # h /\ UNCHANGED customerId
                         /\ known'[i] = known[i] /\ phase'[i] = phase[i]
                         /\ client'[i] = client[i]
    <3>1. ASSUME NoCarriers(h) \/ Answer(h) PROVE Others
      <4>1. Finish(h) /\ UNCHANGED customerId
        BY ONLY <3>1 DEF NoCarriers, Answer, simVars
      <4>2. QED
        BY ONLY <2>a, <4>1, i \in Handlers, phase'[i] = "delete customer" DEF Finish, Goto
    <3>2. ASSUME NEW c \in Customers \union {"nobody"}, AskCreate(h, c) PROVE Others
      BY ONLY <2>a, <3>2, i \in Handlers, phase'[i] = "delete customer"
      DEF AskCreate, Goto, simVars
    <3>3. ASSUME NEW route \in Routes, NEW cargo \in Cargos, FindCarriers(h, route, cargo)
          PROVE  Others
      BY ONLY <2>a, <3>3, i \in Handlers, phase'[i] = "delete customer"
      DEF FindCarriers, Goto, simVars
    <3>4. Others
      BY <2>5, <3>1, <3>2, <3>3 DEF Creating
    <3>5. QED
      BY <2>4, <3>4
  <2>6. ASSUME NEW h \in Handlers, Removing(h), ~LookForSimulations(h),
               ~DeleteSimulation(h), ~DeleteCustomer(h)
        PROVE  customerId'[s] # client'[i]
    <3> DEFINE Others == /\ i # h /\ UNCHANGED customerId
                         /\ known'[i] = known[i] /\ phase'[i] = phase[i]
                         /\ client'[i] = client[i]
    <3>1. ASSUME NEW t \in Ids, AskRemove(h, t) PROVE Others
      BY ONLY <2>a, <3>1, i \in Handlers, phase'[i] = "delete customer"
      DEF AskRemove, Goto, simVars
    <3>2. ASSUME NEW c \in Customers, AskRemoveCustomer(h, c) PROVE Others
      BY ONLY <2>a, <3>2, i \in Handlers, phase'[i] = "delete customer"
      DEF AskRemoveCustomer, Goto, simVars
    <3>3. ASSUME LookForSelections(h) PROVE Others
      BY ONLY <2>a, <3>3, i \in Handlers, phase'[i] = "delete customer"
      DEF LookForSelections, Goto, simVars
    <3>4. ASSUME DeleteCarrier(h) PROVE Others
      BY ONLY <2>a, <3>4, i \in Handlers, phase'[i] = "delete customer"
      DEF DeleteCarrier, Finish, Goto, simVars
    <3>5. Others
      BY <2>6, <3>1, <3>2, <3>3, <3>4 DEF Removing
    <3>6. QED
      BY <2>4, <3>5
  <2>7. ASSUME NEW h \in Handlers, Changing(h) \/ Log(h) \/ Rejected(h)
        PROVE  customerId'[s] # client'[i]
    <3>1. CASE Rejected(h)
      <4>1. i # h
        BY <3>1 DEF Rejected, Finish, TypeOK
      <4>2. QED
        BY <2>4, <3>1, <4>1 DEF Rejected, Finish, TypeOK
    <3>2. CASE Log(h)
      <4>1. /\ phase' = [phase EXCEPT ![h] = "idle"] \/ phase' = [phase EXCEPT ![h] = "answer"]
            /\ UNCHANGED <<customerId, known, client>>
        BY <3>2 DEF Log
      <4>2. QED
        BY <2>4, <4>1 DEF TypeOK
    <3>3. CASE Changing(h)
      <4>1. \/ \E p \in {"selections", "update carrier"} : phase' = [phase EXCEPT ![h] = p]
            \/ phase' = [phase EXCEPT ![h] = "log"]
        BY <3>3 DEF Changing, AskCarrier, UpdateCarrier
      <4>2. UNCHANGED <<customerId, known, client>>
        BY <3>3 DEF Changing, AskCarrier, UpdateCarrier
      <4>3. QED
        BY <2>4, <4>1, <4>2 DEF TypeOK
    <3>4. QED
      BY <2>7, <3>1, <3>2, <3>3
  <2>8. CASE UNCHANGED vars
    BY <2>4, <2>8 DEF vars, handlerVars
  <2>9. QED
    BY <2>1, <2>2, <2>3, <2>5, <2>6, <2>7, <2>8 DEF Next, Removing
<1>3. LooksHold =>
        [\A h \in Handlers :
           DeleteCustomer(h) => \A s \in known[h] : customerId[s] # client[h]]_vars
  BY DEF LooksHold, DeleteCustomer
<1>4. QED
  BY <1>1, <1>2, <1>3, SimulationsTypeCorrect, PTL DEF Spec, CustomersGoUnused
-----------------------------------------------------------------------------

-----------------------------------------------------------------------------
(* Induction over the subsets of a finite set                              *)

\* P holds of all subsets of S if it holds of each whose proper subsets it holds of.
LEMMA SubsetInduction ==
  ASSUME NEW S, IsFiniteSet(S), NEW P,
         \A s \in SUBSET S : (\A t \in SUBSET s : t # s => t \in P) => s \in P
  PROVE  \A s \in SUBSET S : s \in P
<1> DEFINE Bad == {s \in SUBSET S : s \notin P}
<1> SUFFICES ASSUME Bad # {} PROVE FALSE
  OBVIOUS
<1>1. IsWellFoundedOn(StrictSubsetOrdering(S), SUBSET S)
  <2>1. FiniteSubsetsOf(S) = SUBSET S
    BY FS_FiniteSubsetsOfFinite
  <2>2. IsWellFoundedOn(StrictSubsetOrdering(S), FiniteSubsetsOf(S))
    BY FS_StrictSubsetOrderingWellFounded
  <2>3. QED
    BY <2>1, <2>2, Zenon
<1>2. PICK s \in Bad : \A t \in Bad : <<t, s>> \notin StrictSubsetOrdering(S)
  <2> HIDE DEF Bad
  <2>1. Bad \subseteq SUBSET S
    BY DEF Bad
  <2>2. QED
    BY <1>1, <2>1, WFMin
<1>3. \A t \in SUBSET s : t # s => t \in P
  <2> SUFFICES ASSUME NEW t \in SUBSET s, t # s, t \notin P PROVE FALSE
    OBVIOUS
  <2>1. t \in Bad
    OBVIOUS
  <2>2. <<t, s>> \in StrictSubsetOrdering(S)
    BY DEF StrictSubsetOrdering
  <2>3. QED
    BY <1>2, <2>1, <2>2
<1>4. QED
  BY <1>3

\* The element that a fold takes first.
Pick(s) == CHOOSE x \in s : TRUE

\* What is left without it is smaller.
LEMMA PickTakes ==
  ASSUME NEW S, IsFiniteSet(S), NEW s \in SUBSET S, s # {}
  PROVE  /\ Pick(s) \in s /\ Pick(s) \in S
         /\ s \ {Pick(s)} \in SUBSET S
         /\ Cardinality(s) \in Nat \ {0}
         /\ Cardinality(s \ {Pick(s)}) = Cardinality(s) - 1
<1>1. Pick(s) \in s
  BY DEF Pick
<1>2. IsFiniteSet(s) /\ Cardinality(s) \in Nat /\ Cardinality(s) # 0
  BY FS_Subset, FS_CardinalityType, FS_EmptySet
<1>3. QED
  BY <1>1, <1>2, FS_RemoveElement

\* fold combines what f is on s by op, from base.
Follows(fold, op, base, f, s) ==
  fold[s] = IF s = {} THEN base ELSE op[<<f[Pick(s)], fold[s \ {Pick(s)}]>>]

\* The recursion by which sums and products are defined has a solution.
LEMMA FoldsExist ==
  ASSUME NEW D, NEW f \in [D -> Nat], NEW S \in SUBSET D, IsFiniteSet(S), NEW base \in Nat,
         NEW op \in [Nat \X Nat -> Nat]
  PROVE  \E fold : \A s \in SUBSET S : fold[s] \in Nat /\ Follows(fold, op, base, f, s)
<1> DEFINE Small(n) == {s \in SUBSET S : Cardinality(s) <= n}
           Folded(n) == \E fold \in [Small(n) -> Nat] :
                          \A s \in Small(n) : Follows(fold, op, base, f, s)
           Bad == {n \in Nat : ~Folded(n)}
<1>0. \A s \in SUBSET S : IsFiniteSet(s) /\ Cardinality(s) \in Nat
                          /\ Cardinality(s) <= Cardinality(S)
  BY FS_Subset, FS_CardinalityType
<1>1. Folded(0)
  <2>1. \A s \in Small(0) : s = {}
    BY <1>0, FS_EmptySet
  <2>2. WITNESS [s \in Small(0) |-> base] \in [Small(0) -> Nat]
  <2>3. QED
    BY <2>1 DEF Follows
<1>2. ASSUME NEW n \in Nat, Folded(n) PROVE Folded(n + 1)
  <2>1. PICK fold \in [Small(n) -> Nat] : \A s \in Small(n) : Follows(fold, op, base, f, s)
    BY <1>2
  <2> DEFINE next == [s \in Small(n + 1) |->
                        IF s = {} THEN base ELSE op[<<f[Pick(s)], fold[s \ {Pick(s)}]>>]]
  <2>2. ASSUME NEW s \in Small(n + 1), s # {}
        PROVE  /\ s \ {Pick(s)} \in Small(n) /\ s \ {Pick(s)} \in Small(n + 1)
               /\ f[Pick(s)] \in Nat
    <3>1. /\ Pick(s) \in S /\ s \ {Pick(s)} \in SUBSET S
          /\ Cardinality(s) \in Nat /\ Cardinality(s \ {Pick(s)}) = Cardinality(s) - 1
      BY <2>2, PickTakes
    <3>2. Cardinality(s) <= n + 1
      OBVIOUS
    <3>3. QED
      BY <3>1, <3>2
  <2>3. next \in [Small(n + 1) -> Nat]
    BY <2>2
  <2>4. \A s \in Small(n) : next[s] = fold[s] /\ s \in Small(n + 1)
    <3>1. \A s \in Small(n) : s \in Small(n + 1)
      BY <1>0
    <3>2. QED
      BY <2>1, <3>1 DEF Follows
  <2>5. \A s \in Small(n + 1) : Follows(next, op, base, f, s)
    BY <2>2, <2>4 DEF Follows
  <2>6. QED
    BY <2>3, <2>5
<1>3. Bad = {}
  <2> SUFFICES ASSUME Bad # {} PROVE FALSE
    OBVIOUS
  <2> HIDE DEF Folded
  <2>1. PICK n \in Bad : \A m \in Bad : n <= m
    BY LeastOf
  <2>2. n # 0 /\ n - 1 \in Nat /\ Folded(n - 1)
    BY <1>1, <2>1
  <2>3. QED
    BY <1>2, <2>1, <2>2
<1>4. PICK fold \in [Small(Cardinality(S)) -> Nat] :
        \A s \in Small(Cardinality(S)) : Follows(fold, op, base, f, s)
  BY <1>0, <1>3, FS_CardinalityType
<1>5. Small(Cardinality(S)) = SUBSET S
  BY <1>0
<1>6. QED
  BY <1>4, <1>5

-----------------------------------------------------------------------------
(* Products of numbers, and rounding                                       *)

\* What the solvers need to be told of products of unknowns.
LEMMA Products ==
  ASSUME NEW a \in Int, NEW b \in Int, NEW c \in Int
  PROVE  /\ a * b \in Int /\ a * b = b * a /\ a * (b * c) = (a * b) * c
         /\ a * (b + c) = a * b + a * c /\ a * (b - c) = a * b - a * c
         /\ a * 1 = a /\ a * 0 = 0
OBVIOUS

LEMMA ProductGrows ==
  ASSUME NEW a \in Int, NEW b \in Int, NEW c \in Nat
  PROVE  /\ a <= b => c * a <= c * b
         /\ a < b /\ c # 0 => c * a < c * b
OBVIOUS

LEMMA ProductType ==
  ASSUME NEW a \in Nat, NEW b \in Nat
  PROVE  a * b \in Nat /\ (a # 0 /\ b # 0 => a * b # 0)
OBVIOUS

\* A rounded quotient is at most a half away.
LEMMA RoundBounds ==
  ASSUME NEW s \in Int, NEW n \in Nat \ {0}
  PROVE  /\ RoundDiv(s, n) \in Int
         /\ 2 * (n * RoundDiv(s, n)) <= 2 * s + n
         /\ 2 * s + n < 2 * (n * RoundDiv(s, n)) + 2 * n
BY DEF RoundDiv

\* Rounding does not pass a whole number.
LEMMA RoundBetween ==
  ASSUME NEW s \in Int, NEW n \in Nat \ {0}, NEW b \in Int
  PROVE  /\ n * b <= s => b <= RoundDiv(s, n)
         /\ s <= n * b => RoundDiv(s, n) <= b
<1> DEFINE r == RoundDiv(s, n)
<1>1. /\ r \in Int
      /\ 2 * (n * r) <= 2 * s + n
      /\ 2 * s + n < 2 * (n * r) + 2 * n
  BY RoundBounds
<1> HIDE DEF r
<1>2. ASSUME n * b <= s, ~(b <= r) PROVE FALSE
  <2>1. n * (r + 1) <= n * b
    BY <1>1, <1>2, ProductGrows
  <2>2. n * (r + 1) = n * r + n
    BY <1>1, Products
  <2>4. n * r \in Int /\ n * b \in Int
    BY <1>1
  <2>3. QED
    BY <1>1, <1>2, <2>1, <2>2, <2>4
<1>3. ASSUME s <= n * b, ~(r <= b) PROVE FALSE
  <2>1. n * (b + 1) <= n * r
    BY <1>1, <1>3, ProductGrows
  <2>2. n * (b + 1) = n * b + n
    BY <1>1, Products
  <2>4. n * r \in Int /\ n * b \in Int
    BY <1>1
  <2>3. QED
    BY <1>1, <1>3, <2>1, <2>2, <2>4
<1>4. QED
  BY <1>2, <1>3 DEF r

\* Of two fractions the smaller one is not rounded to more.
LEMMA RoundMonotone ==
  ASSUME NEW s \in Int, NEW n \in Nat \ {0}, NEW t \in Int, NEW m \in Nat \ {0},
         m * s <= n * t
  PROVE  RoundDiv(s, n) <= RoundDiv(t, m)
<1> DEFINE q == RoundDiv(s, n)
           r == RoundDiv(t, m)
<1>1. q \in Int /\ 2 * (n * q) <= 2 * s + n
  BY RoundBounds
<1>2. r \in Int /\ 2 * t + m < 2 * (m * r) + 2 * m
  BY RoundBounds
<1> HIDE DEF q, r
<1>3. SUFFICES ASSUME ~(q <= r) PROVE FALSE
  BY DEF q, r
<1>4. m * (2 * (n * q)) <= m * (2 * s + n)
  BY <1>1, ProductGrows
<1>5. n * (2 * t + m) < n * (2 * (m * r) + 2 * m)
  BY <1>2, ProductGrows
<1>6. (n * m) * (r + 1) <= (n * m) * q
  BY <1>1, <1>2, <1>3, ProductGrows
<1> DEFINE nm == n * m
           nmq == nm * q
           nmr == nm * r
           ms == m * s
           nt == n * t
<1>7. nm \in Int /\ nmq \in Int /\ nmr \in Int /\ ms \in Int /\ nt \in Int
  BY <1>1, <1>2
<1>8. m * (2 * (n * q)) = 2 * nmq
  BY <1>1
<1>9. m * (2 * s + n) = 2 * ms + nm
  OBVIOUS
<1>10. n * (2 * t + m) = 2 * nt + nm
  OBVIOUS
<1>11. n * (2 * (m * r) + 2 * m) = 2 * nmr + 2 * nm
  BY <1>2
<1>12. nm * (r + 1) = nmr + nm
  BY <1>2, <1>7
<1>13. ms <= nt
  OBVIOUS
<1>14. 2 * nmq <= 2 * ms + nm /\ 2 * nt + nm < 2 * nmr + 2 * nm /\ nmr + nm <= nmq
  BY <1>4, <1>5, <1>6, <1>8, <1>9, <1>10, <1>11, <1>12
<1> HIDE DEF nm, nmq, nmr, ms, nt
<1>15. QED
  BY <1>7, <1>13, <1>14

-----------------------------------------------------------------------------
(* Sums, which take their elements in any order                            *)

\* The sum of f over S.
Sum(f, S) == SumFunctionOnSet(f, S)

\* sum is what SumFunctionOnSet chooses.
Adds(f, S, sum) ==
  sum = [s \in SUBSET S |-> IF s = {} THEN 0 ELSE f[Pick(s)] + sum[s \ {Pick(s)}]]

\* How the sum is defined.
LEMMA SumUnfolds ==
  ASSUME NEW f, NEW S
  PROVE  Sum(f, S) = (CHOOSE sum : Adds(f, S, sum))[S]
BY Zenon DEF Sum, SumFunctionOnSet, FoldFunctionOnSet, MapThenFoldSet, Adds, Pick

\* sum adds up f over every subset of S.
AddsUp(sum, f, S) ==
  \A s \in SUBSET S : sum[s] = IF s = {} THEN 0 ELSE f[Pick(s)] + sum[s \ {Pick(s)}]

\* The sum over S is that of a function that adds up over its subsets.
LEMMA SumAdds ==
  ASSUME NEW D, NEW f \in [D -> Nat], NEW S \in SUBSET D, IsFiniteSet(S)
  PROVE  \E sum : Sum(f, S) = sum[S] /\ AddsUp(sum, f, S)
<1>1. \E op \in [Nat \X Nat -> Nat] : \A a, b \in Nat : op[<<a, b>>] = a + b
  <2>1. WITNESS [p \in Nat \X Nat |-> p[1] + p[2]] \in [Nat \X Nat -> Nat]
  <2>2. QED
    OBVIOUS
<1> PICK op \in [Nat \X Nat -> Nat] : \A a, b \in Nat : op[<<a, b>>] = a + b
  BY <1>1
<1>2. PICK fold : \A s \in SUBSET S : fold[s] \in Nat /\ Follows(fold, op, 0, f, s)
  <2>1. 0 \in Nat
    OBVIOUS
  <2>2. QED
    BY ZenonT(30), <2>1, FoldsExist
<1>3. ASSUME NEW s \in SUBSET S
      PROVE  fold[s] = IF s = {} THEN 0 ELSE f[Pick(s)] + fold[s \ {Pick(s)}]
  <2>1. CASE s = {}
    BY <1>2, <2>1 DEF Follows
  <2>2. CASE s # {}
    <3>1. f[Pick(s)] \in Nat /\ fold[s \ {Pick(s)}] \in Nat
      BY <1>2, <2>2 DEF Pick
    <3>2. fold[s] = op[<<f[Pick(s)], fold[s \ {Pick(s)}]>>]
      BY <1>2, <2>2 DEF Follows
    <3>3. QED
      BY <1>1, <2>2, <3>1, <3>2
  <2>3. QED
    BY <2>1, <2>2
<1>4. \E sum : Adds(f, S, sum)
  <2> DEFINE sum == [s \in SUBSET S |-> fold[s]]
  <2>1. Adds(f, S, sum)
    BY <1>3 DEF Adds
  <2>2. QED
    BY <2>1
<1> DEFINE sum == CHOOSE sum : Adds(f, S, sum)
<1>5. Adds(f, S, sum)
  BY <1>4
<1>6. Sum(f, S) = sum[S]
  BY SumUnfolds
<1> HIDE DEF sum
<1>7. AddsUp(sum, f, S)
  BY <1>5 DEF Adds, AddsUp
<1>8. QED
  BY <1>6, <1>7

\* There is only one.
LEMMA SumsAgree ==
  ASSUME NEW S, IsFiniteSet(S), NEW f, NEW a, AddsUp(a, f, S), NEW b, AddsUp(b, f, S)
  PROVE  a[S] = b[S]
<1> DEFINE P == {s \in SUBSET S : a[s] = b[s]}
<1>1. ASSUME NEW s \in SUBSET S, \A t \in SUBSET s : t # s => t \in P PROVE s \in P
  <2>1. CASE s = {}
    BY <2>1 DEF AddsUp
  <2>2. CASE s # {}
    <3>1. s \ {Pick(s)} \in SUBSET s /\ s \ {Pick(s)} # s
      BY <2>2 DEF Pick
    <3>2. a[s \ {Pick(s)}] = b[s \ {Pick(s)}]
      BY <1>1, <3>1
    <3>3. QED
      BY <2>2, <3>2 DEF AddsUp
  <2>3. QED
    BY <2>1, <2>2
<1> HIDE DEF P
<1>2. \A s \in SUBSET S : s \in P
  BY <1>1, SubsetInduction
<1>3. QED
  BY <1>2 DEF P

\* What is left without the element that is taken first is the sum of the others.
LEMMA SumTakesPick ==
  ASSUME NEW D, NEW f \in [D -> Nat], NEW S \in SUBSET D, IsFiniteSet(S)
  PROVE  Sum(f, S) = IF S = {} THEN 0 ELSE f[Pick(S)] + Sum(f, S \ {Pick(S)})
<1>1. PICK sum : Sum(f, S) = sum[S] /\ AddsUp(sum, f, S)
  BY SumAdds
<1>2. CASE S = {}
  BY <1>1, <1>2 DEF AddsUp
<1>3. CASE S # {}
  <2> DEFINE R == S \ {Pick(S)}
  <2>1. R \in SUBSET D /\ IsFiniteSet(R) /\ R \in SUBSET S
    BY FS_Subset
  <2> HIDE DEF R
  <2>2. PICK rest : Sum(f, R) = rest[R] /\ AddsUp(rest, f, R)
    BY <2>1, SumAdds
  <2>3. AddsUp(sum, f, R)
    BY <1>1, <2>1 DEF AddsUp
  <2>4. rest[R] = sum[R]
    BY <2>1, <2>2, <2>3, SumsAgree
  <2>5. QED
    BY <1>1, <1>3, <2>2, <2>4 DEF AddsUp, R
<1>4. QED
  BY <1>2, <1>3

\* Any element may be taken first.
LEMMA SumTakes ==
  ASSUME NEW D, NEW f \in [D -> Nat], NEW S \in SUBSET D, IsFiniteSet(S)
  PROVE  /\ Sum(f, S) \in Nat
         /\ S = {} => Sum(f, S) = 0
         /\ \A x \in S : Sum(f, S) = f[x] + Sum(f, S \ {x})
<1> DEFINE Any(s) == Sum(f, s) \in Nat /\ \A x \in s : Sum(f, s) = f[x] + Sum(f, s \ {x})
           P == {s \in SUBSET S : Any(s)}
<1>0. \A s \in SUBSET S : Sum(f, s) = IF s = {} THEN 0 ELSE f[Pick(s)] + Sum(f, s \ {Pick(s)})
  BY SumTakesPick, FS_Subset
<1>1. ASSUME NEW s \in SUBSET S, \A t \in SUBSET s : t # s => t \in P PROVE s \in P
  <2>1. CASE s = {}
    <3>1. Sum(f, s) = 0
      BY <1>0, <2>1
    <3>2. QED
      BY <2>1, <3>1
  <2>2. CASE s # {}
    <3> DEFINE p == Pick(s)
    <3>1. p \in s /\ p \in D /\ s \ {p} \in SUBSET s /\ s \ {p} # s
      BY <2>2 DEF Pick
    <3>2. s \ {p} \in P
      BY <1>1, <3>1
    <3>3. Sum(f, s) = f[p] + Sum(f, s \ {p}) /\ f[p] \in Nat
      BY <1>0, <2>2, <3>1
    <3> HIDE DEF p
    <3>4. Sum(f, s) \in Nat
      BY <3>2, <3>3
    <3>5. ASSUME NEW x \in s PROVE Sum(f, s) = f[x] + Sum(f, s \ {x})
      <4>1. CASE x = p
        BY <3>3, <4>1
      <4>2. CASE x # p
        <5> DEFINE t == s \ {x}
                   u == s \ {p, x}
        <5>1. Sum(f, s \ {p}) = f[x] + Sum(f, u)
          <6>1. x \in s \ {p} /\ (s \ {p}) \ {x} = u
            BY <4>2
          <6>2. QED
            BY <3>2, <6>1
        <5>2. t \in P
          <6>1. t \in SUBSET s /\ t # s
            OBVIOUS
          <6>2. QED
            BY <1>1, <6>1
        <5>3. Sum(f, t) = f[p] + Sum(f, u)
          <6>1. p \in t /\ t \ {p} = u
            BY <3>1, <4>2
          <6>2. QED
            BY <5>2, <6>1
        <5>4. f[x] \in Nat /\ f[p] \in Nat /\ Sum(f, u) \in Nat
          <6>1. u \in SUBSET s /\ u # s
            OBVIOUS
          <6>2. u \in P
            BY <1>1, <6>1
          <6>3. QED
            BY <3>3, <6>2
        <5>5. QED
          BY <3>3, <5>1, <5>3, <5>4
      <4>3. QED
        BY <4>1, <4>2
    <3>6. QED
      BY <3>4, <3>5
  <2>3. QED
    BY <2>1, <2>2
<1> HIDE DEF P
<1>2. \A s \in SUBSET S : s \in P
  BY <1>1, SubsetInduction
<1>3. Any(S)
  BY <1>2 DEF P
<1>4. QED
  BY <1>0, <1>3

\* The more is added up, the more there is.
LEMMA SumGrows ==
  ASSUME NEW D, NEW f \in [D -> Nat], NEW E, NEW g \in [E -> Nat],
         NEW S \in SUBSET D, S \subseteq E, IsFiniteSet(S)
  PROVE  (\A x \in S : f[x] <= g[x]) => Sum(f, S) <= Sum(g, S)
<1> SUFFICES ASSUME \A x \in S : f[x] <= g[x] PROVE Sum(f, S) <= Sum(g, S)
  OBVIOUS
<1> DEFINE P == {s \in SUBSET S : Sum(f, s) <= Sum(g, s)}
<1>1. ASSUME NEW s \in SUBSET S, \A t \in SUBSET s : t # s => t \in P PROVE s \in P
  <2>1. /\ Sum(f, s) \in Nat /\ (s = {} => Sum(f, s) = 0)
        /\ \A x \in s : Sum(f, s) = f[x] + Sum(f, s \ {x})
    BY SumTakes, FS_Subset
  <2>2. /\ Sum(g, s) \in Nat /\ (s = {} => Sum(g, s) = 0)
        /\ \A x \in s : Sum(g, s) = g[x] + Sum(g, s \ {x})
    BY SumTakes, FS_Subset
  <2>3. CASE s = {}
    BY <2>1, <2>2, <2>3
  <2>4. CASE s # {}
    <3>1. PICK x \in s : TRUE
      BY <2>4
    <3> DEFINE r == s \ {x}
    <3>2. r \in SUBSET s /\ r # s /\ r \in SUBSET D /\ r \in SUBSET E /\ IsFiniteSet(r)
      BY <3>1, FS_Subset
    <3>3. Sum(f, r) \in Nat /\ Sum(g, r) \in Nat
      <4> HIDE DEF r
      <4>1. QED
        BY <3>2, SumTakes
    <3>4. Sum(f, r) <= Sum(g, r)
      BY <1>1, <3>2
    <3>5. f[x] <= g[x] /\ f[x] \in Nat /\ g[x] \in Nat
      BY <3>1
    <3>6. Sum(f, s) = f[x] + Sum(f, r) /\ Sum(g, s) = g[x] + Sum(g, r)
      BY <2>1, <2>2, <3>1
    <3> HIDE DEF r
    <3>7. QED
      BY <3>3, <3>4, <3>5, <3>6
  <2>5. QED
    BY <2>3, <2>4
<1> HIDE DEF P
<1>2. \A s \in SUBSET S : s \in P
  BY <1>1, SubsetInduction
<1>3. QED
  BY <1>2 DEF P

\* Only what f is on S counts.
LEMMA SumsOfEquals ==
  ASSUME NEW D, NEW f \in [D -> Nat], NEW E, NEW g \in [E -> Nat],
         NEW S \in SUBSET D, S \subseteq E, IsFiniteSet(S)
  PROVE  (\A x \in S : f[x] = g[x]) => Sum(f, S) = Sum(g, S)
<1> SUFFICES ASSUME \A x \in S : f[x] = g[x] PROVE Sum(f, S) = Sum(g, S)
  OBVIOUS
<1>1. \A x \in S : f[x] <= g[x] /\ g[x] <= f[x]
  OBVIOUS
<1>2. Sum(f, S) <= Sum(g, S)
  BY <1>1, SumGrows
<1>3. Sum(g, S) <= Sum(f, S)
  BY <1>1, SumGrows
<1>4. Sum(f, S) \in Nat /\ Sum(g, S) \in Nat
  BY SumTakes
<1>5. QED
  BY <1>2, <1>3, <1>4

\* What adds up the same for each element.
LEMMA SumOfConstant ==
  ASSUME NEW D, NEW c \in Nat, NEW S \in SUBSET D, IsFiniteSet(S)
  PROVE  /\ Cardinality(S) \in Nat
         /\ Sum([x \in D |-> c], S) = c * Cardinality(S)
<1> DEFINE f == [x \in D |-> c]
           P == {s \in SUBSET S : Sum(f, s) = c * Cardinality(s)}
<1>0. f \in [D -> Nat]
  OBVIOUS
<1>1. ASSUME NEW s \in SUBSET S, \A t \in SUBSET s : t # s => t \in P PROVE s \in P
  <2>0. IsFiniteSet(s) /\ s \in SUBSET D
    BY FS_Subset
  <2>1. /\ Sum(f, s) \in Nat /\ (s = {} => Sum(f, s) = 0)
        /\ \A x \in s : Sum(f, s) = f[x] + Sum(f, s \ {x})
    <3> HIDE DEF f
    <3>1. QED
      BY <1>0, <2>0, SumTakes
  <2>2. CASE s = {}
    <3>1. Cardinality(s) = 0
      BY <2>2, FS_EmptySet
    <3>2. QED
      BY <2>1, <2>2, <3>1
  <2>3. CASE s # {}
    <3>1. PICK x \in s : TRUE
      BY <2>3
    <3> DEFINE r == s \ {x}
    <3>2. r \in SUBSET s /\ r # s /\ IsFiniteSet(r) /\ Cardinality(r) = Cardinality(s) - 1
          /\ Cardinality(s) \in Nat /\ Cardinality(r) \in Nat
      BY <2>0, <3>1, FS_Subset, FS_RemoveElement, FS_CardinalityType
    <3>3. Sum(f, r) = c * Cardinality(r)
      BY <1>1, <3>2
    <3>4. f[x] = c /\ Sum(f, s) = f[x] + Sum(f, r)
      BY <2>1, <3>1
    <3> HIDE DEF r, f
    <3>5. c * Cardinality(s) = c + c * Cardinality(r)
      <4>1. Cardinality(s) = Cardinality(r) + 1
        BY <3>2
      <4>2. c * (Cardinality(r) + 1) = c * Cardinality(r) + c * 1
        BY <3>2, Products
      <4>3. QED
        BY <3>2, <4>1, <4>2
    <3>6. QED
      BY <3>3, <3>4, <3>5
  <2>4. QED
    BY <2>2, <2>3
<1> HIDE DEF P
<1>2. \A s \in SUBSET S : s \in P
  BY <1>1, SubsetInduction
<1>3. QED
  BY <1>2, FS_CardinalityType DEF P

\* A sum lies between the numbers of its elements times the least and the largest.
LEMMA SumBetween ==
  ASSUME NEW D, NEW f \in [D -> Nat], NEW S \in SUBSET D, IsFiniteSet(S), NEW c \in Nat
  PROVE  /\ (\A x \in S : c <= f[x]) => Cardinality(S) * c <= Sum(f, S)
         /\ (\A x \in S : f[x] <= c) => Sum(f, S) <= Cardinality(S) * c
<1> DEFINE g == [x \in D |-> c]
<1>1. g \in [D -> Nat] /\ \A x \in S : g[x] = c
  OBVIOUS
<1>2. Sum(g, S) = c * Cardinality(S) /\ Cardinality(S) \in Nat
  BY SumOfConstant
<1>3. c * Cardinality(S) = Cardinality(S) * c
  BY <1>2, Products
<1> HIDE DEF g
<1>4. (\A x \in S : c <= f[x]) => Sum(g, S) <= Sum(f, S)
  <2> SUFFICES ASSUME \A x \in S : c <= f[x] PROVE Sum(g, S) <= Sum(f, S)
    OBVIOUS
  <2>1. \A x \in S : g[x] <= f[x]
    BY <1>1
  <2>2. QED
    BY <1>1, <2>1, SumGrows
<1>5. (\A x \in S : f[x] <= c) => Sum(f, S) <= Sum(g, S)
  <2> SUFFICES ASSUME \A x \in S : f[x] <= c PROVE Sum(f, S) <= Sum(g, S)
    OBVIOUS
  <2>1. \A x \in S : f[x] <= g[x]
    BY <1>1
  <2>2. QED
    BY <1>1, <2>1, SumGrows
<1>6. QED
  BY <1>2, <1>3, <1>4, <1>5

\* Two sets without a common element.
LEMMA SumOfParts ==
  ASSUME NEW D, NEW f \in [D -> Nat], NEW S \in SUBSET D, NEW T \in SUBSET D,
         IsFiniteSet(S), IsFiniteSet(T), S \cap T = {}
  PROVE  Sum(f, S \union T) = Sum(f, S) + Sum(f, T)
<1> DEFINE P == {s \in SUBSET S : Sum(f, s \union T) = Sum(f, s) + Sum(f, T)}
<1>0. Sum(f, T) \in Nat
  BY SumTakes
<1>1. ASSUME NEW s \in SUBSET S, \A t \in SUBSET s : t # s => t \in P PROVE s \in P
  <2>0. IsFiniteSet(s) /\ s \in SUBSET D
    BY FS_Subset
  <2>1. /\ Sum(f, s) \in Nat /\ (s = {} => Sum(f, s) = 0)
        /\ \A x \in s : Sum(f, s) = f[x] + Sum(f, s \ {x})
    BY <2>0, SumTakes
  <2>2. CASE s = {}
    <3>1. s \union T = T
      BY <2>2
    <3>2. QED
      BY <1>0, <2>1, <2>2, <3>1
  <2>3. CASE s # {}
    <3>1. PICK x \in s : TRUE
      BY <2>3
    <3> DEFINE r == s \ {x}
               u == s \union T
    <3>2. r \in SUBSET s /\ r # s /\ IsFiniteSet(r) /\ r \in SUBSET D
      BY <2>0, <3>1, FS_Subset
    <3>3. Sum(f, r \union T) = Sum(f, r) + Sum(f, T)
      BY <1>1, <3>2
    <3>4. Sum(f, r) \in Nat
      <4> HIDE DEF r
      <4>1. QED
        BY <3>2, SumTakes
    <3>5. f[x] \in Nat /\ Sum(f, s) = f[x] + Sum(f, r)
      BY <2>1, <3>1
    <3>6. u \in SUBSET D /\ IsFiniteSet(u) /\ x \in u /\ u \ {x} = r \union T
      BY <2>0, <3>1, FS_Union
    <3> HIDE DEF r, u
    <3>7. Sum(f, u) = f[x] + Sum(f, u \ {x})
      BY <3>6, SumTakes
    <3>8. Sum(f, u) = Sum(f, s) + Sum(f, T)
      BY SMTT(30), <1>0, <3>3, <3>4, <3>5, <3>6, <3>7
    <3>9. QED
      BY <3>8 DEF u
  <2>4. QED
    BY <2>2, <2>3
<1> HIDE DEF P
<1>2. \A s \in SUBSET S : s \in P
  BY <1>1, SubsetInduction
<1>3. QED
  BY <1>2 DEF P

\* Adding up by classes comes to the same.
LEMMA SumByClass ==
  ASSUME NEW D, NEW f \in [D -> Nat], NEW S \in SUBSET D, IsFiniteSet(S),
         NEW C, IsFiniteSet(C), NEW class \in [S -> C]
  PROVE  LET g == [c \in C |-> Sum(f, {x \in S : class[x] = c})]
         IN  g \in [C -> Nat] /\ Sum(g, C) = Sum(f, S)
<1> DEFINE In(B) == {x \in S : class[x] \in B}
           g == [c \in C |-> Sum(f, {x \in S : class[x] = c})]
           P == {B \in SUBSET C : Sum(g, B) = Sum(f, In(B))}
<1>0. g \in [C -> Nat]
  <2> SUFFICES ASSUME NEW c \in C PROVE Sum(f, {x \in S : class[x] = c}) \in Nat
    OBVIOUS
  <2> DEFINE s == {x \in S : class[x] = c}
  <2>1. s \in SUBSET D /\ IsFiniteSet(s)
    BY FS_Subset
  <2> HIDE DEF s
  <2>2. Sum(f, s) \in Nat
    BY <2>1, SumTakes
  <2>3. QED
    BY <2>2 DEF s
<1>1. ASSUME NEW B \in SUBSET C, \A A \in SUBSET B : A # B => A \in P PROVE B \in P
  <2>0. IsFiniteSet(B)
    BY FS_Subset
  <2>1. /\ Sum(g, B) \in Nat /\ (B = {} => Sum(g, B) = 0)
        /\ \A c \in B : Sum(g, B) = g[c] + Sum(g, B \ {c})
    <3> HIDE DEF g
    <3>1. QED
      BY <1>0, <2>0, SumTakes
  <2>2. CASE B = {}
    <3>1. In(B) = {} /\ IsFiniteSet(In(B))
      BY <2>2, FS_EmptySet
    <3>2. In(B) \in SUBSET D
      OBVIOUS
    <3>3. Sum(f, In(B)) = 0
      <4> HIDE DEF In
      <4>1. QED
        BY <3>1, <3>2, SumTakes
    <3>4. QED
      BY <2>1, <2>2, <3>3
  <2>3. CASE B # {}
    <3>1. PICK c \in B : TRUE
      BY <2>3
    <3> DEFINE A == B \ {c}
               s == {x \in S : class[x] = c}
    <3>2. A \in SUBSET B /\ A # B /\ A \in SUBSET C
      BY <3>1
    <3>3. Sum(g, A) = Sum(f, In(A))
      BY <1>1, <3>2
    <3>4. g[c] = Sum(f, s)
      BY <3>1
    <3>5. In(B) = In(A) \union s /\ In(A) \cap s = {}
      BY <3>1
    <3>6. In(A) \in SUBSET D /\ s \in SUBSET D /\ IsFiniteSet(In(A)) /\ IsFiniteSet(s)
      BY FS_Subset
    <3>7. Sum(g, B) = g[c] + Sum(g, A)
      BY <2>1, <3>1
    <3> HIDE DEF A, s, g, In
    <3>8. Sum(f, In(B)) = Sum(f, In(A)) + Sum(f, s)
      BY <3>5, <3>6, SumOfParts
    <3>9. Sum(f, In(A)) \in Nat /\ Sum(f, s) \in Nat
      BY <3>6, SumTakes
    <3>10. Sum(g, B) = Sum(f, In(B))
      BY <3>3, <3>4, <3>7, <3>8, <3>9
    <3>11. QED
      BY <3>10
  <2>4. QED
    BY <2>2, <2>3
<1> HIDE DEF P
<1>2. \A B \in SUBSET C : B \in P
  BY <1>1, SubsetInduction
<1>3. Sum(g, C) = Sum(f, In(C))
  BY <1>2 DEF P
<1>4. In(C) = S
  OBVIOUS
<1>5. QED
  BY <1>0, <1>3, <1>4

-----------------------------------------------------------------------------
(* Products of many numbers                                                *)

\* The product of f over S.
Product(f, S) == FoldFunctionOnSet(LAMBDA a, b : a * b, 1, f, S)

\* product is what FoldFunctionOnSet chooses.
Multiplies(f, S, product) ==
  product = [s \in SUBSET S |->
               IF s = {} THEN 1 ELSE f[Pick(s)] * product[s \ {Pick(s)}]]

\* How the product is defined.
LEMMA ProductUnfolds ==
  ASSUME NEW f, NEW S
  PROVE  Product(f, S) = (CHOOSE product : Multiplies(f, S, product))[S]
BY Zenon DEF Product, FoldFunctionOnSet, MapThenFoldSet, Multiplies, Pick

\* Each factor divides a product.
LEMMA ProductDivides ==
  ASSUME NEW D, NEW f \in [D -> Nat \ {0}], NEW S \in SUBSET D, IsFiniteSet(S)
  PROVE  /\ Product(f, S) \in Nat \ {0}
         /\ \A x \in S : \E m \in Nat \ {0} : Product(f, S) = f[x] * m
<1>1. \E op \in [Nat \X Nat -> Nat] : \A a, b \in Nat : op[<<a, b>>] = a * b
  <2>1. WITNESS [p \in Nat \X Nat |-> p[1] * p[2]] \in [Nat \X Nat -> Nat]
  <2>2. QED
    OBVIOUS
<1> PICK op \in [Nat \X Nat -> Nat] : \A a, b \in Nat : op[<<a, b>>] = a * b
  BY <1>1
<1>2. PICK fold : \A s \in SUBSET S : fold[s] \in Nat /\ Follows(fold, op, 1, f, s)
  <2>1. 1 \in Nat /\ f \in [D -> Nat]
    OBVIOUS
  <2>2. QED
    BY ONLY <2>1, S \in SUBSET D, IsFiniteSet(S), op \in [Nat \X Nat -> Nat], FoldsExist,
       ZenonT(60)
<1>3. ASSUME NEW s \in SUBSET S
      PROVE  fold[s] = IF s = {} THEN 1 ELSE f[Pick(s)] * fold[s \ {Pick(s)}]
  <2>1. CASE s = {}
    BY <1>2, <2>1 DEF Follows
  <2>2. CASE s # {}
    <3>1. f[Pick(s)] \in Nat /\ fold[s \ {Pick(s)}] \in Nat
      BY <1>2, <2>2 DEF Pick
    <3>2. fold[s] = op[<<f[Pick(s)], fold[s \ {Pick(s)}]>>]
      BY <1>2, <2>2 DEF Follows
    <3>3. QED
      BY <1>1, <2>2, <3>1, <3>2
  <2>3. QED
    BY <2>1, <2>2
<1>4. \E product : Multiplies(f, S, product)
  <2> DEFINE product == [s \in SUBSET S |-> fold[s]]
  <2>1. Multiplies(f, S, product)
    BY <1>3 DEF Multiplies
  <2>2. QED
    BY <2>1
<1> DEFINE product == CHOOSE product : Multiplies(f, S, product)
<1>5. Multiplies(f, S, product)
  BY <1>4
<1>6. Product(f, S) = product[S]
  BY ProductUnfolds
<1> HIDE DEF product
<1>7. \A s \in SUBSET S :
        product[s] = IF s = {} THEN 1 ELSE f[Pick(s)] * product[s \ {Pick(s)}]
  BY <1>5 DEF Multiplies
<1> DEFINE P == {s \in SUBSET S : /\ product[s] \in Nat \ {0}
                                  /\ \A x \in s : \E m \in Nat \ {0} : product[s] = f[x] * m}
<1>8. ASSUME NEW s \in SUBSET S, \A t \in SUBSET s : t # s => t \in P PROVE s \in P
  <2>1. CASE s = {}
    <3>1. product[s] = 1
      BY <1>7, <2>1
    <3>2. QED
      BY <2>1, <3>1
  <2>2. CASE s # {}
    <3> DEFINE p == Pick(s)
               r == s \ {p}
               a == f[p]
               b == product[r]
    <3>1. p \in s /\ r \in SUBSET s /\ r # s
      BY <2>2 DEF Pick
    <3>2. r \in P
      BY <1>8, <3>1
    <3>3. product[s] = a * b
      BY <1>7, <2>2
    <3>4. a \in Nat \ {0} /\ b \in Nat \ {0}
      BY <3>1, <3>2
    <3>5. product[s] \in Nat \ {0}
      <4> HIDE DEF a, b
      <4>1. QED
        BY <3>3, <3>4, ProductType
    <3>6. ASSUME NEW x \in s PROVE \E m \in Nat \ {0} : product[s] = f[x] * m
      <4>1. CASE x = p
        BY <3>3, <3>4, <4>1
      <4>2. CASE x # p
        <5>1. PICK m \in Nat \ {0} : b = f[x] * m
          BY <3>2, <4>2
        <5>2. f[x] \in Nat \ {0}
          OBVIOUS
        <5> HIDE DEF a, b
        <5>3. a * m \in Nat \ {0}
          BY <3>4, <5>1, ProductType
        <5> DEFINE y == f[x]
        <5>4. a * (y * m) = y * (a * m)
          <6> HIDE DEF y
          <6>1. y \in Int /\ a \in Int /\ m \in Int
            BY <3>4, <5>2 DEF y
          <6>2. a * (y * m) = (a * y) * m /\ a * y = y * a /\ y * (a * m) = (y * a) * m
            BY <6>1, Products
          <6>3. QED
            BY <6>2
        <5>5. QED
          BY <3>3, <5>1, <5>3, <5>4
      <4>3. QED
        BY <4>1, <4>2
    <3>7. QED
      BY <3>5, <3>6
  <2>3. QED
    BY <2>1, <2>2
<1> HIDE DEF P
<1>9. \A s \in SUBSET S : s \in P
  BY <1>8, SubsetInduction
<1>10. S \in P
  BY <1>9
<1>11. QED
  BY <1>6, <1>10 DEF P

-----------------------------------------------------------------------------
(* The least and the largest                                               *)

\* Min is the least, and Max the largest if the set is finite.
LEMMA MinOf ==
  ASSUME NEW S \in SUBSET Nat, S # {}
  PROVE  Min(S) \in S /\ \A x \in S : Min(S) <= x
BY LeastOf DEF Min

LEMMA MaxOf ==
  ASSUME NEW S \in SUBSET Nat, S # {}, IsFiniteSet(S)
  PROVE  Max(S) \in S /\ \A x \in S : x <= Max(S)
<1> DEFINE P == {s \in SUBSET S : s # {} => \E m \in s : \A x \in s : m >= x}
<1>1. ASSUME NEW s \in SUBSET S, \A t \in SUBSET s : t # s => t \in P PROVE s \in P
  <2> SUFFICES ASSUME s # {} PROVE \E m \in s : \A x \in s : m >= x
    OBVIOUS
  <2>1. PICK y \in s : TRUE
    OBVIOUS
  <2> DEFINE r == s \ {y}
  <2>2. r \in SUBSET s /\ r # s
    BY <2>1
  <2>3. r \in P
    BY <1>1, <2>2
  <2>4. CASE r = {}
    BY <2>1, <2>4
  <2>5. CASE r # {}
    <3>1. PICK m \in r : \A x \in r : m >= x
      BY <2>3, <2>5
    <3>2. CASE y <= m
      BY <3>1, <3>2
    <3>3. CASE m < y
      BY <2>1, <3>1, <3>3
    <3>4. QED
      BY <3>2, <3>3
  <2>6. QED
    BY <2>4, <2>5
<1> HIDE DEF P
<1>2. \A s \in SUBSET S : s \in P
  BY <1>1, SubsetInduction
<1>3. PICK m \in S : \A x \in S : m >= x
  BY <1>2 DEF P
<1>4. Max(S) \in S /\ \A x \in S : Max(S) >= x
  BY <1>3 DEF Max
<1>5. QED
  BY <1>4

\* What a function makes of a finite set is finite.
LEMMA FiniteImage ==
  ASSUME NEW S, IsFiniteSet(S), NEW f
  PROVE  IsFiniteSet({f[x] : x \in S}) /\ Cardinality({f[x] : x \in S}) <= Cardinality(S)
<1> DEFINE T == {f[x] : x \in S}
           g == [x \in S |-> f[x]]
<1>1. g \in Surjection(S, T)
  BY DEF Surjection
<1> HIDE DEF T, g
<1>2. IsFiniteSet(T) /\ Cardinality(T) <= Cardinality(S)
  BY <1>1, FS_Surjection
<1>3. QED
  BY <1>2 DEF T

-----------------------------------------------------------------------------
(* What the queries of the dashboard return                                *)

\* What each quote asks.
Prices(rows) == [q \in QuotesIn(rows) |-> rows[q[1]].total[q[2]]]

\* What a query can return: of each simulation a few quotes, the cheapest marked.
IsResult(rows) ==
  /\ IsFiniteSet(DOMAIN rows)
  /\ \A s \in DOMAIN rows :
       LET total == rows[s].total
       IN /\ IsFiniteSet(DOMAIN total) /\ DOMAIN total # {}
          /\ \A k \in DOMAIN total : total[k] \in Nat
          /\ rows[s].cheapest =
               {k \in DOMAIN total : \A j \in DOMAIN total : total[k] <= total[j]}

\* A quote is that of a carrier for a simulation.
LEMMA QuotesAre ==
  ASSUME NEW rows
  PROVE  /\ \A q : q \in QuotesIn(rows) <=>
              \E s \in DOMAIN rows : \E k \in DOMAIN rows[s].total : q = <<s, k>>
         /\ \A s, k : <<s, k>> \in QuotesIn(rows) <=>
              s \in DOMAIN rows /\ k \in DOMAIN rows[s].total
BY DEF QuotesIn

\* There are finitely many, of natural numbers of cents.
LEMMA QuotesFinite ==
  ASSUME NEW rows, IsResult(rows)
  PROVE  IsFiniteSet(QuotesIn(rows)) /\ Prices(rows) \in [QuotesIn(rows) -> Nat]
<1> DEFINE f == [s \in DOMAIN rows |-> {s} \X DOMAIN rows[s].total]
           T == {f[s] : s \in DOMAIN rows}
<1>1. \A s \in DOMAIN rows : IsFiniteSet(f[s])
  <2> SUFFICES ASSUME NEW s \in DOMAIN rows PROVE IsFiniteSet(f[s])
    OBVIOUS
  <2>1. IsFiniteSet(DOMAIN rows[s].total) /\ IsFiniteSet({s})
    BY FS_Singleton DEF IsResult
  <2>2. IsFiniteSet({s} \X DOMAIN rows[s].total)
    BY <2>1, FS_Product
  <2>3. QED
    BY <2>2
<1>2. IsFiniteSet(DOMAIN rows)
  BY DEF IsResult
<1>3. QuotesIn(rows) = UNION T
  BY DEF QuotesIn
<1>4. IsFiniteSet(T)
  <2> HIDE DEF f
  <2>1. QED
    BY <1>2, FiniteImage
<1>5. \A t \in T : IsFiniteSet(t)
  BY <1>1
<1> HIDE DEF T
<1>6. IsFiniteSet(UNION T)
  BY <1>4, <1>5, FS_UNION
<1>7. ASSUME NEW q \in QuotesIn(rows) PROVE rows[q[1]].total[q[2]] \in Nat
  <2>1. PICK s, k : s \in DOMAIN rows /\ k \in DOMAIN rows[s].total /\ q = <<s, k>>
    BY QuotesAre
  <2>2. q[1] = s /\ q[2] = k
    BY <2>1
  <2>3. QED
    BY <2>1, <2>2 DEF IsResult
<1>8. QED
  BY <1>3, <1>6, <1>7 DEF Prices

\* The sum over some of the quotes is one of natural numbers.
LEMMA SumOfIsSum ==
  ASSUME NEW rows, IsResult(rows), NEW Q \in SUBSET QuotesIn(rows)
  PROVE  /\ IsFiniteSet(Q) /\ Cardinality(Q) \in Nat
         /\ Q # {} => Cardinality(Q) # 0
         /\ SumOf(rows, Q) = Sum(Prices(rows), Q)
         /\ SumOf(rows, Q) \in Nat
<1> DEFINE f == Prices(rows)
           g == [q \in Q |-> rows[q[1]].total[q[2]]]
<1>1. IsFiniteSet(Q) /\ f \in [QuotesIn(rows) -> Nat]
  BY QuotesFinite, FS_Subset
<1>2. Cardinality(Q) \in Nat /\ (Q # {} => Cardinality(Q) # 0)
  BY <1>1, FS_CardinalityType, FS_EmptySet
<1>3. \A q \in Q : g[q] = f[q]
  BY DEF Prices
<1>4. g \in [Q -> Nat]
  BY <1>1, <1>3
<1>5. SumOf(rows, Q) = Sum(g, Q)
  <2>1. DOMAIN g = Q
    OBVIOUS
  <2>2. SumOf(rows, Q) = SumFunctionOnSet(g, DOMAIN g)
    BY Zenon DEF SumOf, SumFunction
  <2>3. QED
    BY ONLY <2>1, <2>2, Zenon DEF Sum
<1> HIDE DEF f, g
<1>6. Sum(g, Q) = Sum(f, Q)
  BY <1>1, <1>3, <1>4, SumsOfEquals
<1>7. Sum(f, Q) \in Nat
  BY <1>1, SumTakes
<1>8. QED
  BY <1>1, <1>2, <1>5, <1>6, <1>7 DEF f

\* A sum lies between that many times the least and the largest.
LEMMA SumOfBetween ==
  ASSUME NEW rows, IsResult(rows), NEW Q \in SUBSET QuotesIn(rows), NEW c \in Nat
  PROVE  /\ (\A q \in Q : c <= rows[q[1]].total[q[2]]) => Cardinality(Q) * c <= SumOf(rows, Q)
         /\ (\A q \in Q : rows[q[1]].total[q[2]] <= c) => SumOf(rows, Q) <= Cardinality(Q) * c
<1> DEFINE f == Prices(rows)
<1>1. f \in [QuotesIn(rows) -> Nat] /\ \A q \in Q : f[q] = rows[q[1]].total[q[2]]
  BY QuotesFinite DEF Prices
<1>2. IsFiniteSet(Q) /\ SumOf(rows, Q) = Sum(f, Q)
  BY SumOfIsSum
<1> HIDE DEF f
<1>3. /\ (\A q \in Q : c <= f[q]) => Cardinality(Q) * c <= Sum(f, Q)
      /\ (\A q \in Q : f[q] <= c) => Sum(f, Q) <= Cardinality(Q) * c
  BY <1>1, <1>2, SumBetween
<1>4. QED
  BY <1>1, <1>2, <1>3

\* An average lies between the least and the largest.
LEMMA MeanBetween ==
  ASSUME NEW rows, IsResult(rows), NEW Q \in SUBSET QuotesIn(rows), Q # {}, NEW c \in Nat
  PROVE  /\ Mean(rows, Q) \in Int
         /\ (\A q \in Q : c <= rows[q[1]].total[q[2]]) => c <= Mean(rows, Q)
         /\ (\A q \in Q : rows[q[1]].total[q[2]] <= c) => Mean(rows, Q) <= c
<1> DEFINE n == Cardinality(Q)
           sum == SumOf(rows, Q)
<1>1. n \in Nat \ {0} /\ sum \in Nat
  BY SumOfIsSum
<1>2. Mean(rows, Q) = RoundDiv(sum, n)
  BY DEF Mean
<1>3. /\ (\A q \in Q : c <= rows[q[1]].total[q[2]]) => n * c <= sum
      /\ (\A q \in Q : rows[q[1]].total[q[2]] <= c) => sum <= n * c
  BY SumOfBetween
<1> HIDE DEF n, sum
<1>4. RoundDiv(sum, n) \in Int
  BY <1>1, RoundBounds
<1>5. /\ n * c <= sum => c <= RoundDiv(sum, n)
      /\ sum <= n * c => RoundDiv(sum, n) <= c
  BY <1>1, RoundBetween
<1>6. QED
  BY <1>2, <1>3, <1>4, <1>5

\* The least and the largest price among some quotes.
LEMMA AskedBetween ==
  ASSUME NEW rows, IsResult(rows), NEW Q \in SUBSET QuotesIn(rows), Q # {}
  PROVE  /\ Min(Asked(rows, Q)) \in Nat /\ Max(Asked(rows, Q)) \in Nat
         /\ \A q \in Q : /\ rows[q[1]].total[q[2]] \in Nat
                         /\ Min(Asked(rows, Q)) <= rows[q[1]].total[q[2]]
                         /\ rows[q[1]].total[q[2]] <= Max(Asked(rows, Q))
         /\ \E q \in Q : Min(Asked(rows, Q)) = rows[q[1]].total[q[2]]
         /\ \E q \in Q : Max(Asked(rows, Q)) = rows[q[1]].total[q[2]]
<1> DEFINE f == Prices(rows)
           A == Asked(rows, Q)
<1>1. f \in [QuotesIn(rows) -> Nat] /\ \A q \in Q : f[q] = rows[q[1]].total[q[2]]
  BY QuotesFinite DEF Prices
<1>2. A = {f[q] : q \in Q}
  BY <1>1 DEF Asked
<1>3. IsFiniteSet(Q)
  BY SumOfIsSum
<1> HIDE DEF f
<1>4. A \in SUBSET Nat /\ A # {} /\ IsFiniteSet(A)
  BY <1>1, <1>2, <1>3, FiniteImage
<1> HIDE DEF A
<1>5. Min(A) \in A /\ \A x \in A : Min(A) <= x
  BY <1>4, MinOf
<1>6. Max(A) \in A /\ \A x \in A : x <= Max(A)
  BY <1>4, MaxOf
<1>7. /\ Min(A) \in Nat /\ Max(A) \in Nat
      /\ \A q \in Q : f[q] \in Nat /\ Min(A) <= f[q] /\ f[q] <= Max(A)
      /\ \E q \in Q : Min(A) = f[q]
      /\ \E q \in Q : Max(A) = f[q]
  BY <1>2, <1>4, <1>5, <1>6
<1>8. QED
  BY <1>1, <1>7, Zenon DEF A

\* Each simulation has a quote that is marked, and nobody asks less for it.
LEMMA CheapestMarked ==
  ASSUME NEW rows, IsResult(rows), NEW s \in DOMAIN rows
  PROVE  /\ rows[s].cheapest # {}
         /\ \A k \in rows[s].cheapest :
              /\ k \in DOMAIN rows[s].total /\ <<s, k>> \in MarkedIn(rows)
              /\ \A j \in DOMAIN rows[s].total : rows[s].total[k] <= rows[s].total[j]
<1> DEFINE total == rows[s].total
           A == {total[k] : k \in DOMAIN total}
<1>1. /\ DOMAIN total # {} /\ \A k \in DOMAIN total : total[k] \in Nat
      /\ rows[s].cheapest =
           {k \in DOMAIN total : \A j \in DOMAIN total : total[k] <= total[j]}
  BY DEF IsResult
<1>2. A \in SUBSET Nat /\ A # {}
  BY <1>1
<1>3. PICK least \in A : \A n \in A : least <= n
  <2> HIDE DEF A
  <2>1. QED
    BY <1>2, LeastOf
<1>4. PICK k \in DOMAIN total : least = total[k]
  BY <1>3
<1>5. k \in rows[s].cheapest
  BY <1>1, <1>3, <1>4
<1>6. ASSUME NEW j \in rows[s].cheapest PROVE <<s, j>> \in MarkedIn(rows)
  <2>1. j \in DOMAIN rows[s].total
    BY <1>1, <1>6
  <2>2. <<s, j>> \in QuotesIn(rows)
    BY <2>1, QuotesAre
  <2>3. <<s, j>>[1] = s /\ <<s, j>>[2] = j
    OBVIOUS
  <2>4. QED
    BY <1>6, <2>2, <2>3 DEF MarkedIn
<1>7. QED
  BY <1>1, <1>5, <1>6

\* The selected quote is the cheapest, so nothing could have been saved.
LEMMA NothingToSave ==
  ASSUME NEW rows, IsResult(rows)
  PROVE  PotentialSavings(rows) = 0
<1> DEFINE D == DOMAIN rows
           f == [s \in D |-> Saving(rows[s])]
           g == [s \in D |-> 0]
<1>1. ASSUME NEW s \in D PROVE Saving(rows[s]) = 0
  <2> DEFINE total == rows[s].total
             A == {total[k] : k \in DOMAIN total}
             k == CHOOSE k \in rows[s].cheapest : TRUE
  <2>1. rows[s].cheapest # {} /\ k \in rows[s].cheapest
    BY CheapestMarked
  <2>2. k \in DOMAIN total /\ \A j \in DOMAIN total : total[k] <= total[j]
    <3> HIDE DEF k
    <3>1. QED
      BY <2>1, CheapestMarked
  <2>3. \A j \in DOMAIN total : total[j] \in Nat
    BY DEF IsResult
  <2>4. A \in SUBSET Nat /\ A # {} /\ total[k] \in A
    <3> HIDE DEF k
    <3>1. QED
      BY <2>2, <2>3
  <2>5. Min(A) \in A /\ \A x \in A : Min(A) <= x
    <3> HIDE DEF A
    <3>1. QED
      BY <2>4, MinOf
  <2>6. Min(A) = total[k]
    <3> HIDE DEF k
    <3>1. \A x \in A : total[k] <= x
      BY <2>2
    <3>2. Min(A) <= total[k] /\ total[k] <= Min(A) /\ Min(A) \in Nat /\ total[k] \in Nat
      <4> HIDE DEF A
      <4>1. QED
        BY <2>4, <2>5, <3>1
    <3>3. QED
      BY <3>2
  <2>7. Saving(rows[s]) = total[k] - Min(A)
    BY <2>1 DEF Saving
  <2>8. total[k] \in Nat
    <3> HIDE DEF k
    <3>1. QED
      BY <2>2, <2>3
  <2>9. QED
    <3> HIDE DEF total, A, k
    <3>1. QED
      BY <2>6, <2>7, <2>8
<1>2. f = g
  BY <1>1
<1>3. PotentialSavings(rows) = Sum(f, D)
  <2>1. DOMAIN f = D
    OBVIOUS
  <2>2. PotentialSavings(rows) = SumFunctionOnSet(f, DOMAIN f)
    BY Zenon DEF PotentialSavings, SumFunction
  <2>3. QED
    BY ONLY <2>1, <2>2, Zenon DEF Sum
<1>4. IsFiniteSet(D) /\ D \in SUBSET D /\ 0 \in Nat
  BY DEF IsResult
<1>5. Sum(g, D) = 0 * Cardinality(D) /\ Cardinality(D) \in Nat
  <2> HIDE DEF D
  <2>1. QED
    BY <1>4, SumOfConstant
<1>6. QED
  BY <1>2, <1>3, <1>5

\* What is shown of the freight: the marked quotes, if there are any.
LEMMA ShownIsMarked ==
  ASSUME NEW rows, IsResult(rows)
  PROVE  /\ MarkedIn(rows) \in SUBSET QuotesIn(rows)
         /\ (IF MarkedIn(rows) # {} THEN MarkedIn(rows) ELSE QuotesIn(rows)) = MarkedIn(rows)
         /\ DOMAIN rows # {} <=> MarkedIn(rows) # {}
         /\ DOMAIN rows = {} => QuotesIn(rows) = {}
<1>1. MarkedIn(rows) \in SUBSET QuotesIn(rows)
  BY DEF MarkedIn
<1>2. DOMAIN rows = {} => QuotesIn(rows) = {}
  BY QuotesAre
<1>3. DOMAIN rows # {} => MarkedIn(rows) # {}
  BY CheapestMarked
<1>4. QED
  BY <1>1, <1>2, <1>3

\* The cheapest freight is the cheapest quote there is.
LEMMA LeastIsMarked ==
  ASSUME NEW rows, IsResult(rows), DOMAIN rows # {}
  PROVE  /\ Min(Asked(rows, MarkedIn(rows))) = Min(Asked(rows, QuotesIn(rows)))
         /\ \A q \in QuotesIn(rows) :
              Min(Asked(rows, MarkedIn(rows))) <= rows[q[1]].total[q[2]]
<1> DEFINE marked == MarkedIn(rows)
           all == QuotesIn(rows)
           m == Min(Asked(rows, marked))
           n == Min(Asked(rows, all))
<1>1. marked \in SUBSET all /\ marked # {} /\ all \in SUBSET all /\ all # {}
  BY ShownIsMarked
<1>2. /\ m \in Nat /\ \A q \in marked : m <= rows[q[1]].total[q[2]]
      /\ \E q \in marked : m = rows[q[1]].total[q[2]]
  <2> HIDE DEF marked
  <2>1. QED
    BY <1>1, AskedBetween
<1>3. /\ n \in Nat /\ \A q \in all : n <= rows[q[1]].total[q[2]]
      /\ \A q \in all : rows[q[1]].total[q[2]] \in Nat
      /\ \E q \in all : n = rows[q[1]].total[q[2]]
  BY <1>1, AskedBetween
<1>4. ASSUME NEW q \in all PROVE m <= rows[q[1]].total[q[2]]
  <2>1. PICK s, k : s \in DOMAIN rows /\ k \in DOMAIN rows[s].total /\ q = <<s, k>>
    BY QuotesAre
  <2>2. PICK j \in rows[s].cheapest : TRUE
    BY <2>1, CheapestMarked
  <2>3. <<s, j>> \in marked /\ rows[s].total[j] <= rows[s].total[k]
    BY <2>1, <2>2, CheapestMarked
  <2>4. <<s, j>>[1] = s /\ <<s, j>>[2] = j /\ q[1] = s /\ q[2] = k
    BY <2>1
  <2>5. m <= rows[s].total[j]
    <3> HIDE DEF m, marked
    <3>1. QED
      BY <1>2, <2>3, <2>4
  <2>6. rows[s].total[j] \in Nat /\ rows[s].total[k] \in Nat
    BY <2>1, <2>2, CheapestMarked DEF IsResult
  <2>7. QED
    <3> HIDE DEF m
    <3>1. QED
      BY <1>2, <2>3, <2>4, <2>5, <2>6
<1> HIDE DEF m, n, all, marked
<1>5. m <= n
  BY <1>3, <1>4
<1>6. n <= m
  BY <1>1, <1>2, <1>3
<1>7. m = n
  BY <1>2, <1>3, <1>5, <1>6
<1>8. QED
  BY <1>4, <1>7 DEF m, n, all, marked

-----------------------------------------------------------------------------
(* The figures of the routes and of the carriers                           *)

\* Every simulation is on one route.
LEMMA RoutesAddUp ==
  ASSUME NEW rows, IsResult(rows)
  PROVE  /\ IsFiniteSet(RoutesIn(rows))
         /\ \A r \in RoutesIn(rows) : Cardinality(OnRoute(rows, r)) \in Nat \ {0}
         /\ Sum([r \in RoutesIn(rows) |-> Cardinality(OnRoute(rows, r))], RoutesIn(rows))
              = Cardinality(DOMAIN rows)
<1> DEFINE D == DOMAIN rows
           C == RoutesIn(rows)
           class == [s \in D |-> rows[s].route]
           f == [s \in D |-> 1]
           g == [r \in C |-> Sum(f, {s \in D : class[s] = r})]
<1>1. IsFiniteSet(D)
  BY DEF IsResult
<1>2. C = {class[s] : s \in D}
  BY DEF RoutesIn
<1>3. IsFiniteSet(C)
  <2> HIDE DEF C, D, class
  <2>1. QED
    BY <1>1, <1>2, FiniteImage
<1>4. class \in [D -> C] /\ f \in [D -> Nat] /\ D \in SUBSET D
  BY <1>2
<1>5. Sum(g, C) = Sum(f, D)
  <2> HIDE DEF C, D, class, f
  <2>1. QED
    BY <1>1, <1>3, <1>4, SumByClass
<1>6. Sum(f, D) = 1 * Cardinality(D) /\ Cardinality(D) \in Nat
  <2> HIDE DEF D
  <2>1. 1 \in Nat /\ D \in SUBSET D
    OBVIOUS
  <2>2. QED
    BY <1>1, <2>1, SumOfConstant
<1>7. ASSUME NEW r \in C
      PROVE  g[r] = Cardinality(OnRoute(rows, r)) /\ Cardinality(OnRoute(rows, r)) \in Nat \ {0}
  <2> DEFINE S == OnRoute(rows, r)
  <2>1. S = {s \in D : class[s] = r} /\ S # {}
    BY DEF OnRoute, RoutesIn
  <2>2. IsFiniteSet(S) /\ S \in SUBSET D
    BY <1>1, <2>1, FS_Subset
  <2>3. Cardinality(S) \in Nat /\ Cardinality(S) # 0
    <3> HIDE DEF S
    <3>1. QED
      BY <2>1, <2>2, FS_CardinalityType, FS_EmptySet
  <2>4. Sum(f, S) = 1 * Cardinality(S)
    <3> HIDE DEF S, D
    <3>1. 1 \in Nat
      OBVIOUS
    <3>2. QED
      BY <2>2, <3>1, SumOfConstant
  <2>5. g[r] = Sum(f, S)
    BY <2>1
  <2>6. QED
    BY <2>3, <2>4, <2>5
<1>8. g = [r \in C |-> Cardinality(OnRoute(rows, r))]
  BY <1>7
<1>9. Sum(g, C) = Cardinality(D)
  <2> HIDE DEF g, C, D, f
  <2>1. QED
    BY <1>5, <1>6
<1>10. QED
  BY <1>3, <1>7, <1>8, <1>9, Zenon

\* Every quote is of one carrier.
LEMMA CarriersAddUp ==
  ASSUME NEW rows, IsResult(rows)
  PROVE  LET C == CarriersIn(rows)
             all == QuotesIn(rows)
         IN  /\ \A k \in C : QuotesBy(rows, k) \in SUBSET all /\ QuotesBy(rows, k) # {}
             /\ Sum([k \in C |-> Cardinality(QuotesBy(rows, k))], C) = Cardinality(all)
             /\ Sum([k \in C |-> SumOf(rows, QuotesBy(rows, k))], C) = SumOf(rows, all)
<1> DEFINE C == CarriersIn(rows)
           all == QuotesIn(rows)
           By(k) == QuotesBy(rows, k)
           class == [q \in all |-> q[2]]
           f == Prices(rows)
           one == [q \in all |-> 1]
           g == [k \in C |-> Sum(f, {q \in all : class[q] = k})]
           h == [k \in C |-> Sum(one, {q \in all : class[q] = k})]
<1>1. IsFiniteSet(all) /\ f \in [all -> Nat]
  BY QuotesFinite
<1>2. C = {class[q] : q \in all}
  BY DEF CarriersIn
<1>3. IsFiniteSet(C)
  <2> HIDE DEF C, all, class
  <2>1. QED
    BY <1>1, <1>2, FiniteImage
<1>4. class \in [all -> C] /\ one \in [all -> Nat] /\ all \in SUBSET all /\ 1 \in Nat
  BY <1>2
<1>5. Sum(g, C) = Sum(f, all)
  <2> HIDE DEF C, all, class, f
  <2>1. QED
    BY <1>1, <1>3, <1>4, SumByClass
<1>6. Sum(h, C) = Sum(one, all)
  <2> HIDE DEF C, all, class, one
  <2>1. QED
    BY <1>1, <1>3, <1>4, SumByClass
<1>7. Sum(one, all) = 1 * Cardinality(all) /\ Cardinality(all) \in Nat
  <2> HIDE DEF all
  <2>1. all \in SUBSET all
    OBVIOUS
  <2>2. QED
    BY ZenonT(30), <1>1, <1>4, <2>1, SumOfConstant
<1>8. SumOf(rows, all) = Sum(f, all)
  BY <1>4, SumOfIsSum
<1>9. ASSUME NEW k \in C
      PROVE  /\ By(k) \in SUBSET all /\ By(k) # {}
             /\ g[k] = SumOf(rows, By(k)) /\ h[k] = Cardinality(By(k))
  <2>1. By(k) = {q \in all : class[q] = k} /\ By(k) # {} /\ By(k) \in SUBSET all
    BY <1>2 DEF QuotesBy
  <2>2. IsFiniteSet(By(k)) /\ Cardinality(By(k)) \in Nat /\ SumOf(rows, By(k)) = Sum(f, By(k))
    <3> HIDE DEF By, f
    <3>1. QED
      BY <2>1, SumOfIsSum DEF f
  <2>3. Sum(one, By(k)) = 1 * Cardinality(By(k))
    <3>1. 1 \in Nat /\ By(k) \in SUBSET all /\ IsFiniteSet(By(k))
      BY ONLY <2>1, <2>2
    <3> HIDE DEF By, all
    <3>2. QED
      BY ONLY <3>1, SumOfConstant, ZenonT(30) DEF one
  <2>4. g[k] = Sum(f, By(k)) /\ h[k] = Sum(one, By(k))
    BY <2>1
  <2>5. QED
    <3> HIDE DEF By, f, one, g, h, all
    <3>1. QED
      BY <2>1, <2>2, <2>3, <2>4
<1>10. /\ g = [k \in C |-> SumOf(rows, By(k))]
       /\ h = [k \in C |-> Cardinality(By(k))]
  <2> HIDE DEF By
  <2>1. QED
    BY <1>9
<1>11. /\ Sum(h, C) = Cardinality(all) /\ Sum(g, C) = SumOf(rows, all)
  <2> HIDE DEF g, h, all, f, one, C
  <2>1. QED
    BY <1>5, <1>6, <1>7, <1>8
<1>12. QED
  BY <1>9, <1>10, <1>11, Zenon

\* Nobody asks less than m.
NoneBelow(rows, m) == \A q \in QuotesIn(rows) : m <= rows[q[1]].total[q[2]]

\* The averages of the routes are sums of averages of their simulations, and so
\* not below the least quote times the number of these.
LEMMA RouteAverages ==
  ASSUME NEW rows, IsResult(rows), NEW r \in RoutesIn(rows), NEW m \in Nat,
         NoneBelow(rows, m)
  PROVE  /\ Fractions(rows) \in Nat \ {0} /\ SumOfAverages(rows, OnRoute(rows, r)) \in Nat
         /\ Cardinality(OnRoute(rows, r)) * m
              <= RoundDiv(SumOfAverages(rows, OnRoute(rows, r)), Fractions(rows))
<1> DEFINE D == DOMAIN rows
           n == [s \in D |-> Cardinality(DOMAIN rows[s].total)]
           F == Fractions(rows)
           S == OnRoute(rows, r)
           part(s) == SumOf(rows, {s} \X DOMAIN rows[s].total)
           f == [s \in S |-> part(s) * (F \div Cardinality(DOMAIN rows[s].total))]
<1>1. IsFiniteSet(D) /\ D \in SUBSET D /\ S \in SUBSET D
  BY DEF IsResult, OnRoute
<1>2. n \in [D -> Nat \ {0}]
  <2> SUFFICES ASSUME NEW s \in D PROVE Cardinality(DOMAIN rows[s].total) \in Nat \ {0}
    OBVIOUS
  <2>1. IsFiniteSet(DOMAIN rows[s].total) /\ DOMAIN rows[s].total # {}
    BY DEF IsResult
  <2>2. QED
    BY <2>1, FS_CardinalityType, FS_EmptySet
<1>3. F = Product(n, D)
  <2>1. DOMAIN n = D
    OBVIOUS
  <2>2. F = FoldFunctionOnSet(LAMBDA a, b : a * b, 1, n, DOMAIN n)
    BY Zenon DEF Fractions, FoldFunction
  <2>3. QED
    BY ONLY <2>1, <2>2, Zenon DEF Product
<1>4. F \in Nat \ {0} /\ \A s \in D : \E d \in Nat \ {0} : F = n[s] * d
  <2> HIDE DEF n, D, F
  <2>1. QED
    BY <1>1, <1>2, <1>3, ProductDivides
<1>5. ASSUME NEW s \in S PROVE f[s] \in Nat /\ F * m <= f[s]
  <2> DEFINE Q == {s} \X DOMAIN rows[s].total
             c == Cardinality(DOMAIN rows[s].total)
  <2>1. s \in D /\ n[s] = c /\ c \in Nat \ {0}
    BY <1>1, <1>2
  <2>2. PICK d \in Nat \ {0} : F = c * d
    <3> HIDE DEF F
    <3>1. QED
      BY <1>4, <2>1
  <2>3. Q \in SUBSET QuotesIn(rows)
    BY <2>1, QuotesAre
  <2>4. Cardinality(Q) = c
    <3>1. IsFiniteSet({s}) /\ Cardinality({s}) = 1 /\ IsFiniteSet(DOMAIN rows[s].total)
      BY <2>1, FS_Singleton DEF IsResult
    <3>2. Cardinality(Q) = 1 * c
      BY <3>1, FS_Product
    <3>3. QED
      BY <2>1, <3>2
  <2>5. \A q \in Q : m <= rows[q[1]].total[q[2]]
    <3> HIDE DEF Q
    <3>1. QED
      BY <2>3 DEF NoneBelow
  <2>6. part(s) \in Nat /\ Cardinality(Q) * m <= part(s)
    <3>1. SumOf(rows, Q) \in Nat /\ Cardinality(Q) * m <= SumOf(rows, Q)
      <4> HIDE DEF Q
      <4>1. QED
        BY <2>3, <2>5, SumOfIsSum, SumOfBetween
    <3>2. QED
      BY <3>1
  <2>7. F \div c = d
    <3> HIDE DEF c, F
    <3>1. c * d = d * c
      BY <2>1, Products
    <3>2. c * ((c * d) \div c) <= c * d /\ c * d < c * ((c * d) \div c + 1)
          /\ (c * d) \div c \in Int
      <4>1. c * d \in Int
        BY <2>1, <2>2
      <4> DEFINE e == c * d
      <4> HIDE DEF e
      <4>2. c * (e \div c) <= e /\ e < c * (e \div c + 1) /\ e \div c \in Int
        BY <2>1, <4>1 DEF e
      <4>3. QED
        BY <4>2 DEF e
    <3> DEFINE x == (c * d) \div c
    <3>3. c * x <= c * d /\ c * d < c * (x + 1) /\ x \in Int
      BY <3>2
    <3> HIDE DEF x
    <3>4. ~(x < d)
      <4> SUFFICES ASSUME x < d PROVE FALSE
        OBVIOUS
      <4>1. c * (x + 1) <= c * d
        BY <2>1, <3>3, ProductGrows
      <4>2. c * (x + 1) \in Int /\ c * d \in Int
        BY <2>1, <3>3
      <4>3. QED
        BY <3>3, <4>1, <4>2
    <3>5. ~(d < x)
      <4> SUFFICES ASSUME d < x PROVE FALSE
        OBVIOUS
      <4>1. c * d < c * x
        BY <2>1, <3>3, ProductGrows
      <4>2. c * x \in Int /\ c * d \in Int
        BY <2>1, <3>3
      <4>3. QED
        BY <3>3, <4>1, <4>2
    <3>6. QED
      BY <2>2, <3>3, <3>4, <3>5 DEF x
  <2>8. f[s] = part(s) * d
    BY <2>7
  <2> DEFINE a == part(s)
  <2> HIDE DEF a, F, f, c, Q, n, D, S
  <2>9. a \in Nat /\ c * m <= a /\ f[s] = a * d
    BY <2>4, <2>6, <2>8 DEF a
  <2>10. d * (c * m) <= d * a /\ d * a = a * d /\ a * d \in Nat
    <3>1. c * m \in Int
      BY <2>1
    <3>2. QED
      BY <2>2, <2>9, <3>1, ProductGrows, Products, ProductType
  <2>11. d * (c * m) = F * m
    <3>1. d * (c * m) = (d * c) * m /\ d * c = c * d
      BY <2>1, <2>2, Products
    <3>2. QED
      BY <2>2, <3>1
  <2>12. QED
    BY <2>9, <2>10, <2>11
<1>6. SumOfAverages(rows, S) = Sum(f, S)
  <2>1. DOMAIN f = S
    OBVIOUS
  <2>2. SumOfAverages(rows, S) = SumFunctionOnSet(f, DOMAIN f)
    BY Zenon DEF SumOfAverages, SumFunction
  <2>3. QED
    BY ONLY <2>1, <2>2, Zenon DEF Sum
<1>7. f \in [S -> Nat] /\ IsFiniteSet(S) /\ S \in SUBSET S /\ Cardinality(S) \in Nat
  <2>1. f \in [S -> Nat]
    BY <1>5
  <2>2. IsFiniteSet(S)
    BY <1>1, FS_Subset
  <2>3. QED
    BY <2>1, <2>2, FS_CardinalityType
<1> DEFINE c == Cardinality(S)
           a == Sum(f, S)
<1>8. F * m \in Nat /\ a \in Nat /\ c * (F * m) <= a
  <2>1. F * m \in Nat
    <3> HIDE DEF F
    <3>1. QED
      BY <1>4, ProductType
  <2> DEFINE b == F * m
  <2> HIDE DEF b, f, S, F
  <2>2. b \in Nat /\ \A s \in S : b <= f[s]
    BY <1>5, <2>1 DEF b
  <2>3. a \in Nat
    BY <1>7, SumTakes
  <2>4. c * b <= a
    BY <1>7, <2>2, SumBetween
  <2>5. QED
    BY <2>1, <2>3, <2>4 DEF b
<1>9. c * m <= RoundDiv(a, F)
  <2> HIDE DEF F, a, c
  <2>1. c * m \in Int /\ c * (F * m) = F * (c * m)
    <3>0. c \in Nat /\ F \in Nat
      BY <1>4, <1>7 DEF c
    <3>1. c * (F * m) = (c * F) * m /\ F * (c * m) = (F * c) * m /\ c * F = F * c
      BY <3>0, Products
    <3>2. QED
      BY <3>0, <3>1
  <2>2. F * (c * m) <= a
    BY <1>8, <2>1
  <2>3. QED
    BY <1>4, <1>8, <2>1, <2>2, RoundBetween
<1>10. QED
  BY <1>4, <1>6, <1>8, <1>9

-----------------------------------------------------------------------------
(* What the insights say                                                   *)

\* Nothing is offered to be saved.
LEMMA NoEconomy ==
  ASSUME NEW rows, IsResult(rows)
  PROVE  Economy(rows) = {}
<1>1. PotentialSavings(rows) = 0 /\ ~(0 > 0)
  BY NothingToSave
<1>2. QED
  BY <1>1 DEF Economy

\* The carrier of the insight has the lowest average, after rounding too.
LEMMA CarrierIsCheapest ==
  ASSUME NEW rows, IsResult(rows), NEW i \in Carrier(rows)
  PROVE  /\ i.type = "carrier" /\ i.about \in CarriersIn(rows)
         /\ i.figure \in Nat /\ i.per \in Nat \ {0}
         /\ RoundDiv(i.figure, i.per) = Mean(rows, QuotesBy(rows, i.about))
         /\ \A k \in CarriersIn(rows) :
              Mean(rows, QuotesBy(rows, i.about)) <= Mean(rows, QuotesBy(rows, k))
<1>1. PICK a \in LowestAverage(rows) :
        i = [type |-> "carrier", about |-> a, figure |-> SumOf(rows, QuotesBy(rows, a)),
             per |-> Cardinality(QuotesBy(rows, a))]
  BY DEF Carrier
<1>2. a \in CarriersIn(rows)
  BY DEF LowestAverage
<1>3. ASSUME NEW k \in CarriersIn(rows)
      PROVE  Mean(rows, QuotesBy(rows, a)) <= Mean(rows, QuotesBy(rows, k))
  <2> DEFINE A == QuotesBy(rows, a)
             K == QuotesBy(rows, k)
             s == SumOf(rows, A)
             n == Cardinality(A)
             t == SumOf(rows, K)
             m == Cardinality(K)
  <2>1. A \in SUBSET QuotesIn(rows) /\ A # {} /\ K \in SUBSET QuotesIn(rows) /\ K # {}
    BY <1>2, <1>3 DEF QuotesBy, CarriersIn
  <2>2. s * m <= t * n
    BY <1>3 DEF LowestAverage
  <2>3. s \in Nat /\ n \in Nat \ {0} /\ t \in Nat /\ m \in Nat \ {0}
    <3> HIDE DEF A, K
    <3>1. QED
      BY <2>1, SumOfIsSum
  <2>4. Mean(rows, A) = RoundDiv(s, n) /\ Mean(rows, K) = RoundDiv(t, m)
    BY <2>1 DEF Mean
  <2> HIDE DEF s, n, t, m, A, K
  <2>5. m * s = s * m /\ n * t = t * n
    BY <2>3, Products
  <2>6. RoundDiv(s, n) <= RoundDiv(t, m)
    BY <2>2, <2>3, <2>5, RoundMonotone
  <2>7. QED
    BY <2>4, <2>6 DEF A, K
<1>4. /\ i.figure \in Nat /\ i.per \in Nat \ {0}
      /\ RoundDiv(i.figure, i.per) = Mean(rows, QuotesBy(rows, a))
  <2> DEFINE A == QuotesBy(rows, a)
  <2>1. A \in SUBSET QuotesIn(rows) /\ A # {}
    BY <1>2 DEF QuotesBy, CarriersIn
  <2>2. i.figure = SumOf(rows, A) /\ i.per = Cardinality(A)
    BY <1>1
  <2> HIDE DEF A
  <2>3. SumOf(rows, A) \in Nat /\ Cardinality(A) \in Nat \ {0}
    BY <2>1, SumOfIsSum
  <2>4. Mean(rows, A) = RoundDiv(SumOf(rows, A), Cardinality(A))
    BY <2>1 DEF Mean
  <2>5. QED
    BY <2>2, <2>3, <2>4 DEF A
<1>5. QED
  BY <1>1, <1>2, <1>3, <1>4

\* What is told in whole reais is at most half a real off what is shown in cents.
LEMMA ReaisAreClose ==
  ASSUME NEW s \in Nat, NEW n \in Nat \ {0}
  PROVE  /\ RoundDiv(s, n) - 50 <= 100 * RoundDiv(s, 100 * n)
         /\ 100 * RoundDiv(s, 100 * n) <= RoundDiv(s, n) + 50
<1> DEFINE m == 100 * n
           f == RoundDiv(s, m)
           e == RoundDiv(s, n)
<1>1. m \in Nat \ {0}
  OBVIOUS
<1>2. f \in Int /\ 2 * (m * f) <= 2 * s + m /\ 2 * s + m < 2 * (m * f) + 2 * m
  <2> HIDE DEF m
  <2>1. QED
    BY <1>1, RoundBounds
<1>3. e \in Int
  BY RoundBounds
<1> HIDE DEF f
<1>4. m * f = 100 * (n * f) /\ n * f \in Int
  BY <1>2
<1>5. n * (100 * f - 50) <= s /\ s <= n * (100 * f + 50)
  <2>1. n * (100 * f - 50) = 100 * (n * f) - 50 * n
        /\ n * (100 * f + 50) = 100 * (n * f) + 50 * n
    BY <1>2
  <2>2. QED
    BY <1>2, <1>4, <2>1
<1>6. 100 * f - 50 <= e /\ e <= 100 * f + 50
  <2>1. 100 * f - 50 \in Int /\ 100 * f + 50 \in Int
    BY <1>2
  <2>2. QED
    BY <1>5, <2>1, RoundBetween
<1> HIDE DEF e
<1>7. e - 50 <= 100 * f /\ 100 * f <= e + 50
  BY <1>2, <1>3, <1>6
<1>8. QED
  BY <1>7 DEF e, f, m

\* The route of the insight is the most frequent, and has its part of the simulations.
LEMMA ConcentrationIsFrequent ==
  ASSUME NEW rows, IsResult(rows), NEW i \in Concentration(rows)
  PROVE  /\ i.type = "concentration" /\ i.about \in RoutesIn(rows)
         /\ \A r \in RoutesIn(rows) :
              Cardinality(OnRoute(rows, r)) <= Cardinality(OnRoute(rows, i.about))
         /\ (2 * i.figure + 1) * Cardinality(RoutesIn(rows)) >= 200
<1>1. PICK a \in MostFrequent(rows) :
        i = [type |-> "concentration", about |-> a, figure |-> Share(rows, a),
             per |-> 1]
  BY DEF Concentration
<1>2. /\ a \in RoutesIn(rows)
      /\ \A r \in RoutesIn(rows) :
           Cardinality(OnRoute(rows, r)) <= Cardinality(OnRoute(rows, a))
  BY DEF MostFrequent
<1> DEFINE R == RoutesIn(rows)
           k == Cardinality(R)
           f == [r \in R |-> Cardinality(OnRoute(rows, r))]
           n == Cardinality(DOMAIN rows)
           c == Cardinality(OnRoute(rows, a))
           fig == Share(rows, a)
<1>3. /\ IsFiniteSet(R) /\ \A r \in R : Cardinality(OnRoute(rows, r)) \in Nat \ {0}
      /\ Sum(f, R) = n
  BY RoutesAddUp
<1>4. k \in Nat /\ c \in Nat \ {0} /\ f \in [R -> Nat]
  BY <1>2, <1>3, FS_CardinalityType
<1>5. n <= k * c
  <2>1. \A r \in R : f[r] <= c
    BY <1>2
  <2> HIDE DEF R, f, c
  <2>2. R \in SUBSET R /\ c \in Nat
    BY <1>4
  <2>3. Sum(f, R) <= Cardinality(R) * c
    BY <1>3, <1>4, <2>1, <2>2, SumBetween
  <2>4. QED
    BY <1>3, <2>3
<1>6. n \in Nat \ {0}
  <2>1. IsFiniteSet(DOMAIN rows) /\ DOMAIN rows # {}
    BY <1>2 DEF IsResult, RoutesIn
  <2>2. QED
    BY <2>1, FS_CardinalityType, FS_EmptySet
<1>7. fig = RoundDiv(100 * c, n)
  BY DEF Share
<1> HIDE DEF R, k, f, n, c, fig
<1>8. fig \in Int /\ 2 * (100 * c) + n < 2 * (n * fig) + 2 * n
  BY <1>4, <1>6, <1>7, RoundBounds
<1> DEFINE e == 2 * fig + 1
<1>9. e \in Int /\ 200 * c < n * e
  <2>1. n * e = 2 * (n * fig) + n /\ n * fig \in Int
    BY <1>6, <1>8
  <2>2. QED
    BY <1>4, <1>6, <1>8, <2>1
<1> HIDE DEF e
<1>10. e > 0
  <2> SUFFICES ASSUME e <= 0 PROVE FALSE
    BY <1>9
  <2>1. n * e <= n * 0
    BY <1>6, <1>9, ProductGrows
  <2>2. QED
    BY <1>4, <1>6, <1>9, <2>1
<1>11. n * e <= c * (e * k)
  <2>1. e * n <= e * (k * c) /\ e * n = n * e
    <3>1. k * c \in Int /\ e \in Nat
      BY <1>4, <1>9, <1>10
    <3>2. QED
      BY <1>5, <1>6, <1>9, <3>1, ProductGrows, Products
  <2>2. e * (k * c) = (e * k) * c /\ (e * k) * c = c * (e * k)
    <3>1. e * k \in Int
      BY <1>4, <1>9
    <3>2. QED
      BY <1>4, <1>9, <3>1, Products
  <2>3. QED
    BY <2>1, <2>2
<1> DEFINE x == e * k
<1>12. x \in Int
  BY <1>4, <1>9
<1> HIDE DEF x
<1>13. x >= 200
  <2> SUFFICES ASSUME x <= 200 PROVE x = 200
    BY <1>12
  <2>1. c * x <= c * 200 /\ c * x \in Int /\ n * e \in Int
    BY <1>4, <1>6, <1>9, <1>12, ProductGrows
  <2>2. QED
    BY <1>4, <1>9, <1>11, <2>1 DEF x
<1>14. QED
  BY <1>1, <1>2, <1>13 DEF x, e, k, R, fig

\* Of two sets of quotes the one with the lower average has one that is lower.
LEMMA LowerAverage ==
  ASSUME NEW rows, IsResult(rows),
         NEW A \in SUBSET QuotesIn(rows), A # {}, NEW B \in SUBSET QuotesIn(rows), B # {},
         SumOf(rows, A) * Cardinality(B) < SumOf(rows, B) * Cardinality(A)
  PROVE  \E a \in A, b \in B : rows[a[1]].total[a[2]] < rows[b[1]].total[b[2]]
<1> DEFINE s == SumOf(rows, A)
           n == Cardinality(A)
           t == SumOf(rows, B)
           m == Cardinality(B)
           lo == Min(Asked(rows, A))
           hi == Max(Asked(rows, B))
<1>1. s \in Nat /\ n \in Nat \ {0} /\ t \in Nat /\ m \in Nat \ {0}
  BY SumOfIsSum
<1>2. /\ lo \in Nat /\ \A a \in A : lo <= rows[a[1]].total[a[2]]
      /\ \E a \in A : lo = rows[a[1]].total[a[2]]
  BY AskedBetween
<1>3. /\ hi \in Nat /\ \A b \in B : rows[b[1]].total[b[2]] <= hi
      /\ \E b \in B : hi = rows[b[1]].total[b[2]]
  BY AskedBetween
<1>4. n * lo <= s
  <2> HIDE DEF lo
  <2>1. QED
    BY <1>2, SumOfBetween
<1>5. t <= m * hi
  <2> HIDE DEF hi
  <2>1. QED
    BY <1>3, SumOfBetween
<1>6. s * m < t * n
  OBVIOUS
<1> HIDE DEF s, n, t, m, lo, hi
<1>7. lo < hi
  <2> SUFFICES ASSUME hi <= lo PROVE FALSE
    BY <1>2, <1>3
  <2> DEFINE nm == n * m
  <2>1. nm \in Nat
    BY <1>1, ProductType
  <2>2. m * (n * lo) <= m * s /\ n * t <= n * (m * hi)
    <3>1. n * lo \in Int /\ m * hi \in Int
      BY <1>1, <1>2, <1>3
    <3>2. QED
      BY <1>1, <1>4, <1>5, <3>1, ProductGrows
  <2>3. m * (n * lo) = nm * lo /\ n * (m * hi) = nm * hi
    <3>1. m * (n * lo) = (m * n) * lo /\ n * (m * hi) = (n * m) * hi /\ m * n = n * m
      BY <1>1, <1>2, <1>3, Products
    <3>2. QED
      BY <3>1
  <2> HIDE DEF nm
  <2>4. nm * hi <= nm * lo
    BY <1>2, <1>3, <2>1, ProductGrows
  <2>5. m * s = s * m /\ n * t = t * n /\ s * m \in Int /\ t * n \in Int
    BY <1>1, Products
  <2>6. nm * lo \in Int /\ nm * hi \in Int
    BY <1>2, <1>3, <2>1
  <2>7. QED
    BY <1>6, <2>2, <2>3, <2>4, <2>5, <2>6
<1>8. QED
  BY <1>2, <1>3, <1>7

\* Nothing was created after the time t.
Dated(rows, t) == \A s \in DOMAIN rows : rows[s].week \in 0..t

\* The quotes of the simulations that were created before t.
Before(rows, t) == {q \in QuotesIn(rows) : rows[q[1]].week < t}

\* A trend is only seen if some freight did change in its direction.
LEMMA TrendIsReal ==
  ASSUME NEW rows, IsResult(rows), NEW t \in Nat, NEW period \in Nat,
         Dated(rows, t), NEW i \in Trend(rows, t, period)
  PROVE  LET old == Before(rows, t - period)
             new == QuotesIn(rows) \ old
         IN  /\ i.type = "trend"
             /\ old # {} /\ new # {}
             /\ IF i.about = "caiu"
                  THEN i.figure < 0 /\ Min(Asked(rows, new)) < Max(Asked(rows, old))
                  ELSE i.figure > 0 /\ Max(Asked(rows, new)) > Min(Asked(rows, old))
<1> DEFINE all == QuotesIn(rows)
           old == Before(rows, t - period)
           new == all \ old
           within(from, to) == {q \in all : rows[q[1]].week >= from /\ rows[q[1]].week < to}
           recent == within(t - period, t + 1)
           previous == within(t - 2 * period, t - period)
           r == SumOf(rows, recent) * Cardinality(previous)
           p == SumOf(rows, previous) * Cardinality(recent)
           change == RoundDiv(100 * (r - p), p)
<1>1. /\ recent # {} /\ p > 0 /\ (100 * (r - p) > p \/ 100 * (p - r) > p)
      /\ i = [type |-> "trend", about |-> IF r < p THEN "caiu" ELSE "subiu",
              figure |-> change, per |-> 1]
  BY DEF Trend
<1>2. recent = new
  <2>1. ASSUME NEW q \in all PROVE rows[q[1]].week \in 0..t
    <3>1. PICK s, k : s \in DOMAIN rows /\ k \in DOMAIN rows[s].total /\ q = <<s, k>>
      BY QuotesAre
    <3>2. QED
      BY <3>1 DEF Dated
  <2>2. QED
    BY <2>1 DEF Before
<1>3. /\ previous \subseteq old /\ previous \in SUBSET all
      /\ new \in SUBSET all /\ old \in SUBSET all
  BY DEF Before
<1> HIDE DEF recent, previous, old, new, all, change
<1>4. previous \in SUBSET all /\ recent \in SUBSET all
  BY <1>2, <1>3
<1>5. /\ SumOf(rows, recent) \in Nat /\ Cardinality(recent) \in Nat
      /\ SumOf(rows, previous) \in Nat /\ Cardinality(previous) \in Nat
      /\ IsFiniteSet(previous)
  BY <1>4, SumOfIsSum DEF all
<1>6. r \in Nat /\ p \in Nat
  BY <1>5, ProductType
<1>7. previous # {}
  <2> SUFFICES ASSUME previous = {} PROVE FALSE
    OBVIOUS
  <2>1. SumOf(rows, previous) <= Cardinality(previous) * 0
    <3>1. \A q \in previous : rows[q[1]].total[q[2]] <= 0
      OBVIOUS
    <3>2. 0 \in Nat /\ previous \in SUBSET QuotesIn(rows)
      BY <1>4 DEF all
    <3>3. QED
      BY <3>1, <3>2, SumOfBetween
  <2>2. SumOf(rows, previous) = 0
    BY <1>5, <2>1
  <2>3. p = 0
    BY <1>5, <2>2
  <2>4. QED
    BY <1>1, <2>3
<1>8. old # {} /\ new # {}
  BY <1>1, <1>2, <1>3, <1>7
<1>9. /\ \A q \in new : /\ rows[q[1]].total[q[2]] \in Nat
                        /\ Min(Asked(rows, new)) <= rows[q[1]].total[q[2]]
                        /\ rows[q[1]].total[q[2]] <= Max(Asked(rows, new))
      /\ Min(Asked(rows, new)) \in Nat /\ Max(Asked(rows, new)) \in Nat
  BY <1>3, <1>8, AskedBetween DEF all
<1>10. /\ \A q \in old : /\ rows[q[1]].total[q[2]] \in Nat
                         /\ Min(Asked(rows, old)) <= rows[q[1]].total[q[2]]
                         /\ rows[q[1]].total[q[2]] <= Max(Asked(rows, old))
       /\ Min(Asked(rows, old)) \in Nat /\ Max(Asked(rows, old)) \in Nat
  BY <1>3, <1>8, AskedBetween DEF all
<1>11. CASE r < p
  <2>1. PICK a \in recent, b \in previous : rows[a[1]].total[a[2]] < rows[b[1]].total[b[2]]
    BY <1>1, <1>4, <1>7, <1>11, LowerAverage DEF all
  <2>2. a \in new /\ b \in old
    BY <1>2, <1>3
  <2>3. Min(Asked(rows, new)) < Max(Asked(rows, old))
    BY <1>9, <1>10, <2>1, <2>2
  <2> HIDE DEF r, p
  <2>4. 100 * (r - p) <= p * (-1)
    BY <1>1, <1>6, <1>11
  <2>5. change \in Int /\ change <= -1
    <3>1. 100 * (r - p) \in Int /\ p \in Nat \ {0} /\ -1 \in Int
      BY <1>1, <1>6
    <3>2. QED
      BY <2>4, <3>1, RoundBounds, RoundBetween DEF change
  <2>6. i.about = "caiu" /\ i.type = "trend" /\ i.figure < 0
    BY <1>1, <1>11, <2>5
  <2>7. QED
    BY <1>8, <2>3, <2>6 DEF old, new, all
<1>12. CASE ~(r < p)
  <2>1. p < r
    <3> HIDE DEF r, p
    <3>1. QED
      BY <1>1, <1>6, <1>12
  <2>2. PICK a \in previous, b \in recent : rows[a[1]].total[a[2]] < rows[b[1]].total[b[2]]
    BY <1>1, <1>4, <1>7, <2>1, LowerAverage DEF all
  <2>3. b \in new /\ a \in old
    BY <1>2, <1>3
  <2>4. Max(Asked(rows, new)) > Min(Asked(rows, old))
    BY <1>9, <1>10, <2>2, <2>3
  <2> HIDE DEF r, p
  <2>5. p * 1 <= 100 * (r - p)
    BY <1>1, <1>6, <2>1
  <2>6. change \in Int /\ 1 <= change
    <3>1. 100 * (r - p) \in Int /\ p \in Nat \ {0} /\ 1 \in Int
      BY <1>1, <1>6
    <3>2. QED
      BY <2>5, <3>1, RoundBounds, RoundBetween DEF change
  <2>7. i.about = "subiu" /\ i.type = "trend" /\ i.figure > 0
    BY <1>1, <1>12, <2>6
  <2>8. QED
    BY <1>8, <2>4, <2>7 DEF old, new, all
<1>13. QED
  BY <1>11, <1>12

-----------------------------------------------------------------------------
(* The invariant of Insights                                               *)

\* The rows that are stored are few, and each has quotes with the cheapest marked.
TableFacts ==
  /\ routeOf \in [Ids -> Routes \union {"none"}] /\ quotes \in [Ids -> Offers]
  /\ DOMAIN isCheapest = Ids
  /\ IsFiniteSet(Stored)
  /\ \A s \in Stored : Quoted(quotes[s]) # {} /\ isCheapest[s] = CheapestOf(quotes[s])

\* There is one rule of a type at most.
RuleFacts ==
  /\ DOMAIN rules = Runs /\ DOMAIN inserted = Runs
  /\ \A h \in Runs : \A x, y \in rules[h] : x.type = y.type => x = y

\* What could be said of the simulations as they are.
Said ==
  Economy(Rows) \union Carrier(Rows) \union Concentration(Rows)
    \union Trend(Rows, now, Period)

\* Until something comes or goes, what a run has read and what it says is so.
ReadFacts ==
  \A h \in Runs : changes[h] = 0 =>
    /\ awaits[h] \in {"quotes", "routes"} => read[h].sims = Rows
    /\ awaits[h] = "routes" => read[h].quotes = Rows
    /\ rules[h] \union inserted[h] \subseteq Said

\* The inductive invariant: the rules are built of what was read, so they match
\* the dashboard only because that is still there.
InsightsInv == InsightsTypeOK /\ TableFacts /\ RuleFacts /\ ReadFacts

\* The first of the rules to insert is one of them.
LEMMA FirstIsARule ==
  ASSUME NEW R, R # {}, \A rule \in R : rule.type \in Types
  PROVE  First(R) \in R
<1> DEFINE T == {i \in 1..4 : \E rule \in R : rule.type = Order[i]}
<1>1. \A rule \in R : \E i \in 1..4 : rule.type = Order[i]
  BY DEF Types, Order
<1>2. T \in SUBSET Nat /\ T # {}
  BY <1>1
<1>3. PICK i \in T : \A j \in T : i <= j
  <2> HIDE DEF T
  <2>1. QED
    BY <1>2, LeastOf
<1>4. PICK rule \in R : rule.type = Order[i]
  BY <1>3
<1>5. \A other \in R : \E m, n \in 1..4 :
        rule.type = Order[m] /\ other.type = Order[n] /\ m <= n
  <2> SUFFICES ASSUME NEW other \in R
               PROVE  \E m, n \in 1..4 :
                        rule.type = Order[m] /\ other.type = Order[n] /\ m <= n
    OBVIOUS
  <2>1. PICK n \in 1..4 : other.type = Order[n]
    BY <1>1
  <2>2. n \in T /\ i \in 1..4
    BY <1>3, <2>1
  <2>3. i <= n
    BY <1>3, <2>2
  <2>4. QED
    BY <1>4, <2>1, <2>2, <2>3
<1>6. QED
  BY <1>4, <1>5 DEF First

\* Of each type there is one rule among those that are generated.
LEMMA GeneratedRules ==
  ASSUME NEW r, NEW R \in Generated(r)
  PROVE  /\ R \subseteq Candidates(r)
         /\ \A rule \in R : rule.type \in Types
         /\ \A x, y \in R : x.type = y.type => x = y
<1>1. R \subseteq Candidates(r) /\
      \A c \in Candidates(r) : \E x \in R : {y \in R : y.type = c.type} = {x}
  BY DEF Generated
<1>2. ASSUME NEW rule \in R PROVE rule.type \in Types
  <2>1. rule \in Economy(r.sims) \union Carrier(r.quotes) \union Concentration(Rows)
                   \union Trend(r.sims, now, Period)
    BY <1>1 DEF Candidates
  <2>2. CASE rule \in Economy(r.sims)
    <3>1. \E nobody, savings, n :
            rule = [type |-> "economy", about |-> nobody, figure |-> savings, per |-> n]
      BY <2>2, Zenon DEF Economy
    <3>2. QED
      BY <3>1 DEF Types
  <2>3. CASE rule \in Carrier(r.quotes)
    BY <2>3 DEF Carrier, Types
  <2>4. CASE rule \in Concentration(Rows)
    BY <2>4 DEF Concentration, Types
  <2>5. CASE rule \in Trend(r.sims, now, Period)
    <3>1. \E way, change, n :
            rule = [type |-> "trend", about |-> way, figure |-> change, per |-> n]
      BY <2>5, ZenonT(30) DEF Trend
    <3>2. QED
      BY <3>1 DEF Types
  <2>6. QED
    BY <2>1, <2>2, <2>3, <2>4, <2>5
<1>3. QED
  BY <1>1, <1>2

\* At first nothing is stored.
LEMMA InsightsInitially == InsightsInit => InsightsInv
<1> SUFFICES ASSUME InsightsInit PROVE InsightsInv
  OBVIOUS
<1> USE DEF InsightsInit, TableInit
<1>1. InsightsTypeOK
  BY PeriodAssumption DEF InsightsTypeOK, Nothing
<1>2. TableFacts
  <2>1. Stored = {}
    BY DEF Stored
  <2>2. NoOffer \in Offers
    BY DEF NoOffer, Offers
  <2>3. QED
    BY <2>1, <2>2, FS_EmptySet DEF TableFacts
<1>3. RuleFacts
  BY DEF RuleFacts
<1>4. ReadFacts
  BY DEF ReadFacts
<1>5. QED
  BY <1>1, <1>2, <1>3, <1>4 DEF InsightsInv

\* While the simulations come and go or time passes, the handlers stay where
\* they are, and what they read is stale from then on.
LEMMA DisturbKeeps ==
  ASSUME InsightsInv, Disturb,
         now' \in 0..MaxWeek, week' \in [Ids -> 0..now'], TableFacts'
  PROVE  InsightsInv'
<1> USE DEF Disturb, runVars, Busy
<1>1. InsightsTypeOK'
  BY PeriodAssumption DEF InsightsInv, InsightsTypeOK
<1>2. RuleFacts'
  BY DEF InsightsInv, RuleFacts
<1>3. ReadFacts'
  <2> SUFFICES ASSUME NEW h \in Runs, changes'[h] = 0
               PROVE  /\ awaits'[h] \notin {"quotes", "routes"}
                      /\ rules'[h] \union inserted'[h] = {}
    BY DEF ReadFacts
  <2>1. ~Busy(h)
    BY DEF InsightsInv, InsightsTypeOK
  <2>2. QED
    BY <2>1 DEF InsightsInv, InsightsTypeOK
<1>4. QED
  BY <1>1, <1>2, <1>3 DEF InsightsInv

\* A simulation is stored whole, with the cheapest of its quotes marked.
LEMMA SimulateKeeps ==
  ASSUME InsightsInv, NEW s \in Ids, Simulate(s)
  PROVE  InsightsInv'
<1>1. PICK route \in Routes, stored \in Offers : Store(s, route, stored)
  BY DEF Simulate
<1>2. now' \in 0..MaxWeek /\ week' \in [Ids -> 0..now']
  BY DEF InsightsInv, InsightsTypeOK, Simulate
<1>3. TableFacts'
  <2> USE DEF InsightsInv, TableFacts
  <2>1. Stored' = Stored \union {s}
    BY <1>1, TableAssumption DEF Store, Stored
  <2>2. IsFiniteSet(Stored')
    BY <2>1, FS_AddElement
  <2>3. /\ routeOf' \in [Ids -> Routes \union {"none"}] /\ quotes' \in [Ids -> Offers]
        /\ DOMAIN isCheapest' = Ids
    BY <1>1 DEF Store
  <2>4. ASSUME NEW t \in Stored'
        PROVE  Quoted(quotes'[t]) # {} /\ isCheapest'[t] = CheapestOf(quotes'[t])
    <3>1. CASE t = s
      BY <1>1, <3>1 DEF Store
    <3>2. CASE t # s
      BY <1>1, <2>1, <3>2 DEF Store, Stored
    <3>3. QED
      BY <3>1, <3>2
  <2>5. QED
    BY <2>2, <2>3, <2>4
<1>4. QED
  BY <1>2, <1>3, DisturbKeeps DEF Simulate

LEMMA DiscardKeeps ==
  ASSUME InsightsInv, NEW s \in Ids, Discard(s)
  PROVE  InsightsInv'
<1>1. Remove(s)
  BY DEF Discard
<1>2. now' \in 0..MaxWeek /\ week' \in [Ids -> 0..now']
  BY DEF InsightsInv, InsightsTypeOK, Discard
<1>3. TableFacts'
  <2> USE DEF InsightsInv, TableFacts
  <2>1. Stored' = Stored \ {s}
    BY <1>1 DEF Remove, Stored
  <2>2. IsFiniteSet(Stored')
    BY <2>1, FS_RemoveElement
  <2>3. /\ routeOf' \in [Ids -> Routes \union {"none"}] /\ quotes' \in [Ids -> Offers]
        /\ DOMAIN isCheapest' = Ids
    BY <1>1 DEF Remove, NoOffer, Offers
  <2>4. ASSUME NEW t \in Stored'
        PROVE  Quoted(quotes'[t]) # {} /\ isCheapest'[t] = CheapestOf(quotes'[t])
    BY <1>1, <2>1 DEF Remove, Stored
  <2>5. QED
    BY <2>2, <2>3, <2>4
<1>4. QED
  BY <1>2, <1>3, DisturbKeeps DEF Discard

LEMMA TickKeeps ==
  ASSUME InsightsInv, Tick
  PROVE  InsightsInv'
<1>1. now' \in 0..MaxWeek /\ week' \in [Ids -> 0..now']
  BY PeriodAssumption DEF InsightsInv, InsightsTypeOK, Tick
<1>2. TableFacts'
  BY DEF InsightsInv, TableFacts, Tick, tableVars, Stored
<1>3. QED
  BY <1>1, <1>2, DisturbKeeps DEF Tick

\* The steps of a run: what it reads is what is stored.
LEMMA GetOverviewDataKeeps ==
  ASSUME InsightsInv, NEW h \in Runs, GetOverviewData(h)
  PROVE  InsightsInv'
<1> USE DEF GetOverviewData, Await, beyondRuns, tableVars
<1>1. InsightsTypeOK'
  BY DEF InsightsInv, InsightsTypeOK
<1>2. TableFacts'
  BY DEF InsightsInv, TableFacts, Stored
<1>3. RuleFacts'
  BY DEF InsightsInv, RuleFacts
<1>4. Rows' = Rows /\ Said' = Said
  BY DEF Said, Rows, Stored
<1>5. ReadFacts'
  <2> SUFFICES ASSUME NEW i \in Runs, changes'[i] = 0
               PROVE  /\ awaits'[i] \in {"quotes", "routes"} => read'[i].sims = Rows
                      /\ awaits'[i] = "routes" => read'[i].quotes = Rows
                      /\ rules'[i] \union inserted'[i] \subseteq Said
    BY <1>4 DEF ReadFacts
  <2>1. CASE i = h
    BY <2>1 DEF InsightsInv, InsightsTypeOK, ReadFacts
  <2>2. CASE i # h
    BY <2>2 DEF InsightsInv, InsightsTypeOK, ReadFacts
  <2>3. QED
    BY <2>1, <2>2
<1>6. QED
  BY <1>1, <1>2, <1>3, <1>5 DEF InsightsInv

LEMMA GetCarrierDataKeeps ==
  ASSUME InsightsInv, NEW h \in Runs, GetCarrierData(h)
  PROVE  InsightsInv'
<1> USE DEF GetCarrierData, Await, beyondRuns, tableVars
<1>1. InsightsTypeOK'
  BY DEF InsightsInv, InsightsTypeOK
<1>2. TableFacts'
  BY DEF InsightsInv, TableFacts, Stored
<1>3. RuleFacts'
  BY DEF InsightsInv, RuleFacts
<1>4. Rows' = Rows /\ Said' = Said
  BY DEF Said, Rows, Stored
<1>5. ReadFacts'
  <2> SUFFICES ASSUME NEW i \in Runs, changes'[i] = 0
               PROVE  /\ awaits'[i] \in {"quotes", "routes"} => read'[i].sims = Rows
                      /\ awaits'[i] = "routes" => read'[i].quotes = Rows
                      /\ rules'[i] \union inserted'[i] \subseteq Said
    BY <1>4 DEF ReadFacts
  <2>1. CASE i = h
    BY <2>1 DEF InsightsInv, InsightsTypeOK, ReadFacts
  <2>2. CASE i # h
    BY <2>2 DEF InsightsInv, InsightsTypeOK, ReadFacts
  <2>3. QED
    BY <2>1, <2>2
<1>6. QED
  BY <1>1, <1>2, <1>3, <1>5 DEF InsightsInv

\* The rules are among what could be said, one of a type.
LEMMA GetRouteDataKeeps ==
  ASSUME InsightsInv, NEW h \in Runs, GetRouteData(h)
  PROVE  InsightsInv'
<1> USE DEF GetRouteData, Await, beyondRuns, tableVars
<1>0. PICK R \in Generated(read[h]) :
        rules' = [rules EXCEPT ![h] = R] /\ awaits' = [awaits EXCEPT ![h] = "insert"]
  OBVIOUS
<1>1. /\ R \subseteq Candidates(read[h])
      /\ \A rule \in R : rule.type \in Types
      /\ \A x, y \in R : x.type = y.type => x = y
  BY <1>0, GeneratedRules
<1>2. inserted[h] = {} /\ awaits[h] = "routes"
  BY DEF InsightsInv, InsightsTypeOK
<1>3. /\ DOMAIN rules = Runs /\ DOMAIN inserted = Runs /\ DOMAIN read = Runs
      /\ awaits \in [Runs -> {"sims", "quotes", "routes", "insert"}]
      /\ changes \in [Runs -> 0..MaxChanges]
      /\ now \in 0..MaxWeek /\ week \in [Ids -> 0..now]
  BY DEF InsightsInv, InsightsTypeOK, RuleFacts
<1>4. /\ rules'[h] = R /\ awaits'[h] = "insert" /\ inserted' = inserted /\ changes' = changes
      /\ read'[h] = Nothing /\ DOMAIN rules' = Runs /\ DOMAIN read' = Runs
      /\ \A i \in Runs \ {h} :
           rules'[i] = rules[i] /\ awaits'[i] = awaits[i] /\ read'[i] = read[i]
  BY <1>0, <1>3
<1>5. InsightsTypeOK'
  <2>1. DOMAIN Nothing = {"sims", "quotes"}
    BY DEF Nothing
  <2>2. awaits' \in [Runs -> {"sims", "quotes", "routes", "insert"}]
    BY <1>0, <1>3
  <2>3. ASSUME NEW i \in Runs
        PROVE  /\ awaits'[i] # "insert" => rules'[i] = {} /\ inserted'[i] = {}
               /\ DOMAIN read'[i] = {"sims", "quotes"}
               /\ \A rule \in rules'[i] \union inserted'[i] : rule.type \in Types
               /\ \A rule \in rules'[i], done \in inserted'[i] : rule.type # done.type
    <3>1. CASE i = h
      BY <1>1, <1>2, <1>4, <2>1, <3>1
    <3>2. CASE i # h
      BY <1>4, <3>2 DEF InsightsInv, InsightsTypeOK
    <3>3. QED
      BY <3>1, <3>2
  <2>4. QED
    BY <1>3, <1>4, <2>2, <2>3 DEF InsightsTypeOK
<1>6. TableFacts'
  BY DEF InsightsInv, TableFacts, Stored
<1>7. RuleFacts'
  BY <1>1, <1>3, <1>4 DEF InsightsInv, RuleFacts
<1>8. Rows' = Rows /\ Said' = Said
  BY DEF Said, Rows, Stored
<1>9. ReadFacts'
  <2> SUFFICES ASSUME NEW i \in Runs, changes'[i] = 0
               PROVE  /\ awaits'[i] \in {"quotes", "routes"} => read'[i].sims = Rows
                      /\ awaits'[i] = "routes" => read'[i].quotes = Rows
                      /\ rules'[i] \union inserted'[i] \subseteq Said
    BY <1>8 DEF ReadFacts
  <2>1. CASE i = h
    <3>1. read[h].sims = Rows /\ read[h].quotes = Rows
      BY <1>2, <1>4, <2>1 DEF InsightsInv, ReadFacts
    <3>2. Candidates(read[h]) \subseteq Said
      BY <3>1, Zenon DEF Candidates, Said
    <3>3. QED
      BY <1>1, <1>2, <1>4, <2>1, <3>2
  <2>2. CASE i # h
    BY <1>4, <2>2 DEF InsightsInv, ReadFacts
  <2>3. QED
    BY <2>1, <2>2
<1>10. QED
  BY <1>5, <1>6, <1>7, <1>9 DEF InsightsInv

\* A rule that is inserted is not to be inserted any more.
LEMMA InsertKeeps ==
  ASSUME InsightsInv, NEW h \in Runs, Insert(h)
  PROVE  InsightsInv'
<1> DEFINE rule == First(rules[h])
<1>0. /\ awaits[h] = "insert" /\ rules[h] # {}
      /\ inserted' = [inserted EXCEPT ![h] = @ \union {rule}]
      /\ rules' = [rules EXCEPT ![h] = @ \ {rule}]
      /\ UNCHANGED <<beyondRuns, awaits, read, changes>>
  BY DEF Insert
<1> USE DEF beyondRuns, tableVars
<1>1. rule \in rules[h]
  BY <1>0, FirstIsARule DEF InsightsInv, InsightsTypeOK
<1> HIDE DEF rule
<1>2. DOMAIN rules = Runs /\ DOMAIN inserted = Runs
  BY DEF InsightsInv, RuleFacts
<1>3. /\ rules'[h] = rules[h] \ {rule} /\ inserted'[h] = inserted[h] \union {rule}
      /\ \A i \in Runs \ {h} : rules'[i] = rules[i] /\ inserted'[i] = inserted[i]
  BY <1>0, <1>2
<1>4. \A x \in rules[h] : x.type = rule.type => x = rule
  BY <1>1 DEF InsightsInv, RuleFacts
<1>5. InsightsTypeOK'
  <2>1. ASSUME NEW i \in Runs
        PROVE  /\ awaits'[i] # "insert" => rules'[i] = {} /\ inserted'[i] = {}
               /\ DOMAIN read'[i] = {"sims", "quotes"}
               /\ \A x \in rules'[i] \union inserted'[i] : x.type \in Types
               /\ \A x \in rules'[i], done \in inserted'[i] : x.type # done.type
    <3>1. CASE i = h
      BY <1>0, <1>1, <1>3, <1>4, <3>1 DEF InsightsInv, InsightsTypeOK
    <3>2. CASE i # h
      BY <1>0, <1>3, <3>2 DEF InsightsInv, InsightsTypeOK
    <3>3. QED
      BY <3>1, <3>2
  <2>2. QED
    BY <1>0, <2>1 DEF InsightsInv, InsightsTypeOK
<1>6. TableFacts'
  BY <1>0 DEF InsightsInv, TableFacts, Stored
<1>7. RuleFacts'
  BY <1>0, <1>2, <1>3 DEF InsightsInv, RuleFacts
<1>8. Rows' = Rows /\ Said' = Said
  BY <1>0 DEF Said, Rows, Stored
<1>9. ReadFacts'
  <2> SUFFICES ASSUME NEW i \in Runs, changes'[i] = 0
               PROVE  /\ awaits'[i] \in {"quotes", "routes"} => read'[i].sims = Rows
                      /\ awaits'[i] = "routes" => read'[i].quotes = Rows
                      /\ rules'[i] \union inserted'[i] \subseteq Said
    BY <1>8 DEF ReadFacts
  <2>1. rules'[i] \union inserted'[i] \subseteq rules[i] \union inserted[i]
    BY <1>1, <1>3
  <2>2. QED
    BY <1>0, <2>1 DEF InsightsInv, ReadFacts
<1>10. QED
  BY <1>5, <1>6, <1>7, <1>9 DEF InsightsInv

\* A run that ends leaves nothing behind.
LEMMA ReplyKeeps ==
  ASSUME InsightsInv, NEW h \in Runs, Reply(h)
  PROVE  InsightsInv'
<1> USE DEF Reply, EndRun, Await, beyondRuns, tableVars
<1>1. /\ awaits'[h] = "sims" /\ read'[h] = Nothing /\ rules'[h] = {} /\ inserted'[h] = {}
      /\ changes'[h] = 0
      /\ \A i \in Runs \ {h} :
           /\ awaits'[i] = awaits[i] /\ read'[i] = read[i] /\ rules'[i] = rules[i]
           /\ inserted'[i] = inserted[i] /\ changes'[i] = changes[i]
      /\ DOMAIN read' = Runs /\ DOMAIN rules' = Runs /\ DOMAIN inserted' = Runs
      /\ awaits' \in [Runs -> {"sims", "quotes", "routes", "insert"}]
      /\ changes' \in [Runs -> 0..MaxChanges]
  BY PeriodAssumption DEF InsightsInv, InsightsTypeOK, RuleFacts
<1>2. InsightsTypeOK'
  <2>1. DOMAIN Nothing = {"sims", "quotes"}
    BY DEF Nothing
  <2>2. ASSUME NEW i \in Runs
        PROVE  /\ awaits'[i] # "insert" => rules'[i] = {} /\ inserted'[i] = {}
               /\ DOMAIN read'[i] = {"sims", "quotes"}
               /\ \A x \in rules'[i] \union inserted'[i] : x.type \in Types
               /\ \A x \in rules'[i], done \in inserted'[i] : x.type # done.type
    BY <1>1, <2>1 DEF InsightsInv, InsightsTypeOK
  <2>3. now' = now /\ week' = week
    OBVIOUS
  <2>4. QED
    BY <1>1, <2>2, <2>3 DEF InsightsInv, InsightsTypeOK
<1>3. TableFacts'
  BY DEF InsightsInv, TableFacts, Stored
<1>4. RuleFacts'
  BY <1>1 DEF InsightsInv, RuleFacts
<1>5. Rows' = Rows /\ Said' = Said
  BY DEF Said, Rows, Stored
<1>6. ReadFacts'
  BY <1>1, <1>5 DEF InsightsInv, ReadFacts
<1>7. QED
  BY <1>2, <1>3, <1>4, <1>6 DEF InsightsInv

\* InsightsInv is an invariant.
LEMMA InsightsInvariant == InsightsSpec => []InsightsInv
<1>1. InsightsInv /\ [InsightsNext]_insightVars => InsightsInv'
  <2> SUFFICES ASSUME InsightsInv, [InsightsNext]_insightVars PROVE InsightsInv'
    OBVIOUS
  <2>1. ASSUME NEW s \in Ids, Simulate(s) \/ Discard(s) PROVE InsightsInv'
    BY <2>1, SimulateKeeps, DiscardKeeps
  <2>2. CASE Tick
    BY <2>2, TickKeeps
  <2>3. ASSUME NEW h \in Runs, GetOverviewData(h) PROVE InsightsInv'
    BY <2>3, GetOverviewDataKeeps
  <2>4. ASSUME NEW h \in Runs, GetCarrierData(h) PROVE InsightsInv'
    BY <2>4, GetCarrierDataKeeps
  <2>5. ASSUME NEW h \in Runs, GetRouteData(h) PROVE InsightsInv'
    BY <2>5, GetRouteDataKeeps
  <2>6. ASSUME NEW h \in Runs, Insert(h) PROVE InsightsInv'
    BY <2>6, InsertKeeps
  <2>7. ASSUME NEW h \in Runs, Reply(h) PROVE InsightsInv'
    BY <2>7, ReplyKeeps
  <2>8. CASE UNCHANGED insightVars
    <3> USE <2>8 DEF insightVars, runVars, tableVars
    <3>1. InsightsTypeOK'
      BY DEF InsightsInv, InsightsTypeOK
    <3>2. TableFacts' /\ RuleFacts'
      BY DEF InsightsInv, TableFacts, RuleFacts, Stored
    <3>3. Rows' = Rows /\ Said' = Said
      BY DEF Said, Rows, Stored
    <3>4. ReadFacts'
      BY <3>3 DEF InsightsInv, ReadFacts
    <3>5. QED
      BY <3>1, <3>2, <3>4 DEF InsightsInv
  <2>9. QED
    BY <2>1, <2>2, <2>3, <2>4, <2>5, <2>6, <2>7, <2>8 DEF InsightsNext
<1>2. QED
  BY InsightsInitially, <1>1, PTL DEF InsightsSpec

-----------------------------------------------------------------------------
(* The insights and the dashboard                                          *)

\* Every variable keeps its type, and a run inserts no insight and no type of
\* insight twice (insights.service.ts 36-66).
THEOREM InsightsTypeCorrect == InsightsSpec => []InsightsTypeOK
BY InsightsInvariant, PTL DEF InsightsInv

\* What the queries return.
LEMMA RowsAreResults ==
  ASSUME InsightsInv
  PROVE  /\ IsResult(Rows) /\ DOMAIN Rows = Stored
         /\ \A s \in Stored : Rows[s].week = week[s] /\ Rows[s].week \in 0..now
<1> USE DEF InsightsInv, TableFacts
<1>1. DOMAIN Rows = Stored /\ IsFiniteSet(Stored) /\ Stored \subseteq Ids
  BY DEF Rows, Stored
<1>2. ASSUME NEW s \in Stored
      PROVE  /\ Rows[s].total = [k \in Quoted(quotes[s]) |-> quotes[s][k]]
             /\ Rows[s].cheapest = isCheapest[s] /\ Rows[s].week = week[s]
  BY DEF Rows
<1>3. ASSUME NEW s \in Stored
      PROVE  LET total == Rows[s].total
             IN /\ IsFiniteSet(DOMAIN total) /\ DOMAIN total # {}
                /\ \A k \in DOMAIN total : total[k] \in Nat
                /\ Rows[s].cheapest =
                     {k \in DOMAIN total : \A j \in DOMAIN total : total[k] <= total[j]}
  <2> DEFINE asks == quotes[s]
             asked == Quoted(asks)
             total == Rows[s].total
  <2>1. asks \in Offers /\ asked # {} /\ asked \subseteq Carriers
    BY <1>1 DEF Quoted
  <2>2. total = [k \in asked |-> asks[k]] /\ DOMAIN total = asked
    BY <1>2
  <2>3. IsFiniteSet(asked)
    BY <2>1, FiniteAssumption, FS_Subset
  <2>4. \A k \in asked : total[k] = asks[k] /\ total[k] \in Nat
    BY <2>1, <2>2, TableAssumption DEF Offers, Quoted
  <2>5. Rows[s].cheapest = {k \in asked : \A j \in asked : asks[k] <= asks[j]}
    BY <1>2 DEF CheapestOf
  <2> HIDE DEF total, asked, asks
  <2>6. Rows[s].cheapest = {k \in asked : \A j \in asked : total[k] <= total[j]}
    BY <2>4, <2>5
  <2>7. QED
    BY <2>1, <2>2, <2>3, <2>4, <2>6 DEF total
<1>4. IsResult(Rows)
  <2> DEFINE rows == Rows
  <2> HIDE DEF rows
  <2>1. QED
    BY <1>1, <1>3 DEF IsResult, rows
<1>5. QED
  BY ZenonT(30), <1>1, <1>2, <1>4 DEF InsightsTypeOK

\* The insights of a run that nothing disturbed say what the dashboard shows
\* (insights.service.ts 36-66), for every number of simulations, routes and quotes.
THEOREM TheInsightsMatchDashboard == InsightsSpec => []InsightsMatchDashboard
<1>1. InsightsInv => InsightsMatchDashboard
  <2> SUFFICES ASSUME InsightsInv, NEW h \in Runs, NEW i \in inserted[h] \union rules[h],
                      Busy(h), changes[h] = 0
               PROVE  MatchesDashboard(i)
    BY DEF InsightsMatchDashboard
  <2> DEFINE rows == Rows
             byCarrier == CarrierFigures(rows)
             byRoute == RouteFigures(rows)
  <2>1. /\ IsResult(rows) /\ DOMAIN rows = Stored
        /\ \A s \in Stored : rows[s].week = week[s] /\ rows[s].week \in 0..now
    BY RowsAreResults
  <2>2. i \in Economy(rows) \union Carrier(rows) \union Concentration(rows)
                \union Trend(rows, now, Period)
    BY DEF InsightsInv, ReadFacts, Said
  <2>3. Economy(rows) = {}
    <3> HIDE DEF rows
    <3>1. QED
      BY <2>1, NoEconomy
  <2>4. CASE i \in Carrier(rows)
    <3> HIDE DEF rows
    <3>1. /\ i.type = "carrier" /\ i.about \in CarriersIn(rows)
          /\ i.figure \in Nat /\ i.per \in Nat \ {0}
          /\ RoundDiv(i.figure, i.per) = Mean(rows, QuotesBy(rows, i.about))
          /\ \A k \in CarriersIn(rows) :
               Mean(rows, QuotesBy(rows, i.about)) <= Mean(rows, QuotesBy(rows, k))
      BY <2>1, <2>4, CarrierIsCheapest
    <3>2. /\ DOMAIN byCarrier = CarriersIn(rows)
          /\ \A k \in CarriersIn(rows) : byCarrier[k].avgCost = Mean(rows, QuotesBy(rows, k))
      BY DEF CarrierFigures
    <3> DEFINE shown == byCarrier[i.about].avgCost
    <3>3. shown = RoundDiv(i.figure, i.per) /\ \A k \in DOMAIN byCarrier : shown <= byCarrier[k].avgCost
      BY <3>1, <3>2
    <3>4. shown - 50 <= 100 * InReais(i) /\ 100 * InReais(i) <= shown + 50
      <4> HIDE DEF shown
      <4>1. QED
        BY <3>1, <3>3, ReaisAreClose DEF InReais
    <3>5. QED
      BY <3>1, <3>3, <3>4 DEF MatchesDashboard, rows
  <2>5. CASE i \in Concentration(rows)
    <3> HIDE DEF rows
    <3>1. /\ i.type = "concentration" /\ i.about \in RoutesIn(rows)
          /\ \A r \in RoutesIn(rows) :
               Cardinality(OnRoute(rows, r)) <= Cardinality(OnRoute(rows, i.about))
          /\ (2 * i.figure + 1) * Cardinality(RoutesIn(rows)) >= 200
      BY <2>1, <2>5, ConcentrationIsFrequent
    <3>2. /\ DOMAIN byRoute = RoutesIn(rows)
          /\ \A r \in RoutesIn(rows) : byRoute[r].count = Cardinality(OnRoute(rows, r))
      BY DEF RouteFigures
    <3>3. QED
      BY <3>1, <3>2 DEF MatchesDashboard, rows
  <2>6. CASE i \in Trend(rows, now, Period)
    <3> DEFINE all == QuotesIn(rows)
               old == {q \in all : week[q[1]] < now - Period}
               past == Before(rows, now - Period)
    <3>1. old = past
      <4>1. \A q \in all : rows[q[1]].week = week[q[1]]
        <5> HIDE DEF rows
        <5>1. QED
          BY <2>1, QuotesAre
      <4>2. QED
        BY <4>1 DEF Before
    <3>2. now \in Nat /\ Period \in Nat /\ Dated(rows, now)
      BY <2>1, PeriodAssumption DEF InsightsInv, InsightsTypeOK, Dated
    <3>3. /\ i.type = "trend" /\ past # {} /\ all \ past # {}
          /\ IF i.about = "caiu"
               THEN i.figure < 0 /\ Min(Asked(rows, all \ past)) < Max(Asked(rows, past))
               ELSE i.figure > 0 /\ Max(Asked(rows, all \ past)) > Min(Asked(rows, past))
      <4> HIDE DEF rows
      <4>1. QED
        BY SMTT(30), <2>1, <2>6, <3>2, TrendIsReal
    <3> HIDE DEF past
    <3>4. QED
      BY <3>1, <3>3 DEF MatchesDashboard
  <2>7. QED
    BY <2>2, <2>3, <2>4, <2>5, <2>6
<1>2. QED
  BY <1>1, InsightsInvariant, PTL

\* The first query: whether there are simulations or not, the figures it returns
\* are in order.
LEMMA OverviewAgrees ==
  ASSUME NEW rows, IsResult(rows)
  PROVE  LET o == Overview(rows)
         IN /\ o.potentialSavings = 0
            /\ DOMAIN rows # {} => o.minFreight = Min(Asked(rows, QuotesIn(rows)))
            /\ o.minFreight <= o.avgFreight /\ o.avgFreight <= o.maxFreight
            /\ \A s \in DOMAIN rows :
                 LET weekly == WeeklyCost(rows, rows[s].week)
                 IN o.minFreight <= weekly /\ weekly <= o.maxFreight
            /\ o.carriersUsed = Cardinality(CarriersIn(rows))
            /\ o.totalSimulations = Cardinality(DOMAIN rows)
            /\ DOMAIN rows # {} => o.minFreight \in Nat /\ NoneBelow(rows, o.minFreight)
<1> DEFINE shown == MarkedIn(rows)
           o == Overview(rows)
           lo == Min(Asked(rows, shown))
           hi == Max(Asked(rows, shown))
           avg == Mean(rows, shown)
<1>1. /\ shown \in SUBSET QuotesIn(rows)
      /\ (IF MarkedIn(rows) # {} THEN MarkedIn(rows) ELSE QuotesIn(rows)) = shown
      /\ (DOMAIN rows # {} <=> shown # {})
  BY ShownIsMarked
<1>2. /\ o.avgFreight = avg
      /\ o.minFreight = IF shown = {} THEN 0 ELSE lo
      /\ o.maxFreight = IF shown = {} THEN 0 ELSE hi
      /\ o.potentialSavings = PotentialSavings(rows)
      /\ o.carriersUsed = Cardinality(CarriersIn(rows))
      /\ o.totalSimulations = Cardinality(DOMAIN rows)
  BY <1>1 DEF Overview
<1>3. PotentialSavings(rows) = 0
  BY NothingToSave
<1> HIDE DEF o
<1>4. CASE DOMAIN rows = {}
  <2>1. avg = 0
    BY <1>1, <1>4 DEF Mean
  <2>2. o.minFreight = 0 /\ o.maxFreight = 0 /\ o.avgFreight = 0
    BY <1>1, <1>2, <1>4, <2>1
  <2>3. QED
    BY <1>2, <1>3, <1>4, <2>2 DEF o
<1>5. CASE DOMAIN rows # {}
  <2>1. shown # {} /\ shown \in SUBSET QuotesIn(rows)
    BY <1>1, <1>5
  <2>2. /\ lo \in Nat /\ hi \in Nat
        /\ \A q \in shown : lo <= rows[q[1]].total[q[2]] /\ rows[q[1]].total[q[2]] <= hi
    <3> HIDE DEF shown
    <3>1. QED
      BY <2>1, AskedBetween
  <2>3. lo = Min(Asked(rows, QuotesIn(rows))) /\ NoneBelow(rows, lo)
    BY <1>5, LeastIsMarked DEF NoneBelow
  <2>4. lo <= avg /\ avg <= hi
    <3> HIDE DEF shown, lo, hi
    <3>1. QED
      BY <2>1, <2>2, MeanBetween
  <2>5. ASSUME NEW s \in DOMAIN rows
        PROVE  lo <= WeeklyCost(rows, rows[s].week) /\ WeeklyCost(rows, rows[s].week) <= hi
    <3> DEFINE W == {q \in MarkedIn(rows) : rows[q[1]].week = rows[s].week}
    <3>1. PICK k \in rows[s].cheapest : <<s, k>> \in MarkedIn(rows)
      BY <2>5, CheapestMarked
    <3>2. <<s, k>> \in W
      BY <3>1
    <3>3. W \subseteq shown
      OBVIOUS
    <3> HIDE DEF W, shown, lo, hi
    <3>4. W \in SUBSET QuotesIn(rows) /\ W # {}
      BY <2>1, <3>2, <3>3
    <3>5. /\ \A q \in W : lo <= rows[q[1]].total[q[2]]
          /\ \A q \in W : rows[q[1]].total[q[2]] <= hi
      BY <2>2, <3>3
    <3>6. lo <= Mean(rows, W) /\ Mean(rows, W) <= hi
      BY <2>2, <3>4, <3>5, MeanBetween
    <3>7. QED
      BY <3>6 DEF WeeklyCost, W
  <2>6. o.minFreight = lo /\ o.maxFreight = hi
    BY <1>2, <2>1
  <2> HIDE DEF lo, hi, avg, shown
  <2>7. /\ o.minFreight <= o.avgFreight /\ o.avgFreight <= o.maxFreight
        /\ o.minFreight \in Nat /\ NoneBelow(rows, o.minFreight)
        /\ o.minFreight = Min(Asked(rows, QuotesIn(rows)))
    BY <1>2, <2>2, <2>3, <2>4, <2>6
  <2>8. QED
    BY <1>2, <1>3, <2>5, <2>6, <2>7, Zenon DEF o
<1>6. QED
  BY <1>4, <1>5

\* The figures that the dashboard computes by three queries in different ways say
\* the same of the same simulations (dashboard.service.ts 38-193), for every
\* number of simulations and quotes and whatever the carriers ask.
THEOREM TheFiguresAgree == InsightsSpec => []FiguresAgree
<1>1. InsightsInv => FiguresAgree
  <2> SUFFICES ASSUME InsightsInv PROVE FiguresAgree
    OBVIOUS
  <2> DEFINE rows == Rows
             all == QuotesIn(rows)
             o == Overview(rows)
             byCarrier == CarrierFigures(rows)
             byRoute == RouteFigures(rows)
  <2>1. IsResult(rows) /\ DOMAIN rows = Stored /\ \A s \in Stored : rows[s].week = week[s]
    BY RowsAreResults
  <2> HIDE DEF rows
  <2>2. /\ o.potentialSavings = 0
        /\ DOMAIN rows # {} => o.minFreight = Min(Asked(rows, all))
        /\ o.minFreight <= o.avgFreight /\ o.avgFreight <= o.maxFreight
        /\ \A s \in DOMAIN rows :
             LET weekly == WeeklyCost(rows, rows[s].week)
             IN o.minFreight <= weekly /\ weekly <= o.maxFreight
        /\ o.carriersUsed = Cardinality(CarriersIn(rows))
        /\ o.totalSimulations = Cardinality(DOMAIN rows)
        /\ DOMAIN rows # {} => o.minFreight \in Nat /\ NoneBelow(rows, o.minFreight)
    BY <2>1, OverviewAgrees
  <2>3. /\ DOMAIN byCarrier = CarriersIn(rows)
        /\ \A k \in CarriersIn(rows) :
             /\ byCarrier[k].avgCost = Mean(rows, QuotesBy(rows, k))
             /\ byCarrier[k].totalCost = SumOf(rows, QuotesBy(rows, k))
             /\ byCarrier[k].simulationCount = Cardinality(QuotesBy(rows, k))
    BY DEF CarrierFigures
  <2>4. /\ DOMAIN byRoute = RoutesIn(rows)
        /\ \A r \in RoutesIn(rows) :
             /\ byRoute[r].count = Cardinality(OnRoute(rows, r))
             /\ byRoute[r].avgCost =
                  RoundDiv(SumOfAverages(rows, OnRoute(rows, r)), Fractions(rows))
    BY DEF RouteFigures
  <2> HIDE DEF o, byCarrier, byRoute
  <2>5. SumFunction([r \in DOMAIN byRoute |-> byRoute[r].count]) = o.totalSimulations
    <3> DEFINE f == [r \in DOMAIN byRoute |-> byRoute[r].count]
    <3>1. f = [r \in RoutesIn(rows) |-> Cardinality(OnRoute(rows, r))]
      BY <2>4
    <3>2. Sum(f, RoutesIn(rows)) = Cardinality(DOMAIN rows)
      BY <2>1, <3>1, RoutesAddUp
    <3>3. DOMAIN f = RoutesIn(rows)
      BY <2>4
    <3> HIDE DEF f
    <3>4. SumFunction(f) = Sum(f, RoutesIn(rows))
      BY ONLY <3>3, Zenon DEF SumFunction, Sum
    <3>5. QED
      BY <2>2, <3>2, <3>4 DEF f
  <2>6. /\ SumFunction([k \in DOMAIN byCarrier |-> byCarrier[k].simulationCount])
             = Cardinality(all)
        /\ SumFunction([k \in DOMAIN byCarrier |-> byCarrier[k].totalCost]) = SumOf(rows, all)
    <3> DEFINE C == CarriersIn(rows)
               f == [k \in DOMAIN byCarrier |-> byCarrier[k].simulationCount]
               g == [k \in DOMAIN byCarrier |-> byCarrier[k].totalCost]
    <3>1. /\ f = [k \in C |-> Cardinality(QuotesBy(rows, k))]
          /\ g = [k \in C |-> SumOf(rows, QuotesBy(rows, k))]
      BY <2>3
    <3>2. /\ Sum([k \in C |-> Cardinality(QuotesBy(rows, k))], C) = Cardinality(all)
          /\ Sum([k \in C |-> SumOf(rows, QuotesBy(rows, k))], C) = SumOf(rows, all)
      BY <2>1, CarriersAddUp
    <3>3. DOMAIN f = C /\ DOMAIN g = C
      BY <2>3
    <3> HIDE DEF f, g, C
    <3>4. SumFunction(f) = Sum(f, C) /\ SumFunction(g) = Sum(g, C)
      BY ONLY <3>3, Zenon DEF SumFunction, Sum
    <3>5. QED
      BY <3>1, <3>2, <3>4 DEF f, g
  <2>7. ASSUME NEW k \in DOMAIN byCarrier
        PROVE  /\ o.minFreight <= byCarrier[k].avgCost
               /\ byCarrier[k].avgCost <= Max(Asked(rows, QuotesBy(rows, k)))
    <3> DEFINE Q == QuotesBy(rows, k)
               hi == Max(Asked(rows, Q))
    <3>1. k \in CarriersIn(rows) /\ byCarrier[k].avgCost = Mean(rows, Q)
      BY <2>3, <2>7
    <3>2. Q \in SUBSET all /\ Q # {} /\ DOMAIN rows # {}
      BY <3>1, QuotesAre DEF QuotesBy, CarriersIn
    <3>3. o.minFreight \in Nat /\ \A q \in Q : o.minFreight <= rows[q[1]].total[q[2]]
      BY <2>2, <3>2 DEF NoneBelow
    <3>4. hi \in Nat /\ \A q \in Q : rows[q[1]].total[q[2]] <= hi
      <4> HIDE DEF Q
      <4>1. QED
        BY <2>1, <3>2, AskedBetween
    <3> HIDE DEF Q, hi
    <3>5. o.minFreight <= Mean(rows, Q)
      BY <2>1, <3>2, <3>3, MeanBetween
    <3>6. Mean(rows, Q) <= hi
      BY <2>1, <3>2, <3>4, MeanBetween
    <3>7. QED
      BY <3>1, <3>5, <3>6 DEF hi, Q
  <2>8. ASSUME NEW r \in DOMAIN byRoute
        PROVE  byRoute[r].avgCost >= byRoute[r].count * o.minFreight
    <3>1. /\ r \in RoutesIn(rows) /\ byRoute[r].count = Cardinality(OnRoute(rows, r))
          /\ byRoute[r].avgCost =
               RoundDiv(SumOfAverages(rows, OnRoute(rows, r)), Fractions(rows))
      BY <2>4, <2>8
    <3>2. DOMAIN rows # {}
      BY <3>1 DEF RoutesIn
    <3>3. o.minFreight \in Nat /\ NoneBelow(rows, o.minFreight)
      BY <2>2, <3>2
    <3>4. Cardinality(OnRoute(rows, r)) * o.minFreight
            <= RoundDiv(SumOfAverages(rows, OnRoute(rows, r)), Fractions(rows))
      BY <2>1, <3>1, <3>3, RouteAverages
    <3>5. QED
      BY <3>1, <3>4
  <2>9. /\ Stored # {} => o.minFreight = Min(Asked(rows, all))
        /\ \A s \in Stored :
             LET weekly == WeeklyCost(rows, week[s])
             IN o.minFreight <= weekly /\ weekly <= o.maxFreight
        /\ o.carriersUsed = Cardinality(DOMAIN byCarrier)
    BY <2>1, <2>2, <2>3
  <2>10. QED
    BY <2>2, <2>5, <2>6, <2>7, <2>8, <2>9, Zenon
       DEF FiguresAgree, rows, o, byCarrier, byRoute
<1>2. QED
  BY <1>1, InsightsInvariant, PTL
=============================================================================
