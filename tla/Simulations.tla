----------------------------- MODULE Simulations -----------------------------
(***************************************************************************)
(* The freight simulations of a tenant beside the customers and carriers   *)
(* that they refer to.  Handlers create and remove simulations, change and *)
(* remove carriers and remove customers; each await is an action.  The     *)
(* database alone keeps them consistent: the two writes of create are one  *)
(* transaction, and foreign keys refuse rows that refer to nothing.        *)
(***************************************************************************)
EXTENDS SimulationTable

CONSTANTS
  Customers, Handlers,
  Terms, Cargos,      \* the prices of a carrier, the cargo of a request
  Cost(_, _, _)       \* what a carrier with these terms asks (see Freight)

ASSUME CostAssumption ==
  \A t \in Terms, g \in Cargos, route \in Routes : Cost(t, g, route) \in Costs

ASSUME NobodyAssumption ==
  "nobody" \notin Customers \union Carriers \union Ids

VARIABLES
  customers,          \* those that are in the database
  carriers,           \* likewise
  terms, active,      \* the terms of each carrier; the active ones
  used, customerId,   \* the ids of simulations given out; whom each is for
  phase,              \* the call each handler awaits next
  client, hauler, subject,  \* the customer, carrier or simulation it is about
  place, offer,       \* the route and the quotes it has computed
  known               \* history: the simulations when it looked for some

simVars == <<tableVars, used, customerId>>
carrierVars == <<carriers, terms, active>>
handlerVars == <<phase, client, hauler, subject, place, offer, known>>
vars == <<simVars, customers, carrierVars, handlerVars>>

-----------------------------------------------------------------------------
Phases ==
  {"idle", "carriers", "store", "log", "answer", "delete simulation",
   "look", "delete customer", "selections", "delete carrier", "update carrier"}

TypeOK ==
  /\ routeOf \in [Ids -> Routes \union {"none"}]
  /\ quotes \in [Ids -> Offers]
  /\ isCheapest \in [Ids -> SUBSET Carriers]
  /\ customers \subseteq Customers
  /\ carriers \subseteq Carriers /\ active \subseteq carriers
  /\ terms \in [Carriers -> Terms]
  /\ used \subseteq Ids /\ Stored \subseteq used
  /\ customerId \in [Ids -> Customers \union {"nobody"}]
  /\ phase \in [Handlers -> Phases]
  /\ client \in [Handlers -> Customers \union {"nobody"}]
  /\ hauler \in [Handlers -> Carriers \union {"nobody"}]
  /\ subject \in [Handlers -> Ids \union {"nobody"}]
  /\ place \in [Handlers -> Routes \union {"none"}]
  /\ offer \in [Handlers -> Offers]
  /\ known \in [Handlers -> SUBSET used]
  /\ \A h \in Handlers :
       /\ phase[h] = "store" => Quoted(offer[h]) # {} /\ place[h] \in Routes
       /\ phase[h] = "delete simulation" => subject[h] \in Ids
       /\ phase[h] \in {"selections", "delete carrier", "update carrier"} =>
            hauler[h] \in Carriers
       /\ phase[h] \in {"look", "delete customer"} => client[h] \in Customers

\* Some customers and carriers, active or not, and no simulation.
Init ==
  /\ TableInit
  /\ customers = Customers /\ carriers = Carriers
  /\ terms \in [Carriers -> Terms]
  /\ active \in SUBSET carriers
  /\ used = {} /\ customerId = [s \in Ids |-> "nobody"]
  /\ phase = [h \in Handlers |-> "idle"]
  /\ client = [h \in Handlers |-> "nobody"]
  /\ hauler = [h \in Handlers |-> "nobody"]
  /\ subject = [h \in Handlers |-> "nobody"]
  /\ place = [h \in Handlers |-> "none"]
  /\ offer = [h \in Handlers |-> NoOffer]
  /\ known = [h \in Handlers |-> {}]

Goto(h, p) == phase' = [phase EXCEPT ![h] = p]

\* The handler has answered, be it with an error.
Finish(h) ==
  /\ Goto(h, "idle")
  /\ client' = [client EXCEPT ![h] = "nobody"]
  /\ hauler' = [hauler EXCEPT ![h] = "nobody"]
  /\ subject' = [subject EXCEPT ![h] = "nobody"]
  /\ place' = [place EXCEPT ![h] = "none"]
  /\ offer' = [offer EXCEPT ![h] = NoOffer]
  /\ known' = [known EXCEPT ![h] = {}]

-----------------------------------------------------------------------------
(* SimulationsService.create                                               *)

\* The customer, if one is named, is looked up in the tenant.
AskCreate(h, c) ==
  /\ phase[h] = "idle"
  /\ c \in customers \union {"nobody"}
  /\ Goto(h, "carriers")
  /\ client' = [client EXCEPT ![h] = c]
  /\ UNCHANGED <<simVars, customers, carrierVars, hauler, subject, place, offer,
                 known>>

OfferOf(route, cargo) ==
  [k \in Carriers |->
     IF k \in active THEN Cost(terms[k], cargo, route) ELSE NoQuote]

\* The active carriers are read at once, and their quotes computed.
FindCarriers(h, route, cargo) ==
  /\ phase[h] = "carriers" /\ active # {}
  /\ place' = [place EXCEPT ![h] = route]
  /\ offer' = [offer EXCEPT ![h] = OfferOf(route, cargo)]
  /\ Goto(h, "store")
  /\ UNCHANGED <<simVars, customers, carrierVars, client, hauler, subject, known>>

NoCarriers(h) ==
  /\ phase[h] = "carriers" /\ active = {}
  /\ Finish(h)
  /\ UNCHANGED <<simVars, customers, carrierVars>>

\* minTotal, and the quotes that ask it.
Marked(q) ==
  LET asked == {q[k] : k \in Quoted(q)}
      minTotal == CHOOSE a \in asked : \A b \in asked : a <= b
  IN {k \in Quoted(q) : q[k] = minTotal}

\* The foreign keys of the simulation and of its quotes.
References(h) ==
  client[h] \in customers \union {"nobody"} /\ Quoted(offer[h]) \subseteq carriers

\* The transaction: the simulation with all its quotes.
StoreSimulation(h, s) ==
  /\ phase[h] = "store" /\ References(h)
  /\ s \notin used
  /\ used' = used \union {s}
  /\ routeOf' = [routeOf EXCEPT ![s] = place[h]]
  /\ quotes' = [quotes EXCEPT ![s] = offer[h]]
  /\ isCheapest' = [isCheapest EXCEPT ![s] = Marked(offer[h])]
  /\ customerId' = [customerId EXCEPT ![s] = client[h]]
  /\ subject' = [subject EXCEPT ![h] = s]
  /\ place' = [place EXCEPT ![h] = "none"]
  /\ offer' = [offer EXCEPT ![h] = NoOffer]
  /\ client' = [client EXCEPT ![h] = "nobody"]
  /\ Goto(h, "log")
  /\ UNCHANGED <<customers, carrierVars, hauler, known>>

\* The audit entry; then create reads what it has stored, for its answer.
Log(h) ==
  /\ phase[h] = "log"
  /\ IF subject[h] # "nobody" THEN Goto(h, "answer") ELSE Goto(h, "idle")
  /\ UNCHANGED <<simVars, customers, carrierVars, client, hauler, subject, place,
                 offer, known>>

Answer(h) ==
  /\ phase[h] = "answer"
  /\ Finish(h)
  /\ UNCHANGED <<simVars, customers, carrierVars>>

\* A call is rejected: by a foreign key, since a row to change is no longer
\* there, or by a failure; or the handler refuses.  A transaction leaves
\* nothing behind.
Rejected(h) ==
  /\ phase[h] # "idle"
  /\ Finish(h)
  /\ UNCHANGED <<simVars, customers, carrierVars>>

-----------------------------------------------------------------------------
(* Removals and changes                                                    *)

AskRemove(h, s) ==
  /\ phase[h] = "idle" /\ s \in Stored
  /\ subject' = [subject EXCEPT ![h] = s]
  /\ Goto(h, "delete simulation")
  /\ UNCHANGED <<simVars, customers, carrierVars, client, hauler, place, offer,
                 known>>

\* The quotes go with their simulation.
DeleteSimulation(h) ==
  LET s == subject[h] IN
  /\ phase[h] = "delete simulation" /\ s \in Stored
  /\ Remove(s)
  /\ customerId' = [customerId EXCEPT ![s] = "nobody"]
  /\ Finish(h)
  /\ UNCHANGED <<used, customers, carrierVars>>

AskRemoveCustomer(h, c) ==
  /\ phase[h] = "idle" /\ c \in customers
  /\ client' = [client EXCEPT ![h] = c]
  /\ Goto(h, "look")
  /\ UNCHANGED <<simVars, customers, carrierVars, hauler, subject, place, offer,
                 known>>

\* Seeded defect: nobody looks.
HasNoSimulations(c) == FALSE

HasSimulations(c) == \E s \in Stored : customerId[s] = c

LookForSimulations(h) ==
  /\ phase[h] = "look" /\ ~HasSimulations(client[h])
  /\ known' = [known EXCEPT ![h] = Stored]
  /\ Goto(h, "delete customer")
  /\ UNCHANGED <<simVars, customers, carrierVars, client, hauler, subject, place,
                 offer>>

\* A simulation that was created in the meantime stays, for nobody.
DeleteCustomer(h) ==
  LET c == client[h] IN
  /\ phase[h] = "delete customer" /\ c \in customers
  /\ customers' = customers \ {c}
  /\ customerId' = [s \in Ids |->
                      IF customerId[s] = c THEN "nobody" ELSE customerId[s]]
  /\ Goto(h, "log")
  /\ client' = [client EXCEPT ![h] = "nobody"]
  /\ known' = [known EXCEPT ![h] = {}]
  /\ UNCHANGED <<tableVars, used, carrierVars, hauler, subject, place, offer>>

AskCarrier(h, k, p) ==
  /\ phase[h] = "idle" /\ k \in carriers
  /\ hauler' = [hauler EXCEPT ![h] = k]
  /\ Goto(h, p)
  /\ UNCHANGED <<simVars, customers, carrierVars, client, subject, place, offer,
                 known>>

\* remove looks for simulations with this selectedCarrierId.  No operation
\* selects a carrier, only the seed data have some that were selected
\* (prisma/seed.ts 227); that such a one is refused is Rejected.
LookForSelections(h) ==
  /\ phase[h] = "selections"
  /\ Goto(h, "delete carrier")
  /\ UNCHANGED <<simVars, customers, carrierVars, client, hauler, subject, place,
                 offer, known>>

\* Seeded defect: the quotes of a carrier go with it.
DeletesQuotes(h) ==
  LET k == hauler[h] IN
  /\ phase[h] = "delete carrier" /\ k \in carriers
  /\ carriers' = carriers \ {k} /\ active' = active \ {k}
  /\ quotes' = [s \in Ids |-> [quotes[s] EXCEPT ![k] = NoQuote]]
  /\ isCheapest' = [s \in Ids |-> isCheapest[s] \ {k}]
  /\ Goto(h, "log")
  /\ hauler' = [hauler EXCEPT ![h] = "nobody"]
  /\ UNCHANGED <<routeOf, used, customerId, customers, terms, client, subject, place, offer,
                 known>>

\* A carrier that some quote refers to cannot be deleted.
DeleteCarrier(h) ==
  LET k == hauler[h] IN
  /\ phase[h] = "delete carrier" /\ k \in carriers
  /\ \A s \in Stored : k \notin Quoted(quotes[s])
  /\ carriers' = carriers \ {k} /\ active' = active \ {k}
  /\ Goto(h, "log")
  /\ hauler' = [hauler EXCEPT ![h] = "nobody"]
  /\ UNCHANGED <<simVars, customers, terms, client, subject, place, offer, known>>

UpdateCarrier(h, t, on) ==
  LET k == hauler[h] IN
  /\ phase[h] = "update carrier" /\ k \in carriers
  /\ terms' = [terms EXCEPT ![k] = t]
  /\ active' = IF on THEN active \union {k} ELSE active \ {k}
  /\ Goto(h, "log")
  /\ hauler' = [hauler EXCEPT ![h] = "nobody"]
  /\ UNCHANGED <<simVars, customers, carriers, client, subject, place, offer, known>>

-----------------------------------------------------------------------------
Creating(h) ==
  \/ \E c \in Customers \union {"nobody"} : AskCreate(h, c)
  \/ \E route \in Routes, cargo \in Cargos : FindCarriers(h, route, cargo)
  \/ NoCarriers(h)
  \/ \E s \in Ids : StoreSimulation(h, s)
  \/ Answer(h)

Removing(h) ==
  \/ \E s \in Ids : AskRemove(h, s)
  \/ DeleteSimulation(h)
  \/ \E c \in Customers : AskRemoveCustomer(h, c)
  \/ LookForSimulations(h)
  \/ DeleteCustomer(h)
  \/ LookForSelections(h)
  \/ DeleteCarrier(h)

Changing(h) ==
  \/ \E k \in Carriers, p \in {"selections", "update carrier"} : AskCarrier(h, k, p)
  \/ \E t \in Terms, on \in BOOLEAN : UpdateCarrier(h, t, on)

Next ==
  \E h \in Handlers :
    Creating(h) \/ Removing(h) \/ Changing(h) \/ Log(h) \/ Rejected(h)

Spec == Init /\ [][Next]_vars

-----------------------------------------------------------------------------
(* Correctness                                                             *)

Table == INSTANCE SimulationTable

\* simulations.service.ts:86-118, schema.prisma FreightSimulation and
\* SimulationQuote: whatever carriers are changed or removed, by whom and when,
\* the simulations implement the table of SimulationTable: each appears whole
\* with the cheapest of its quotes marked, and keeps them until it is removed.
ImplementsTable == Table!TableSpec

\* customers.service.ts:167-177: a customer is only deleted if each of its
\* simulations was created after the handler had looked for some.
CustomersGoUnused ==
  [][\A h \in Handlers :
       DeleteCustomer(h) => \A s \in known[h] : customerId[s] # client[h]]_vars
=============================================================================
