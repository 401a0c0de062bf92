SPECIFICATION Spec
CONSTANTS
  h1 = h1
  h2 = h2
  s1 = s1
  s2 = s2
  k1 = k1
  k2 = k2
  Handlers = {h1, h2}
  Ids = {s1, s2}
  Carriers = {k1, k2}
  Routes = {"SP-CWB"}
  Customers = {"customer"}
  Terms <- MCTerms
  Cargos <- MCCargos
  Cost <- MCCost
  Costs <- MCCosts
PROPERTY ImplementsTable
PROPERTY CustomersGoUnused
SYMMETRY Symmetry
CHECK_DEADLOCK FALSE
