SPECIFICATION Spec
CONSTANTS
  t1 = t1
  j1 = j1
  j2 = j2
  a = a
  b = b
  n1 = n1
  n2 = n2
  Tenants = {t1}
  Jobs = {j1, j2}
  Requests = {}
  Ops = {}
  KeyedBy = "document"
  Names = {a, b}
  Numbers = {n1, n2}
  NoNumber = NoNumber
  Forms = {"digits"}
  BlankRows = FALSE
  MaxRows = 2
  MaxRuns = 2
  Concurrency = 1
SYMMETRY Symmetry
PROPERTY ReimportChangesNothing
PROPERTY LastRowWins
CHECK_DEADLOCK FALSE
