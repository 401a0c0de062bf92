SPECIFICATION Spec
CONSTANTS
  t1 = t1
  t2 = t2
  j1 = j1
  q1 = q1
  q2 = q2
  a = a
  b = b
  n1 = n1
  Tenants = {t1, t2}
  Jobs = {j1}
  Requests = {q1, q2}
  Ops = {"create", "update", "remove"}
  KeyedBy = "document"
  Names = {a, b}
  Numbers = {n1}
  NoNumber = NoNumber
  Forms = {"digits", "padded"}
  BlankRows = TRUE
  MaxRows = 2
  MaxRuns = 2
  Concurrency = 2
SYMMETRY Symmetry
INVARIANT JobNeverDuplicates
PROPERTY TenantsApart
CHECK_DEADLOCK FALSE
