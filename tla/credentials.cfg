SPECIFICATION Spec
CONSTANTS
  h1 = h1
  h2 = h2
  h3 = h3
  Handlers = {h1, h2, h3}
  Keys = {"old", "new"}
  MaxSecrets = 3
  MaxPasswords = 2
  MaxRestarts = 1
SYMMETRY Symmetry
INVARIANT TypeOK
PROPERTY OnlyStaleLocksOut
PROPERTY FactorIsKept
CHECK_DEADLOCK FALSE
