SPECIFICATION Spec
CONSTANTS
  h1 = h1
  h2 = h2
  google = google
  github = github
  form = form
  Handlers = {h1, h2}
  Profiles = {google, github}
  Emails = {"ana", "rui"}
  EmailOf <- MCEmailOf
  Form = form
  NoEmail = NoEmail
  Attempts = 2
  MaxStates = 2
  MaxUsers = 2
  MaxFaults = 2
SYMMETRY Symmetry
INVARIANT TypeOK
INVARIANT StateIsSpent
INVARIANT OwnerlessHasCause
PROPERTY ProfilesFindTheirUser
CHECK_DEADLOCK FALSE
