SPECIFICATION InsightsSpec
CONSTANTS
  s1 = s1
  s2 = s2
  Ids = {s1, s2}
  Routes = {"SP-CWB", "SP-REC"}
  Carriers = {"k1", "k2"}
  Costs = {50, 51}
  Period = 1
  MaxWeek = 3
  MaxChanges = 1
  Runs = {"h1"}
INVARIANT InsightsTypeOK
INVARIANT FiguresAgree
INVARIANT InsightsMatchDashboard
CHECK_DEADLOCK FALSE
