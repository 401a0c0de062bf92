SPECIFICATION Spec
CONSTANTS
  left = left
  right = right
  Tabs = {left, right}
  Calls = {"c1", "c2", "c3"}
  TabOf <- MCTabOf
  MaxTokens = 3
  MaxFaults = 1
INVARIANT OneTokenPerLogin
INVARIANT JarIsUsable
INVARIANT NobodyIsForgotten
PROPERTY ExpiredForCause
PROPERTY LogoutEnds
CHECK_DEADLOCK FALSE
