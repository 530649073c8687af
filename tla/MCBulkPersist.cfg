CONSTANTS
  Sessions = {s1, s2}
  Tables = {"namespace", "feature", "layer_feature"}
  Keys <- MCKeys
SPECIFICATION Spec
INVARIANT NoDeadlock
CHECK_DEADLOCK FALSE
