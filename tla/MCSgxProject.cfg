CONSTANTS
  Own <- MCOwn
  Mitigation = {"NONE", "LOAD"}
  Env <- MCEnv
  Profile = {"debug", "release"}
  MaxCommand = 3
  MaxEdit = 1
SPECIFICATION Spec
INVARIANT NewCompletes
INVARIANT SoIsFresh
CHECK_DEADLOCK FALSE
