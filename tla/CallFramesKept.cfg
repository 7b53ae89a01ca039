SPECIFICATION Spec
CONSTANTS
  NF = 3
  Params <- MCParams
  EnvCells <- MCEnvCells
  Captures <- MCCaptures
  Encl <- MCEncl
  NPoints = 1
  Numbers <- MCNone
  VStackUnits = 3
  CallWords = 10
  ArenaUnits = 5
  MaxFails = 1
INVARIANTS TypeOK FramesNest NullIsCounted
PROPERTIES LimitsOnly ImplementsActivations
CHECK_DEADLOCK FALSE
