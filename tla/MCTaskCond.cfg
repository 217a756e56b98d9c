CONSTANTS
  a = a
  b = b
  c = c
  Svc <- MCSvc
  Type <- MCType
  RL <- MCRLTask
  HasCond <- MCHasCondTask
  SigHup <- MCSigHup
  Missing = {}
  Levels <- MCLevels
  CfgLevel = 2
  CmdLevel = 0
  RESPAWN_MAX = 1
  BootTimeout = 1
  ForkCanFail = FALSE
  CounterCap = 2
SPECIFICATION Spec
INVARIANTS
  NoGroupKill
