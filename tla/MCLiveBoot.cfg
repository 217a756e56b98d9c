CONSTANTS
  a = a
  b = b
  c = c
  Svc <- MCSvcLive
  Type <- MCTypeLive
  RL <- MCRLBoot
  HasCond = {}
  SigHup <- MCSigHup
  Missing = {}
  Levels <- MCLevels
  CfgLevel = 2
  CmdLevel = 0
  RESPAWN_MAX = 0
  BootTimeout = 1
  ForkCanFail = FALSE
  CounterCap = 1
SPECIFICATION FairSpec
PROPERTIES
  RunlevelChangeTerminates
