SPECIFICATION FairSpec
CONSTANTS
  MaxConfReqs = 2
  MaxTermReqs = 1
  MaxNakLoops = 1
  IdMod = 1
  a = a
  Vals = {a}
  NoVal = NoVal
  EchoFails = {0, 1}
  MaxSignals = 1
  MaxNaks = 1
INVARIANTS IpcpInStep EchoTimerOnce InterfaceFollowsIpcp
  ScriptFitsIpcp CleanExit
PROPERTY SignalEnds
CHECK_DEADLOCK FALSE
