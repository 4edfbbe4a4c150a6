SPECIFICATION FairSpec
CONSTANTS
  MaxConfReqs = 2
  MaxTermReqs = 1
  MaxNakLoops = 2
  IdMod = 8
  a = a
  b = b
  dev = dev
  net = net
  Vals = {a, b}
  NoVal = NoVal
  Ends <- MCEnds
  Profiles <- MCProfiles
  MaxStarts = 3
  MaxKills = 1
  MaxFaults = 1
  MaxLine = 4
INVARIANTS AutomataOK UpperInStep OptionsAgree NoHalfOpen
PROPERTY NegotiationEnds
CHECK_DEADLOCK FALSE
