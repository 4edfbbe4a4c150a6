SPECIFICATION Spec
CONSTANTS
  Clients = {c1, c2}
  NoMac = NoMac
  Null = Null
  Last = 2
  MaxLeases = 2
  Unusable = {}
  StaticConfigs <- MCStaticConfigs
  Asked <- MCAsked
  Foreign = {2}
  MaxLease = 2
  MinLease = 1
  OfferTime = 0
  DeclineTime = 1
  ConflictTime = 1
  FileTrust = 1
  MaxTime = 3
  MaxNet = 4
  Wishes = {1}
  MaxFaults = 1
SYMMETRY Symmetry
INVARIANTS TableUnique  ReservationKept
CHECK_DEADLOCK FALSE
