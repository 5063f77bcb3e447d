CONSTANTS
  n1 = n1
  n2 = n2
  n3 = n3
  x = x
  Server = {n1, n2, n3}
  Command = {x}
  Nil = Nil
  MaxElections = 2
  MaxProposals = 2
  MaxHeartbeats = 1
  MaxCrashes = 1
  MaxDiskErrors = 1
  MaxInFlight = 2
SPECIFICATION LostEntrySpec
INVARIANTS TypeOK WalMirrorsLog WonByMajority LogMatching LogContiguous AppliedInOrder
CONSTRAINT ThreeEvents
CHECK_DEADLOCK FALSE
