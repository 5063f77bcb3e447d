CONSTANTS
  n1 = n1
  n2 = n2
  n3 = n3
  x = x
  Server = {n1, n2, n3}
  Command = {x}
  Nil = Nil
  MaxElections = 2
  MaxProposals = 0
  MaxHeartbeats = 0
  MaxCrashes = 1
  MaxDiskErrors = 0
  MaxInFlight = 2
SPECIFICATION Spec
SYMMETRY Symmetry
INVARIANT VotesOncePerTerm
CHECK_DEADLOCK FALSE
