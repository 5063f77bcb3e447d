CONSTANTS
  n1 = n1
  n2 = n2
  n3 = n3
  x = x
  Server = {n1, n2, n3}
  Command = {x}
  Nil = Nil
  MaxElections = 2
  MaxProposals = 2
  MaxHeartbeats = 1
  MaxCrashes = 0
  MaxDiskErrors = 0
  MaxInFlight = 1
SPECIFICATION Spec
SYMMETRY Symmetry
INVARIANT AppliedAgree
CHECK_DEADLOCK FALSE
