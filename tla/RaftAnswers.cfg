CONSTANTS
  n1 = n1
  n2 = n2
  n3 = n3
  x = x
  Server = {n1, n2, n3}
  Command = {x}
  Nil = Nil
  MaxElections = 2
  MaxProposals = 2
  MaxHeartbeats = 0
  MaxCrashes = 0
  MaxDiskErrors = 0
  MaxInFlight = 3
SPECIFICATION Spec
SYMMETRY Symmetry
INVARIANT AnswerIsDurable
CHECK_DEADLOCK FALSE
