SPECIFICATION Spec
CONSTANTS
  Account = {alice, bob}
  Caller = {c1, c2}
  Amount = {0, 1, 2}
  None = None
  Reuse = FALSE
  MaxCommands = 4
INVARIANTS TypeOK ProjectionAgrees
PROPERTIES KeepsBooks
CHECK_DEADLOCK FALSE
