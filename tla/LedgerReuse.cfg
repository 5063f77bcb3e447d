SPECIFICATION Spec
CONSTANTS
  Account = {alice, bob}
  Caller = {c1, c2}
  Amount = {0, 1, 2}
  None = None
  Reuse = TRUE
  MaxCommands = 4
INVARIANT NoOverdraft
CHECK_DEADLOCK FALSE
