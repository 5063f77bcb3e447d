SPECIFICATION Spec
CONSTANTS
  alice = alice
  bob = bob
  nobody = nobody
  Account = {alice, bob}
  Key = {k1, k2}
  None = None
  Opening <- MCOpening
  Order <- MCOrder
  MaxRequests = 3
  MaxFaults = 0
INVARIANT RetriesIdentical
CHECK_DEADLOCK FALSE
