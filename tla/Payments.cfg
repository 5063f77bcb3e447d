SPECIFICATION FairSpec
CONSTANTS
  alice = alice
  bob = bob
  nobody = nobody
  Account = {alice, bob}
  Key = {k1, k2}
  None = None
  Opening <- MCOpening
  Order <- MCOrder
  MaxRequests = 3
  MaxFaults = 1
INVARIANTS TypeOK FundsReserved CreatedIsPaid
PROPERTIES KeepsPromise Answered
CHECK_DEADLOCK FALSE
