SPECIFICATION Spec
CONSTANTS
  Hosts = {h1, h2}
  Amounts <- MCAmounts
  Length <- MCLength
  Initial = 13
  Exact = 32
  Backlog = 3
  MaxPayments = 3
INVARIANT LedgerSound
PROPERTY CallersServed
CHECK_DEADLOCK FALSE
