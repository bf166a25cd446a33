SPECIFICATION Spec
CONSTANTS
  A = A
  B = B
  Servers = {A, B}
  None = None
  XidSpace = 2
  Leases = {16}
  TicksPerS = 2
  SecPerM = 2
  TickSpace = 64
  ShortLease = 4
  ForeverS = 40
  RetryTicks = 3
  MaxTries = 2
  RenewRetryM = 1
  Ticks = {0, 1, 5}
  MaxElapsed = 41
  MaxMessages = 3
INVARIANT RequestNamesOffer
