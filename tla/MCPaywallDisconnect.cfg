SPECIFICATION PaywallSpec
CONSTANTS
  u1 = u1  u2 = u2  r1 = r1  r2 = r2  p1 = p1
  NoClaim = NoClaim
  Users <- OneUser
  Requests <- OneRequest
  Owner <- SameOwner
  Verified <- NoUsers
  HoldKeys <- OneRequest
  LedgerKeys <- RequestLedgerKeys
  Refs <- OneRef
  Amounts <- UpToThree
  Deltas <- TopUpOfTwo
  MinToStart = 1
  MaxHold = 2
  HoldTtl = 1
  SecPerDay = 2
  MaxRefundCount = 1
  MaxRefundCredits = 2
  MaxTime = 3
INVARIANT DisconnectIsCharged
CHECK_DEADLOCK FALSE
