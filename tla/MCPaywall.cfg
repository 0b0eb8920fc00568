SPECIFICATION PaywallFairSpec
CONSTANTS
  u1 = u1  u2 = u2  r1 = r1  r2 = r2  p1 = p1
  NoClaim = NoClaim
  Users <- OneUser
  Requests <- TwoRequests
  Owner <- SameOwner
  Verified <- OneUser
  HoldKeys <- TwoRequests
  LedgerKeys <- RequestLedgerKeys
  Refs <- OneRef
  Amounts <- UpToThree
  Deltas <- TopUpOfThree
  MinToStart = 1
  MaxHold = 2
  HoldTtl = 1
  SecPerDay = 2
  MaxRefundCount = 1
  MaxRefundCredits = 2
  MaxTime = 3
INVARIANTS
  PaywallTypeOK
  DeliveredIsCharged
  UndeliveredIsFree
  HoldsHaveRequests
  FreePieceOnce
PROPERTIES
  UsesWallet
  StrandedHoldsReturn
CHECK_DEADLOCK FALSE
