SPECIFICATION WalletSpec
CONSTANTS
  u1 = u1  u2 = u2  h1 = h1  h2 = h2
  k1 = k1  k2 = k2  p1 = p1  p2 = p2
  Users <- TwoUsers
  HoldKeys <- TwoHolds
  LedgerKeys <- TwoKeys
  Refs <- TwoRefs
  Amounts <- ZeroToTwo
  Deltas <- GrantAndReversal
  HoldTtl = 1
  SecPerDay = 2
  MaxRefundCount = 1
  MaxRefundCredits = 1
  MaxTime = 3
SYMMETRY KeySymmetry
INVARIANTS
  WalletTypeOK
  Solvent
  HeldIsActiveHolds
  Reconciles
  ChargedOncePerHold
  RefundCeiling
PROPERTIES
  HoldsEndOnce
  ImplementsEscrow
CHECK_DEADLOCK FALSE
