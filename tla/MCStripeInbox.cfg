SPECIFICATION InboxFairSpec
CONSTANTS
  u1 = u1  p1 = p1  p2 = p2  e1 = e1  e2 = e2  e3 = e3
  Users <- OneUser
  HoldKeys <- None
  LedgerKeys <- None
  Refs <- TwoPayments
  Amounts <- None
  Deltas <- PackOfTwo
  HoldTtl = 1
  SecPerDay = 2
  MaxRefundCount = 1
  MaxRefundCredits = 1
  MaxTime = 2
  Events <- ThreeEvents
  PaymentOf <- PaymentsOfEvents
  BuyerOf <- OneBuyer
  KindOf <- TwoPurchases
  PackCredits = 2
  SweepLimit = 3
  Retention = 1
INVARIANTS
  CreditedOncePerPayment
  ProcessedIsGranted
  NothingForgotten
PROPERTIES
  TerminalStays
  PurchasesHeal
CHECK_DEADLOCK FALSE
