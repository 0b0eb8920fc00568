SPECIFICATION SyncFairSpec
CONSTANTS
  t1 = t1  c1 = c1  c2 = c2
  NoKey = NoKey
  Chats <- TwoChats
  FirstChat = c1
  Tabs <- OneTab
  MaxAttempts = 2
  HistoryCap = 2
  MaxActs = 3
  MaxFaults = 1
  MaxCalls = 2
INVARIANTS
  EditsReachTheServer
  KeysAreAccountedFor
  ChainsStaySeparate
PROPERTIES SavesBuildOnTheHead QueuesDrain
CHECK_DEADLOCK FALSE
