SPECIFICATION SyncSpec
CONSTANTS
  t1 = t1  c1 = c1  c2 = c2
  NoKey = NoKey
  Chats <- TwoChats
  FirstChat = c1
  Tabs <- OneTab
  MaxAttempts = 2
  HistoryCap = 2
  MaxActs = 2
  MaxFaults = 0
  MaxCalls = 2
INVARIANT EditsStayInTheirChat
CHECK_DEADLOCK FALSE
