SPECIFICATION TranscriptFairSpec
CONSTANTS
  NoTool = NoTool  Synth = Synth
  Turns <- ThreeTurns
  MaxUserTurns = 3
  MaxAtOnce = 2
  MaxReverts = 1
INVARIANTS PromptsWellFormed 
PROPERTIES RowsEndOnce PartialRowsEnd
CHECK_DEADLOCK FALSE
