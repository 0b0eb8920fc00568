SPECIFICATION TranscriptSpec
CONSTANTS
  NoTool = NoTool  Synth = Synth
  Turns <- OneTurn
  MaxUserTurns = 2
  MaxAtOnce = 2
  MaxReverts = 1
INVARIANT PromptsReappear
CHECK_DEADLOCK FALSE
