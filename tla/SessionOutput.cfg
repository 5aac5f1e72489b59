SPECIFICATION FairSpec
CONSTANTS
  Capacity = 2
  MaxLines <- LinesOf
  MaxSent = 3
  MaxBreaks = 1
INVARIANTS
  NoGaps
  StoppedIsLast
PROPERTIES
  ImplementsTranscript
  OutputIsSettled
  WriterGoesOn
  ExitIsTold
CHECK_DEADLOCK FALSE
