CONSTANTS
  None = None
  NoStamps = NoStamps
  NoAnswer = NoAnswer
  Absent = Absent
  Savers = {c1, c2, c3}
  Scopes = {s1, s2}
  MaxSecond = 1
  MaxVersion = 1
  Chunk = 2
  PollLines = 2
  PollCells = 9
  MaxCells = 4
  MaxLine = 3
  MaxLost = 1
  Files = {f1, f2}
  MaxStamp = 2
  MaxTrouble = 1
  PipeSize = 1
  RequestSize = 2
  AnswerLimit = 2
  MaxWritten = 3
  N = 2
  MaxRuns = 4
  MaxEdits = 2
SPECIFICATION Spec
CHECK_DEADLOCK FALSE
INVARIANTS
  TypeOK LatestReadingKept TiesAreUnknown EveryLineOnce FinishedIsComplete
  CurrentPageIsCurrent AnswerIsWhole RetryReadsNothingStale NothingForgotten
PROPERTIES
  PageEnds PageCatchesUp CallReturns CallLeavesNothing
