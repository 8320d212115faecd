SPECIFICATION ResearchSpec
CONSTANTS
  Urls = {"u1", "u2"}
  StartUrl = "u1"
  Contents = {"long", "short"}
  ChunksOf <- MCChunksOf
  Fields = {"f"}
  Values = {"a", "A", "b", "c"}
  Norm <- MCNorm
  MaxFindings = 1
  MaxCited = 2
  NoPage = NoPage
  NoResult = NoResult
  MaxSteps = 4
  MaxMoves = 1
  MaxRetries = 1
  MaxFaults = 1
INVARIANTS TypeOK CollectedOnce ReadInOrder AnswersStand AnswerableWithinLimit
PROPERTIES ExtractAdvances ResearchEnds
CHECK_DEADLOCK FALSE
