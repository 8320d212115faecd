SPECIFICATION StepSpec
CONSTANTS
  Elements = {"name", "close", "buy", "more"}
  Modal = {"close"}
  Sensitive = {"buy"}
  Heads = {"blank", "shop", "pay"}
  Blank = "blank"
  SensitiveHeads = {"pay"}
  PointEvery = 3
  ShotEvery = 2
  ChangeNum = 1
  ChangeDen = 2
  None = None
  MaxSteps = 5
INVARIANTS TypeOK DecidesOnRecord JudgedOnRecord ActsWithinView RequestsAnswered
CHECK_DEADLOCK FALSE
