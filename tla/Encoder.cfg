SPECIFICATION FairEncoderSpec
CONSTANTS
  Rows = 3
  Configs = 4
  MaxSize = 2
  Macroblocks = 2
  FastBlocks = 1
  RefreshAfter = 1
  MaxPasses = 3
  HeaderBits = {0, 2}
INVARIANTS SuccessIsComplete FailureExplained FreedWhenIdle OnePassIsCoded
PROPERTIES EncodeReturns
