SPECIFICATION FairSpec
CONSTANTS
  Configs <- MCConfigs
INVARIANTS
  OutputCorrect
  NoDataRace
  IdleOutsideDecoding
PROPERTIES
  RefinesFrameOutput
  DecodingReturns
