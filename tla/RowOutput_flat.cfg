SPECIFICATION FairSpec
CONSTANTS
  Configs <- MCConfigs
  MaxDimension = 12
INVARIANT
  FlatStaysFlat
