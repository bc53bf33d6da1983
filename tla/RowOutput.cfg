SPECIFICATION FairSpec
CONSTANTS
  Configs <- MCConfigs
  MaxDimension = 12
INVARIANTS
  OutputRight
PROPERTIES
  AnnouncedRowsStay
  PutReturns
