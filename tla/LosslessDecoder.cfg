SPECIFICATION FairSpec
CONSTANTS
  Width = 2
  Height = 8
  SyncRows = 2
  CacheRows = 4
  HeaderSize = 2
  HeaderShare = 8
  Colors = {0, 1, 2, 3}
  Black = 0
  Slots = {0, 1}
  Slot <- MCSlot
  Files <- MCFiles
INVARIANTS
  OutputRight
PROPERTIES
  BatchFits
  GoodFilesAreDecoded
