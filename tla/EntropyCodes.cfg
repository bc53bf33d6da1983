\* Bytes of 3 bits; eight symbols are enough for a carry through pending bytes.
SPECIFICATION Spec
CONSTANTS
  ByteBits = 3
  WordBytes = 3
  BulkBytes = 2
  Probs = {7}
  MaxSymbols = 8
  NumSymbols = 6
  MaxLength = 4
  RootBits = 2
  Histograms <- MCHistograms
  DepthLimit = 4
  LengthsLimit = 4
  DefaultLength = 2
  SymbolBits = 3
  Pictures <- MCPictures
  CostModels <- MCCostModels
  Black = 0
  CacheBits = {0, 1}
  MinLength = 2
  MaxCopyLength = 6
  GoodLength = 4
  WindowSize = 20
  MaxIters = 6
  HashSize = 16
  MaxIntervals = 4
  SkipDistance = 3
  FltMax = 1000
INVARIANTS RoundTrip TableRight CodesAgree ReferencesAgree CostsAreLeast
