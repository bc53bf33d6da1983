\* Pieces of nothing, of a byte, up to half of a partition; the buffer grows by 4 bytes.
SPECIFICATION Spec
CONSTANTS
  Files <- MCFiles
  Pieces = {0, 1, 2, 5}
  ChunkSize = 4
  MaxMbSize = 4
  Prefetch = 1
INVARIANTS
  AddressesRight
  DecodesAllItCan
  HooksPaired
  NoFalseError
