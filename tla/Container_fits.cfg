SPECIFICATION Spec
CONSTANTS
  RiffHeaderSize = 3
  ChunkHeaderSize = 2
  AnmfSize = 2
  FeaturesSize = 2
  SizeOf <- MCSizes
  UnknownTags = {"U1", "U2"}
  Settable = {"ICCP", "U1"}
  Bitstreams <- MCBitstreams
  Offsets = {0, 3}
  Canvases = {0, 4}
  MaxFrames = 2
  Handmade <- MCHandmade
INVARIANTS
  AssembledFits
