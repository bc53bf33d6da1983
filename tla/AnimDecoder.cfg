SPECIFICATION Spec
CONSTANTS
  Width = 3
  Sheer = {"glass"}
  Solid = {"red"}
  FrameCount = 3
  Frames <- MCFrames
INVARIANT KeptCanvas
PROPERTY PlaysAsSpecified
