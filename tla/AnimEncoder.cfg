SPECIFICATION Spec
CONSTANTS
  Width = 3
  Sheer = {"glass"}
  Solid = {"red", "blue"}
  Canvases <- MCCanvases
  Options <- MCOptions
  MaxDuration = 3
  NoKeyFrames = 10
  MaxCachedFrames = 3
  Penalties = {0, 1}
  UseAfterError = FALSE
INVARIANTS PlaysPictures EitherVariant RoomForNext KeyFramesRecur
CHECK_DEADLOCK FALSE
