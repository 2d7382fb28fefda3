SPECIFICATION FairSpec
CONSTANTS
  Capacity = 4
  Frames = {1, 2, 3, 4}
  KeyFrames = {2}
  Blank = Blank
INVARIANTS NothingLeft SendersHaveTransceiver SurfaceOutlivesDecoder OneCallAtATime NoDataRace
PROPERTIES HeldFrameStays DecodedInOrder ReleaseEnds ImplementsFifo
CHECK_DEADLOCK FALSE
