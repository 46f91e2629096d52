SPECIFICATION FairSpec
CONSTANTS
  Setups <- AllSetups
  StreamLen = 18
  PrefaceLen = 2
  FrameHeaderLen = 2
  MaxBufferedFrame = 2
  MaxPlausibleFrame = 2
  ResyncWindow = 5
  MaxGaps = 1
INVARIANTS TypeOK FramedTrue NothingSkipped FragmentsOfOneBlock
PROPERTIES CatchesUp Resynchronises
