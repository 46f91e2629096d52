SPECIFICATION Spec
CONSTANTS
  Setups <- FromStartOnly
  StreamLen = 18
  PrefaceLen = 0
  FrameHeaderLen = 2
  MaxBufferedFrame = 2
  MaxPlausibleFrame = 2
  ResyncWindow = 5
  MaxGaps = 0
INVARIANT NextFrameSeqIsBoundary
