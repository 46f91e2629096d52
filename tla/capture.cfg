SPECIFICATION CaptureSpec
CONSTANTS
  Isn <- TwoLives
  StreamLen <- Lengths
  FrameEnds <- Ends
  ServerPorts = {"server"}
  IdleTime = 2
  ClosedTime = 1
  SameInstant = FALSE
  MaxTime = 4
  RingBytes = 4
  RingAge = 1
  HeaderBytes = 1
INVARIANTS CaptureTypeOK TrackedWhole RolesTrue PcapComplete
