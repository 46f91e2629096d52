SPECIFICATION TickingSpec
CONSTANTS
  StreamLen = 5
  Cuts <- FourCuts
  SeqModulus = 16
  Isn = 13
  OooLimit = 4
  OooTimeout = 2
PROPERTY HoleEnds
