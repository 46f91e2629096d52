SPECIFICATION TickingSpec
CONSTANTS
  StreamLen = 6
  Cuts <- AllCuts
  SeqModulus = 16
  Isn = 13
  OooLimit = 4
  OooTimeout = 2
INVARIANTS TypeOK OffsetsAgree HeldIsAhead HoldBounded
PROPERTIES GapSparesWhatIsHeld RefinesByteFeed TimedHoleEnds
