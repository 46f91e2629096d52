SPECIFICATION Spec
CHECK_DEADLOCK FALSE
CONSTANTS
  k1 = k1
  k2 = k2
  Keys = {k1, k2}
  Content <- Sent
  LifeSpan = 100
  Seedings <- Snapshots
  Preface <- Magic
  Mss = 5
  ISN <- FirstNumbers
  SeqSpace = 128
  IntBase = 4
  MaxFrame = 8
  MaxPackets = 4
  MaxMissed = 1
  MaxTime = 1
INVARIANTS TypeOK  ReadBack Causal
