SPECIFICATION HandoverSpec
CONSTANTS
  MinEntrySize = 2
  DefaultTableSize = 6
  PlaceholderLen = 1
  TrackLimit = 10
  Joins = {"start", "midstream"}
  NameLens = {1, 2}
  ValLens = {0}
  Capacities = {3, 8}
  MaxInserts = 4
  MaxSettings = 1
  MaxLosses = 1
INVARIANTS MirrorExact SeededValuesTrue
