SPECIFICATION Spec
CONSTANTS
  MinEntrySize = 2
  DefaultTableSize = 6
  PlaceholderLen = 2
  TrackLimit = 8
  Joins = {"start", "midstream"}
  NameLens = {1,2}
  ValLens = {0, 3}
  Capacities = {0, 9}
  MaxInserts = 4
  MaxSettings = 2
  MaxLosses = 1
INVARIANTS TypeOK NeverWrong ExactIsComplete TableBounded
PROPERTIES FailureNeedsDoubt WithdrawnVisibly
