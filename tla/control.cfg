SPECIFICATION Spec
CONSTANTS
  StartReqs <- Bodies
  StopNames <- Stops
  RingPackets = 2
  BufferPackets = 1
  MaxRequests = 3
  MaxPackets = 3
INVARIANTS TypeOK OwnAnswer AnswerTells StopsItsOwn Aligned StoppedIsOnDisk
PROPERTIES RunningFilesKept CommandsRun
