SPECIFICATION Spec
CONSTANTS
  MaxFilterPorts = 60
  PortCounts = {0, 1, 2, 60, 61}
  Packets <- SomePackets
INVARIANTS TypeOK FilterInvisible FilterSelective
