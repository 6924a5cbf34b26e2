SPECIFICATION Spec
CONSTANTS
  plugged = plugged
  unplugged = unplugged
  nodata = nodata
  Capacity = 3
  Timestamps <- MCTimestamps
  Data <- MCData
  NoData = nodata
INVARIANTS TypeOK RingShape LiveSlotsWritten
PROPERTIES ImplementsLog TrimIsExact
