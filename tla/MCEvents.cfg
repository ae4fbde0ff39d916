SPECIFICATION Spec
CONSTANTS
  Says <- MCSays
  Times = {0, 1}
  Waits = {0, 5}
  Slots = {s1, s2}
  MaxPackets = 4
  AccumulateSetCap = 2
  SeriesDefaultCap = 3
  SeriesMaxCap = 2
  MaxOffset = 5
INVARIANTS EventsOrdered ParentsTrue RollupsTrue
PROPERTY SessionStaysOver
SYMMETRY SlotSymmetry
