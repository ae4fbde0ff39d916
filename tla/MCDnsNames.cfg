SPECIFICATION Spec
CONSTANTS
  MaxLen = 5
  Bytes = {0, 1, 2, 3, 4, 128, 192}
  Messages <- AllMessages
  MaxPointerJumps = 3
  MaxNameLen = 6
INVARIANT ConsumedInside
PROPERTY Returns
