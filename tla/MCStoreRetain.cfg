CONSTANTS
  Protocols <- MCProtocols
  Identity <- MCIdentity
  Lifecycle <- MCTcp
  Condensable <- MCTcp
  Packets <- CondensePackets
  KeyHash <- MCKeyHash
  Live = FALSE
  IdleTimeout = 3
  CloseLinger = 1
  MaxStreams = 3
  CondenseThreshold = 2
  MemberCap = 2
  LruSlack = 2
  GenerationCount = 16
  MaxPackets = 5
  MaxTime = 1
  MaxRegress = 0
SPECIFICATION Spec
INVARIANT SinkOrdered
