CONSTANTS
  Protocols <- MCProtocols
  Identity <- MCIdentity
  Lifecycle <- MCTcp
  Condensable <- MCTcp
  Packets <- LivePackets
  KeyHash <- MCKeyHash
  Live = TRUE
  IdleTimeout = 3
  CloseLinger = 1
  MaxStreams = 3
  CondenseThreshold = 0
  MemberCap = 2
  LruSlack = 2
  GenerationCount = 16
  MaxPackets = 4
  MaxTime = 4
  MaxRegress = 0
SPECIFICATION FairSpec
INVARIANTS Forest CapHolds SweepComplete BytesConserved
PROPERTIES LruPick CallsReturn
