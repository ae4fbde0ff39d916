CONSTANTS
  Protocols <- MCProtocols
  Identity <- MCIdentity
  Lifecycle <- MCTcp
  Condensable <- MCTcp
  Packets <- CondensePackets
  KeyHash <- MCKeyHash
  Live = TRUE
  IdleTimeout = 2
  CloseLinger = 1
  MaxStreams = 3
  CondenseThreshold = 1
  MemberCap = 2
  LruSlack = 2
  GenerationCount = 16
  MaxPackets = 5
  MaxTime = 2
  MaxRegress = 1
SPECIFICATION Spec
INVARIANTS MembersExact CountersExact CreatedExact IndexExact HandlesUnique
