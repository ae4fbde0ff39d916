SPECIFICATION Spec
CONSTANTS
  Decl <- MCDecl
  Parse <- MCParse
  Probe <- MCProbe
  Builders <- MCBuilders
  Opts <- MCOpts
  Readings <- MCReadings
INVARIANTS
  LayersTile
  NoPhantom
  BestGuess
  NoShadowing
  DefaultsHonest
  KeysPresent
  FramingDepthBlind
PROPERTIES
  WalkProgress
