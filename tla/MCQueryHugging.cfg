SPECIFICATION Spec
CONSTANTS
  ParseText <- ParseQuery
  VisibleSeqs <- VisibleSet
  NumberOf <- MCNumbers
  Kilo = 3
  RegexOk <- MCRegexOk
  RegexMatches <- MCRegexMatches
  MaxRows = 4
  MaxGroups = 2
  SamplesPerGroup = 2
  EndpointCap = 1
  Snapshots <- MCSnapshots
  Occurrences <- MCOccurrences
  Keys <- MCKeys
  Chunks <- MCHugging
  Page = 2
  Full = 3
  Scrub = 1
  Coarse = 2
  TickStep = 1
  MaxEffort = 12
INVARIANT QueryAsDocumented
