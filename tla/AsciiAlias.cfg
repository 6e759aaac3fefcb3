\* Two processes share TEMP; one of them also lists.
CHECK_DEADLOCK FALSE
SPECIFICATION Spec
CONSTANTS
  plainDir = plainDir
  shortDir = shortDir
  uniDir = uniDir
  plainName = plainName
  uniName = uniName
  p1 = p1
  p2 = p2
  Dirs = {plainDir, shortDir, uniDir}
  Names = {plainName, uniName}
  Plain = {plainDir, plainName}
  Wildcard = {plainName, uniName}
  Files <- MCFiles
  Short <- MCShort
  Present <- MCPresent
  Processes = {p1, p2}
  Busy = {p1}
  Nothing = Nothing
  MaxCalls = 3
  MaxFaults = 1
INVARIANTS TypeOK AliasReads NothingHalfMade
PROPERTY OperationsHitItem
