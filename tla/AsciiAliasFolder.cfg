\* One process lists a folder and opens what it has listed.
CHECK_DEADLOCK FALSE
SPECIFICATION Spec
CONSTANTS
  plainDir = plainDir
  shortDir = shortDir
  uniDir = uniDir
  plainName = plainName
  uniName = uniName
  p1 = p1
  p2 = p2
  Dirs = {plainDir, shortDir, uniDir}
  Names = {plainName, uniName}
  Plain = {plainDir, plainName}
  Wildcard = {plainName, uniName}
  Files <- MCFiles
  Short <- MCShort
  Present <- MCPresent
  Processes = {p1}
  Busy = {p1}
  Nothing = Nothing
  MaxCalls = 4
  MaxFaults = 0
INVARIANT ListedOpens
