\* Every disk of a few entries, every path, call after call; the disk changes at any step.
SPECIFICATION Spec
CONSTANTS
  smile = smile
  heart = heart
  dot = dot
  katakanaDot = katakanaDot
  t1 = t1
  Names = {smile, dot, katakanaDot}
  Spellings <- MCSpellings
  Questions <- MCQuestions
  encode <- MCEncode
  decode <- MCDecode
  matches <- MCMatches
  Threads = {t1}
  Absent = Absent
  Depth = 2
  MaxEntries = 2
INVARIANTS TypeOK ReachesFile PlainSpelled
