\* Two names with one damaged spelling.
SPECIFICATION Spec
CONSTANTS
  smile = smile
  heart = heart
  dot = dot
  katakanaDot = katakanaDot
  t1 = t1
  Names = {smile, heart, dot, katakanaDot}
  Spellings <- MCSpellings
  Questions <- MCQuestions
  encode <- MCEncode
  decode <- MCDecode
  matches <- MCMatches
  Threads = {t1}
  Absent = Absent
  Depth = 2
  MaxEntries = 2
INVARIANTS NoGuess
