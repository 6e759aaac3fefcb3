\* Two pictures are decoded at once; each decoding may fail, crash or hang anywhere.
CHECK_DEADLOCK FALSE
SPECIFICATION Spec
CONSTANTS
  c1 = c1
  c2 = c2
  w1 = w1
  w2 = w2
  Callers = {c1, c2}
  Workers = {w1, w2}
  Orientations = {0, 3, 6, 8}
  Null = Null
INVARIANTS TypeOK PictureOwned MemoryAccounted ShownUpright
PROPERTY Answered
