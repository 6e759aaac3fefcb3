\* Two threads read archives that other programs replace and delete.
SPECIFICATION Spec
CONSTANTS
  lossy = lossy
  spelled = spelled
  a = a
  b = b
  t1 = t1
  t2 = t2
  Archives = {a, b}
  Lossy = {lossy}
  Spelled = {spelled}
  names <- MCNames
  decode <- MCDecode
  Positions = {0, 1}
  Special <- MCSpecial
  Threads = {t1, t2}
  Folder = Folder
  Unset = Unset
  None = None
  Direct = Direct
  MaxChanges = 2
  MaxFaults = 1
INVARIANTS TypeOK RightEntry StaysReadable OneArchive
SYMMETRY ThreadSymmetry
