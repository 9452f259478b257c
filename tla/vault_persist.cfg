SPECIFICATION Spec
CONSTANTS
  w1 = w1  w2 = w2  r1 = r1  r2 = r2  a = a  b = b  t = t  u = u
  Writers = {w1, w2}
  Runs = {r1, r2}
  Notes = {a, b}
  Texts = {t, u}
  Edited = Edited
  None = None
  Packages <- SomePackages
  MaxEdits = 1
  MaxFailures = 1
SYMMETRY Symmetry
CHECK_DEADLOCK FALSE
PROPERTIES
  NothingOverwritten
  RepeatNotRefused
  WrittenIsComplete
