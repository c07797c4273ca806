\* Three operations on two files, one of them in the directory, and two edits.
SPECIFICATION Spec
CONSTANTS
  p = p
  q = q
  x = x
  y = y
  Absent = Absent
  Unseen = Unseen
  Path = {p, q}
  Nested = {q}
  Content = {x, y}
  MaxOps = 3
  MaxEdit = 2
SYMMETRY Interchangeable
INVARIANTS WorkspaceTypeOK DoneAsStaged NothingLeftBehind
PROPERTIES EarlyEditsSurvive
\* A transaction ends.
CHECK_DEADLOCK FALSE
