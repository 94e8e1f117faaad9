SPECIFICATION PageSpec
CONSTANTS
  Projects = {A, B}
  FirstProject = A
  Tasks = {t1, t2}
  FirstTask = t1
  Words = {w}
  None = None
  MaxMoves = 6
  Mine = {a}
  Theirs = {x}
  MaxOwn = 2
  MaxOthers = 2
  MaxReopened = 1
INVARIANTS
  ChoicesAreKept
  NothingIsDropped
PROPERTIES
  SearchIsApplied
CHECK_DEADLOCK FALSE
