SPECIFICATION Spec
CONSTANTS
  ann = ann
  bob = bob
  t0 = t0
  t1 = t1
  s1 = s1
  s2 = s2
  Users = {ann, bob}
  Editors = {ann, bob}
  Suspendable = {bob}
  Sessions = {s1, s2}
  Statuses = {"TODO", "IN_PROGRESS"}
  Columns <- Description
  Projected <- Description
  Joined <- Tags
  Values = {t0, t1}
  Creations <- Created
  Edits <- Edited
  MaxVersion = 4
  MaxClock = 2
CHECK_DEADLOCK FALSE
SYMMETRY Interchangeable
INVARIANTS
  
  
  ReplayMatchesColumns
  AssigneesAreActive
PROPERTIES
  NoStaleOverwrite
