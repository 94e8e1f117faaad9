SPECIFICATION FairSpec
CONSTANTS
  Tasks = {t1}
  Fields = {title, priority}
  MaxEdits = 2
  MaxOthers = 1
  MaxFaults = 1
INVARIANTS
  
  AppliedAtMostOnce
  SentInOrder
PROPERTIES
  EditsDoNotRollBack
  
CHECK_DEADLOCK FALSE
