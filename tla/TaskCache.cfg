SPECIFICATION Spec
CONSTANTS
  Tasks = {t1}
  MaxEvents = 2
  MaxOwn = 2
  MaxReads = 1
INVARIANTS
  
  ListAddsUp
CHECK_DEADLOCK FALSE
