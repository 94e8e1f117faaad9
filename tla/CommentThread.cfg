SPECIFICATION Spec
CONSTANTS
  Types = {like, celebrate}
  Clicked = {like}
  PageSize = 1
  MaxWriting = 2
  MaxOwn = 2
  MaxOutside = 3
  MaxSteps = 3
INVARIANTS
  
  
  ForestIsWhole
  TextsSurvive
CHECK_DEADLOCK FALSE
