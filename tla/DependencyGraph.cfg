SPECIFICATION FairGraphSpec
CONSTANTS
  Tasks = {a, b, c}
  Writers = {s1, s2}
  MaxDepth = 2
INVARIANTS
  NoCycle
PROPERTIES
  ImplementsDag
  EdgeRequestsEnd
