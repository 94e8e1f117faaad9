SPECIFICATION PresenceSpec
CONSTANTS
  mine = mine
  theirs = theirs
  again = again
  me = me
  you = you
  Tabs = {mine, theirs}
  Actors = {me, you}
  ActorOf <- TwoOwners
  Instances = {i1}
  Tasks = {A}
  MaxFailures = 1
  MaxSockets <- Sockets

  
PROPERTIES
  NobodyMissing
CHECK_DEADLOCK FALSE
