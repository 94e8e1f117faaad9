SPECIFICATION FairSpec
CONSTANTS
  Clients = {c1}
  QueueSize = 2
  Batch = 2
  MaxEvents = 4
PROPERTIES
  ImplementsFeed
  StreamCatchesUp
  RevokedStreamEnds
