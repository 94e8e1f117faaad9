SPECIFICATION OutboxFairSpec
CONSTANTS
  Projects = {p1}
  Writers = {w1, w2}
  Relays = {r1, r2}
  Distributors = {d1, d2}
  Nobody = Nobody
  MaxSequence = 3
  MaxFaults = 2
INVARIANTS
  LogIsComplete
  BrokerInOrder
  OffsetBehindFanout
PROPERTIES
  EveryEventFansOut
CHECK_DEADLOCK FALSE
