SPECIFICATION Spec
CONSTANTS
  Clients = {c1, c2}
  MaxEvents = 2
  Updates = {u1}
  MaxRecent = 2
  ReplayLimit = 1
INVARIANTS
  FeedTypeOK
  NoGap
PROPERTIES
  EventArrives
CHECK_DEADLOCK FALSE
