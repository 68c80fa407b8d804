SPECIFICATION FairSpec
CONSTANTS
  c1 = c1
  c2 = c2
  t1 = t1
  Clients = {c1, c2}
  Topics = {t1}
  Casts <- Mixed
  HubCapacity = 1
  Mailbox = 1
  Socket = 1
  EventQueue = 1
  MaxSubs = 1
  MaxInflight = 1
  MaxConnections = 1
  Oversize = FALSE
  Stops = TRUE
  Quits = TRUE
  MaxEvents = 2
  MaxRequests = 2
PROPERTY EveryRequestEnds
PROPERTY EventsDelivered
PROPERTY ConnectionsReleased
CHECK_DEADLOCK FALSE
