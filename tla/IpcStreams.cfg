SPECIFICATION Spec
CONSTANTS
  c1 = c1
  c2 = c2
  t1 = t1
  Clients = {c1}
  Topics = {t1}
  Casts <- Tui
  HubCapacity = 2
  Mailbox = 1
  Socket = 1
  EventQueue = 1
  MaxSubs = 1
  MaxInflight = 2
  MaxConnections = 1
  Oversize = TRUE
  Stops = TRUE
  Quits = TRUE
  MaxEvents = 5
  MaxRequests = 2
INVARIANT EventsAccounted
INVARIANT NoLostAnswer
PROPERTY StreamsImplemented
CHECK_DEADLOCK FALSE
