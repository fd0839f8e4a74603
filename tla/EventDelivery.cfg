CONSTANTS
  c1 = c1  c2 = c2  e1 = e1  bad = bad
  Consumers = {c1, c2}
  Events = {e1, bad}
  Malformed = {bad}
  TypeOf <- OneType
  HandlerTimeout = 1
  ClaimIdle = 2
  LockTtl = 2
  ClaimCount = 1
  MaxLength = 1
  Faults = {"lookup", "mark", "ack"}
  Traffic = TRUE
  Latency = "none"
  MaxEntries = 2
  MaxCrashes = 2
SPECIFICATION FairSpec
INVARIANTS TypeOK HandlersDoNotOverlap
PROPERTIES KeepsContract 
CHECK_DEADLOCK FALSE
