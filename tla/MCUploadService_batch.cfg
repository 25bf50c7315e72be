SPECIFICATION Spec
CONSTANTS
  Page = {p1}
  Stranger = {s1}
  MaxItems = 2
  Size = 1
  MaxConnections = 2
  MaxFaults = 0
INVARIANTS BatchNotRefused
CHECK_DEADLOCK FALSE
