SPECIFICATION FairSpec
CONSTANTS
  Page = {p1}
  Stranger = {s1}
  MaxItems = 2
  Size = 1
  MaxConnections = 2
  MaxFaults = 1
INVARIANTS TypeOK OneUpload ConnectionsCounted PartsAreLive BackgroundIsQuiet SavedIsWhole OneRequest
PROPERTIES CancelledStaysHome StopFinishes SlotGivenBack EveryItemSettles
CHECK_DEADLOCK FALSE
