SPECIFICATION FairSpec
CONSTANTS
  Content <- ThreeContents
  Valid <- ValidContents
  Chunk = 2
  NoContent = NoContent
  MaxEdits = 2
  MaxFailures = 2
CHECK_DEADLOCK FALSE
INVARIANTS
  TypeOK
  InstalledAsRecorded
  OffsetsAgree
  PartIsPrefix
PROPERTIES
  Arrives
