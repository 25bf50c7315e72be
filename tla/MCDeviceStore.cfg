SPECIFICATION Spec
CONSTANTS
  Content <- TwoContents
  Size <- SameSize
  NoFile = NoFile
  NoRow = NoRow
  Nothing = Nothing
  MaxNow = 3
INVARIANTS
  TypeOK
  OnlyRacesLose
PROPERTIES
  ScanRepairs
  TombstonedIsRecoverable
