SPECIFICATION Spec
CONSTANTS
  Content <- TwoContents
  Size <- OwnSize
  NoFile = NoFile
  NoRow = NoRow
  Nothing = Nothing
  MaxNow = 3
PROPERTIES
  ScanCorrectsSize
