SPECIFICATION FairSpec
CONSTANTS
  c1 = c1
  c2 = c2
  Device <- TwoDevices
  Key <- OneKey
  Last = 1
  Content <- TwoContents
  NoRecord = NoRecord
  NoFile = NoFile
  Nobody = Nobody
  MaxTime = 0
  MaxEdits = 1
PROPERTIES
  SessionEnds
