SPECIFICATION Spec
CONSTANTS
  c1 = c1
  c2 = c2
  Device <- TwoDevices
  Key <- OneKey
  Last = 1
  Content <- TwoContents
  NoRecord = NoRecord
  NoFile = NoFile
  Nobody = Nobody
  MaxTime = 1
  MaxEdits = 2
SYMMETRY Contents
INVARIANTS
  VersionDeterminesObject
PROPERTIES
  SyncNeverRegresses
  ImplementsStore
