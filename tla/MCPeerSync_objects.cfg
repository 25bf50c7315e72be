SPECIFICATION Spec
CONSTANTS
  c1 = c1
  c2 = c2
  Device <- TwoDevices
  Key <- TwoKeys
  Last = 2
  Content <- TwoContents
  NoRecord = NoRecord
  NoFile = NoFile
  Nobody = Nobody
  MaxTime = 0
  MaxEdits = 2
SYMMETRY Contents
INVARIANTS
  TypeOK
  SessionAgrees
  NoUnexpectedMessage
  OnlyEditsMismatch
