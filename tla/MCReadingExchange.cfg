SPECIFICATION Spec
CONSTANTS
  p1 = p1
  p2 = p2
  l1 = l1
  l2 = l2
  m1 = m1
  Device <- TwoDevices
  Book <- OneBook
  Time <- TwoTimes
  Position <- Positions
  Layout <- Layouts
  Mark <- Marks
  Absent = Absent
  NoRecord = NoRecord
  Selections <- ThreeSelections
  MaxEdits = 2
SYMMETRY Symmetry
INVARIANTS
  Converged
  FilesKeepTheirPlace
PROPERTIES
  NothingTakenBack
