SPECIFICATION Spec
CONSTANTS
  Device <- Origins
  Key <- TwoKeys
  Content = {1, 2}
  NoRecord = NoRecord
  Size <- SizeOf
  Last = 2
  Upload = {u1, u2}
  UploadSize = 1
  NoLabel = NoLabel
  NoSync = NoSync
  Peer = Peer
  Local <- LocalSnapshots
  Remote <- RemoteSnapshots
  Piece <- Pieces
  MaxNews = 2
INVARIANTS TypeOK ProgressIsReal PlanIsTheWork
PROPERTIES FailureNamesUpload
