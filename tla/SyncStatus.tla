----------------------------- MODULE SyncStatus -----------------------------
(***************************************************************************)
(* The status a device shows (server/status.rs) and the plan a session     *)
(* announces in it (peer/plan.rs), with the threads that write it: a       *)
(* session in either role (peer/mod.rs, peer/transfer.rs), the upload that *)
(* holds the slot (server/mod.rs, upload/mod.rs), and every thread that    *)
(* posts a message (app.rs, a refused peer, pairing).                      *)
(*                                                                         *)
(* Abstractions.  The device's session is seen from this device alone: the *)
(* other end is the snapshot it sent and what its loop over the winners    *)
(* asks for.  Wording is left out; a label stands for the name shown.      *)
(* PeerSync has the protocol, UploadService the uploads.                   *)
(***************************************************************************)
EXTENDS Versions, Sequences, FiniteSets

CONSTANTS Size(_),    \* the size of a content
          Last,       \* Key is 1..Last
          Upload,     \* names of uploaded files
          UploadSize, \* their length
          NoLabel,    \* the empty filename
          NoSync,     \* no totals are shown
          Peer,       \* the label of a session before its first file
          Local,      \* the snapshots this device may have
          Remote,     \* the snapshots its peer may have
          Piece,      \* bytes that may be through at once
          MaxNews     \* bound on the uploads that are reported

Label == Key \cup Upload \cup {NoLabel, Peer}
Snapshot == [Key -> ObjectRecord \cup {NoRecord}]
Sync == [totalFiles : Nat, completedFiles : Nat, totalBytes : Nat,
         completedBytes : Nat, base : Nat]

ASSUME KeyAssumption == Last \in Nat /\ Key = 1..Last
ASSUME SizeAssumption == \A c \in Content : Size(c) \in Nat
ASSUME BoundAssumption == UploadSize \in Nat \ {0} /\ MaxNews \in Nat
ASSUME InputAssumption == Local \cup Remote \subseteq Snapshot /\ Piece \subseteq Nat
ASSUME NoSyncAssumption == NoSync \notin Sync

VARIABLES
  status,      \* StatusSnapshot
  role,        \* of the session: "initiator" or "acceptor"
  mine, theirs,\* its snapshots
  spc,         \* where it is: "idle", "open", "loop", "transfer"
  at,          \* operations it has completed
  offset,      \* bytes of the file under way
  alone,       \* history: no other thread has written since sync_plan
  upc,         \* the upload: "idle", "receiving"
  name, got,   \* its file and the bytes received
  unmixed,     \* history: no other thread has written since its begin
  news         \* uploads reported so far

session == <<role, mine, theirs, spc, at, offset>>
upload == <<upc, name, got, news>>
vars == <<status, role, mine, theirs, spc, at, offset, alone, upc, name, got,
          unmixed, news>>

-----------------------------------------------------------------------------
(* status.rs: one operator per method, from a status to the next *)

Quiet == [active |-> FALSE, filename |-> NoLabel, received |-> 0, total |-> 0,
          recent |-> <<>>, sync |-> NoSync]

Lesser(a, b) == IF a < b THEN a ELSE b

\* begin: an upload is shown, and the totals of a session are gone.
BeginShown(s, label, total) ==
  [s EXCEPT !.active = TRUE, !.filename = label, !.received = 0,
            !.total = total, !.sync = NoSync]

\* activity
ActivityShown(s, label) == BeginShown(s, label, 0)

\* sync_plan
PlanShown(s, files, bytes) ==
  [s EXCEPT !.active = TRUE, !.received = 0, !.total = 0,
            !.sync = [totalFiles |-> files, completedFiles |-> 0,
                      totalBytes |-> bytes, completedBytes |-> 0, base |-> 0]]

\* sync_transfer
TransferShown(s, label, total) ==
  LET shown == [s EXCEPT !.active = TRUE, !.filename = label, !.received = 0,
                         !.total = total]
  IN IF s.sync = NoSync THEN shown
     ELSE [shown EXCEPT !.sync.base = s.sync.completedBytes]

\* message
MessageShown(s) ==
  [s EXCEPT !.active = FALSE, !.filename = NoLabel, !.received = 0,
            !.total = 0, !.sync = NoSync]

\* Fault: the bytes of the files before this one are forgotten.
ProgressOfFile(s, received) ==
  LET shown == [s EXCEPT !.received = received]
  IN IF s.sync = NoSync THEN shown
     ELSE [shown EXCEPT !.sync.completedBytes = Lesser(received, s.sync.totalBytes)]

\* Fault: the bytes are not held to the total.
ProgressUncapped(s, received) ==
  LET shown == [s EXCEPT !.received = received]
  IN IF s.sync = NoSync THEN shown
     ELSE [shown EXCEPT !.sync.completedBytes = s.sync.base + received]

\* progress
ProgressShown(s, received) ==
  LET shown == [s EXCEPT !.received = received]
  IN IF s.sync = NoSync THEN shown
     ELSE [shown EXCEPT !.sync.completedBytes =
                          Lesser(s.sync.base + received, s.sync.totalBytes)]

\* sync_file_done
FileDoneShown(s) ==
  LET shown == [s EXCEPT !.received = s.total]
      bytes == Lesser(s.sync.base + s.total, s.sync.totalBytes)
  IN IF s.sync = NoSync THEN shown
     ELSE [shown EXCEPT
             !.sync.completedFiles = Lesser(@ + 1, s.sync.totalFiles),
             !.sync.completedBytes = bytes,
             !.sync.base = bytes]

\* sync_complete
SyncCompleteShown(s) ==
  LET shown == [s EXCEPT !.active = FALSE, !.filename = NoLabel,
                         !.received = 0, !.total = 0]
  IN IF s.sync = NoSync THEN shown
     ELSE [shown EXCEPT !.sync.completedFiles = s.sync.totalFiles,
                        !.sync.completedBytes = s.sync.totalBytes,
                        !.sync.base = s.sync.totalBytes]

\* push_recent
Reported(s, label, success) ==
  [s EXCEPT !.recent = SubSeq(<<[label |-> label, success |-> success]>> \o @, 1,
                              Lesser(Len(@) + 1, 6))]

\* complete: the file's name stays in the status.
CompleteShown(s, label) ==
  Reported([s EXCEPT !.active = FALSE, !.received = s.total, !.sync = NoSync],
           label, TRUE)

\* Fault: the name in the status is used though nothing is active.
FailShownStale(s, fallback) ==
  LET label == IF s.filename # NoLabel THEN s.filename ELSE fallback
  IN Reported([s EXCEPT !.active = FALSE], label, FALSE)

\* fail
FailShown(s, fallback) ==
  LET label == IF s.active /\ s.filename # NoLabel THEN s.filename ELSE fallback
      quiet == [s EXCEPT !.active = FALSE]
  IN Reported(IF s.sync = NoSync THEN quiet
              ELSE [quiet EXCEPT !.sync.base = s.sync.completedBytes],
              label, FALSE)

-----------------------------------------------------------------------------
(* plan.rs: what a device announces, from the two snapshots *)

WonHere(k) == Winner(mine[k], theirs[k]) = "local"
WonThere(k) == Winner(mine[k], theirs[k]) = "remote"

SendFiles == {k \in Key : WonHere(k) /\ Live(mine[k])}
ReceiveFiles == {k \in Key : WonThere(k) /\ Live(theirs[k])}

\* Fault: the acceptor counts its own tombstones.
DeleteFilesAll ==
  {k \in Key : \/ WonThere(k) /\ ~Live(theirs[k])
               \/ WonHere(k) /\ ~Live(mine[k])}

\* The acceptor's own tombstones are left out: its peer carries them out alone.
DeleteFiles ==
  {k \in Key : \/ WonThere(k) /\ ~Live(theirs[k])
               \/ WonHere(k) /\ ~Live(mine[k]) /\ role = "initiator"}

TotalFiles ==
  Cardinality(SendFiles) + Cardinality(ReceiveFiles) + Cardinality(DeleteFiles)

\* The sizes of the files of the keys up to n that are in a set.
BytesUpTo(files, records) ==
  LET sum[n \in 0..Last] ==
        IF n = 0 THEN 0
        ELSE sum[n - 1] + IF n \in files THEN Size(records[n].content) ELSE 0
  IN sum[Last]

TotalBytes == BytesUpTo(SendFiles, mine) + BytesUpTo(ReceiveFiles, theirs)

-----------------------------------------------------------------------------
(* The work of a session, as the initiator's loop over the winners drives it *)

Op(k, bytes) == [label |-> k, bytes |-> bytes]

\* What the initiator's loop does for an object.
InitiatorWork(k) ==
  CASE WonThere(k) /\ Live(theirs[k]) -> <<Op(k, Size(theirs[k].content))>>
    [] WonThere(k) /\ ~Live(theirs[k]) -> <<Op(k, 0)>>
    [] WonHere(k) /\ Live(mine[k]) -> <<Op(k, Size(mine[k].content))>>
    [] WonHere(k) /\ ~Live(mine[k]) -> <<Op(k, 0)>>
    [] OTHER -> <<>>

\* What reaches the acceptor for an object: the initiator decides, with the
\* two snapshots the other way round.  It pulls what is newer here, keeps to
\* itself that it deletes, and offers its own records.
AcceptorWork(k) ==
  LET decision == Winner(theirs[k], mine[k]) IN
  CASE decision = "remote" /\ Live(mine[k]) -> <<Op(k, Size(mine[k].content))>>
    [] decision = "local" /\ Live(theirs[k]) -> <<Op(k, Size(theirs[k].content))>>
    [] decision = "local" /\ ~Live(theirs[k]) -> <<Op(k, 0)>>
    [] OTHER -> <<>>

Work ==
  LET upTo[n \in 0..Last] ==
        IF n = 0 THEN <<>>
        ELSE upTo[n - 1] \o IF role = "initiator" THEN InitiatorWork(n)
                                                  ELSE AcceptorWork(n)
  IN upTo[Last]

-----------------------------------------------------------------------------
Nothing == [k \in Key |-> NoRecord]

Init ==
  /\ status = Quiet
  /\ role = "initiator"
  /\ mine = Nothing /\ theirs = Nothing
  /\ spc = "idle"
  /\ at = 0
  /\ offset = 0
  /\ alone = FALSE
  /\ upc = "idle"
  /\ name = NoLabel
  /\ got = 0
  /\ unmixed = FALSE
  /\ news = 0

\* The session writes the status; an upload under way no longer has it alone.
SessionWrites(next) == status' = next /\ unmixed' = FALSE /\ UNCHANGED upload

\* The session is over, with all that it kept.
SessionOver ==
  /\ spc' = "idle"
  /\ role' = "initiator"
  /\ mine' = Nothing /\ theirs' = Nothing
  /\ at' = 0
  /\ offset' = 0
  /\ alone' = FALSE

\* Records two devices can hold of an object: a version names one record.
Compatible(a, b) ==
  a # NoRecord /\ b # NoRecord /\ a.version = b.version => a = b

\* PeerRuntime::begin
BeginSession(as) ==
  /\ spc = "idle"
  /\ spc' = "open"
  /\ role' = as
  /\ SessionWrites(ActivityShown(status, Peer))
  /\ UNCHANGED <<mine, theirs, at, offset, alone>>

\* The snapshots are exchanged and the plan made from them is shown.
Announce ==
  /\ spc = "open"
  /\ \E l \in Local, r \in Remote :
       /\ \A k \in Key : Compatible(l[k], r[k])
       /\ mine' = l /\ theirs' = r
  /\ spc' = "loop"
  /\ at' = 0
  /\ alone' = TRUE
  /\ UNCHANGED <<role, offset>>
  /\ SessionWrites(PlanShown(status, TotalFiles', TotalBytes'))

\* A file is begun, from the start or where its part file ends; what is
\* deleted has no bytes.
BeginFile(resumed) ==
  /\ spc = "loop" /\ at < Len(Work)
  /\ resumed <= Work[at + 1].bytes
  /\ spc' = "transfer"
  /\ offset' = resumed
  /\ SessionWrites(
       ProgressShown(TransferShown(status, Work[at + 1].label, Work[at + 1].bytes),
                     resumed))
  /\ UNCHANGED <<role, mine, theirs, at, alone>>

\* A chunk is through.
MoveBytes(n) ==
  /\ spc = "transfer"
  /\ n \in 1..(Work[at + 1].bytes - offset)
  /\ offset' = offset + n
  /\ SessionWrites(ProgressShown(status, offset + n))
  /\ UNCHANGED <<role, mine, theirs, spc, at, alone>>

\* The file is stored, or the peer says so.
EndFile ==
  /\ spc = "transfer" /\ offset = Work[at + 1].bytes
  /\ spc' = "loop"
  /\ at' = at + 1
  /\ offset' = 0
  /\ SessionWrites(FileDoneShown(status))
  /\ UNCHANGED <<role, mine, theirs, alone>>

\* Done is exchanged.
EndSession ==
  /\ spc = "loop" /\ at = Len(Work)
  /\ SessionOver
  /\ SessionWrites(SyncCompleteShown(status))

\* The session fails, at any point; the thread that ran it posts a message.
FailSession ==
  /\ spc # "idle"
  /\ SessionOver
  /\ SessionWrites(MessageShown(status))

\* The upload writes the status; a session under way no longer has it alone.
UploadWrites(next) == status' = next /\ alone' = FALSE /\ UNCHANGED session

\* receive_to_temp begins.
BeginUpload(file) ==
  /\ upc = "idle" /\ news < MaxNews
  /\ upc' = "receiving"
  /\ name' = file
  /\ got' = 0
  /\ unmixed' = TRUE
  /\ UploadWrites(BeginShown(status, file, UploadSize))
  /\ UNCHANGED news

ReceiveBytes ==
  /\ upc = "receiving" /\ got < UploadSize
  /\ got' = got + 1
  /\ UploadWrites(ProgressShown(status, got + 1))
  /\ UNCHANGED <<upc, name, unmixed, news>>

\* upload(): the file is published.
CompleteUpload ==
  /\ upc = "receiving" /\ got = UploadSize
  /\ upc' = "idle"
  /\ news' = news + 1
  /\ unmixed' = FALSE
  /\ UploadWrites(CompleteShown(status, name))
  /\ UNCHANGED <<name, got>>

\* upload(): receive() fails under way.
FailUpload ==
  /\ upc = "receiving"
  /\ upc' = "idle"
  /\ news' = news + 1
  /\ unmixed' = FALSE
  /\ UploadWrites(FailShown(status, name))
  /\ UNCHANGED <<name, got>>

\* upload(): receive() fails before it begins, on the length or the name.
RefuseFile(file) ==
  /\ upc = "idle" /\ news < MaxNews
  /\ name' = file
  /\ news' = news + 1
  /\ UploadWrites(FailShown(status, file))
  /\ UNCHANGED <<upc, got, unmixed>>

\* A message of another thread: a second peer is refused, a button is
\* pressed, a device is paired.
Message ==
  /\ status' = MessageShown(status)
  /\ alone' = FALSE
  /\ unmixed' = FALSE
  /\ UNCHANGED <<session, upload>>

SessionStep ==
  \/ \E as \in {"initiator", "acceptor"} : BeginSession(as)
  \/ Announce
  \/ \E n \in Piece : BeginFile(n) \/ MoveBytes(n)
  \/ EndFile \/ EndSession \/ FailSession

UploadStep ==
  \/ \E file \in Upload : BeginUpload(file) \/ RefuseFile(file)
  \/ ReceiveBytes \/ CompleteUpload \/ FailUpload

Next == SessionStep \/ UploadStep \/ Message

Spec == Init /\ [][Next]_vars

-----------------------------------------------------------------------------
StatusSnapshot ==
  [active : BOOLEAN, filename : Label, received : Nat, total : Nat,
   recent : Seq([label : Label, success : BOOLEAN]), sync : Sync \cup {NoSync}]

TypeOK ==
  /\ status \in StatusSnapshot /\ Len(status.recent) <= 6
  /\ status.sync # NoSync =>
       /\ status.sync.completedFiles <= status.sync.totalFiles
       /\ status.sync.base <= status.sync.completedBytes
       /\ status.sync.completedBytes <= status.sync.totalBytes
  /\ role \in {"initiator", "acceptor"}
  /\ mine \in Snapshot /\ theirs \in Snapshot
  /\ spc \in {"idle", "open", "loop", "transfer"}
  /\ at \in Nat /\ offset \in Nat
  /\ alone \in BOOLEAN /\ unmixed \in BOOLEAN
  /\ upc \in {"idle", "receiving"}
  /\ name \in Upload \cup {NoLabel}
  /\ got \in 0..UploadSize
  /\ news \in 0..MaxNews

DoneBytes ==
  LET sum[n \in 0..Len(Work)] ==
        IF n = 0 THEN 0 ELSE sum[n - 1] + Work[n].bytes
  IN sum[at]

\* README: the progress of a sync shows the whole and the current file.  As
\* long as no other thread writes the status, it counts the files that are
\* through and the bytes that have passed, those of earlier sessions that a
\* part file saved included, and names the file under way.
ProgressIsReal ==
  alone =>
    /\ status.sync # NoSync
    /\ status.sync.completedFiles = at
    /\ status.sync.completedBytes = DoneBytes + offset
    /\ spc = "transfer" =>
         /\ status.active
         /\ status.filename = Work[at + 1].label
         /\ status.received = offset /\ status.total = Work[at + 1].bytes

\* README: before a sync the files to receive, send and delete and their bytes
\* are counted.  The count is exact on both devices: when the last operation
\* is done, all that was announced is done, and nothing else.
PlanIsTheWork ==
  alone /\ spc = "loop" /\ at = Len(Work) =>
    /\ status.sync.totalFiles = Len(Work)
    /\ status.sync.completedBytes = status.sync.totalBytes

\* The report of an upload that fails names that upload: always, if the
\* status was its own, and also when it fails before it began and nothing is
\* active, whatever an earlier upload has left there.
FailureNamesUpload ==
  [][/\ news' # news
     /\ IF upc = "receiving" THEN unmixed ELSE ~status.active
     => status'.recent[1].label = name']_vars
=============================================================================
