# A formal model of remagic-upload

remagic-upload is the file transfer application of two e-paper tablets. A
browser uploads books and wallpapers over HTTP, and two tablets synchronize
their libraries, application data and reading state with each other over the
local network. This directory holds TLA+ models of the parts where a user's file
or reading state can be lost, mixed up or resurrected, and of the application
around them, the TLC runs that check the models, and TLAPS proofs of what holds
for every size of the system.

Paths such as `catalog.rs` are relative to `src/` of the repository.

## The system

| Component | State | Operations | What makes it correct |
|---|---|---|---|
| Sync catalog (`catalog.rs`, `catalog/`) | SQLite tables `objects`, `peers`, `meta` (identity, version counter) | `scan_filtered`, `record_local_file`, `store_remote`, `next_version`, `find` | a version names one object for ever; a scan brings every row in line with the disk; a deletion is newer than what it deletes |
| Peer session (`peer/mod.rs`, `peer/transfer.rs`, `peer/protocol.rs`, `peer/summary.rs`) | `active` flag; in a session: two snapshots, the object under way | `synchronize` (initiator), `accept` / `serve_commands` (acceptor) | the ends never misread each other; what is done is done on both sides; newer replaces older; a session always ends |
| Peer storage (`peer/storage.rs`) | part files, files of the roots | `begin_receive`, `write_chunk`, `commit`, `apply_tombstone`, `open_local` | only complete and verified content is published; resumption never gets stuck |
| Trash (`trash.rs`) | buckets of replaced files | `move_existing`, `restore`, `prune_expired` | nothing replaced is lost for 30 days |
| Upload registry (`upload/`) | temporary files, files of the roots | `receive`, `publish_replacing`, `publish_book`, `publish_no_overwrite` | a publication happens as a whole or not at all |
| HTTP server (`server/mod.rs`) | connections (at most 8), one upload slot, stop flag | `serve`, `handle_connection`, `upload`, `stop` | the slot is given back; `stop` returns |
| Shared status (`server/status.rs`), sync plan (`peer/plan.rs`) | one status for all threads | `begin`, `sync_plan`, `progress`, ... | progress belongs to the operation shown |
| Reading state (`peer/reading.rs`) | KOReader's exported records | `export`, `merge`, `import` | both devices end with the same records |
| Application (`app.rs`) | server, worker, credentials | `enter_foreground`, `rotate_server`, `leave_foreground`, `activate_sync` | nothing runs in the background |
| Sync scope (`sync_scope.rs`, `peer/storage/roots.rs`) | the user's selection | `roots_for`, filters, `root_for_kind` | every file travels under one kind and arrives where it came from |
| Discovery, pairing, channel (`peer/discovery.rs`, `peer/noise.rs`, `peer/transport.rs`) | trust table, stream | handshake, whole messages in order | a vanished peer is noticed |
| Browser page (`web/app.js`) | upload queue | `enqueue`, `run`, `cancel` | every file queued is sent or reported |

How they interact. The event loop of `app.rs` starts the server thread, one
worker thread per connection and one sync worker. Upload workers, an accepted
peer session and the sync worker share the catalog (a mutex around one SQLite
connection), the shared status (a mutex) and the file system (nothing). The
`active` flag admits one peer session per device in either role; it does not
exclude uploads. Users and other applications (KOReader, MagicPaper, xochitl)
write the same directories at any time.

What is hard: the file system and the catalog change in separate steps, which
failures and crashes separate; a session decides on snapshots that are stale by
the time it acts on them; both devices can call each other at once; transfers
are resumed in later sessions while files are edited. `PROJECT.json` lists each
hazard at its line, with the properties that cover it.

## Modules

| Module | Models | Checked by | Proofs |
|---|---|---|---|
| `Versions` | version stamps, records, `winner` | with `PeerSync` | `PeerSyncProofs` |
| `ReplicatedStore` | abstract promise of the catalogs: records are issued once and copied, never altered | as a property of `PeerSync` | refinement in `PeerSyncProofs` |
| `PeerSync` | the session protocol of any number of devices over their catalogs and files | `MCPeerSync`, four configurations | `PeerSyncProofs`, `SessionProofs` |
| `DeviceStore` | one object on one device, system call by system call | `MCDeviceStore`, two configurations | `StoreProofs` |
| `FileTransfer` | one file in chunks over several sessions | `MCFileTransfer` | `FileProofs` |
| `UploadService` | browser pages, the HTTP server's connections and upload slot, reception of a body, start and stop | `MCUploadService`, two configurations | `UploadProofs` |
| `SyncStatus` | the status all threads write, and the plan of a session against its work | `MCSyncStatus` | `StatusProofs` |
| `SyncScope` | the items of a session, their roots, filters and kinds, as five tables | with `ReadingExchange` | `ReadingProofs` |
| `ReadingMerge` | reading records, their merge and scope, as operators | with `ReadingExchange` | `ReadingProofs` |
| `ReadingExchange` | the reading state of any number of devices in sessions, with KOReader and its users | `MCReadingExchange` | `ReadingProofs` |
| `BookPublication` | the publication of a native book and the scan of its directory | with `Tablet` | `TabletProofs` |
| `Application` | the loop of `app.rs`, the launcher, the other threads as far as the loop waits for them | with `Tablet` | `TabletProofs` |
| `Tablet` | `Application` and `BookPublication` put together: uploads publish, sessions scan, a start sweeps, an end tears | `MCTablet` | `TabletProofs` |

An operator whose comment begins with "Fault:" is not part of its module's
behaviour. It is the variant of the definition after it that a plausible bug
would have produced; `PROJECT.json` pairs each with the property that notices.

### PeerSync

One variable per piece of state: `file` (disk), `catalog` and `counter` (the
tables `objects` and `meta`), `uploading` (a file the upload thread has
published and not yet recorded), and per device the state of its session: `pc`,
`role`, `partner`, `mine` and `theirs` (the snapshots), `at` (place in the loop
over `winners`), `item` (record under way). `net` holds the messages in flight
of the stream between two devices. `issued`, `touched` and `edits` are history
for the properties and bounds.

| Code | Actions |
|---|---|
| `PeerRuntime::begin`, handshake, hellos, scope | `Begin`, `Accept`, `Refuse` (busy) |
| `snapshot`, `scan_filtered` | `ScanRoot`, once per root |
| `send_snapshot`, `receive_snapshot` | `SendSnapshot`, `ReceiveSnapshot` |
| loop of `synchronize` | `StepEqual`, `StepDeleteHere`, `StepPull`, `StepPush`, `StepDone` |
| `serve_commands` | `ServeGet`, `ServeTombstone`, `ServePut`, `ServeDone` |
| `pull`, `push`, `send_file_body`, `receive_file` | `AwaitPut`, `SendBody`, `ReceiveBody`, `ReceiveApplied`, `ReceiveDone` |
| errors returned for an unexpected state | `Reject`, enabled by `Mismatch` |
| I/O errors, the timeout of 60 s, a crash | `Fail`, at any point; what was sent may arrive or be lost |
| upload thread | `UploadPublish`, `UploadRecord` |
| user, clock | `UserWrite` (with any modification time), `UserDelete`, `Tick` |

Abstractions: each object is the only one of its root; two contents of an
object differ in size, so that scans miss no edit (`DeviceStore` has those they
miss); a commit is one step (`DeviceStore` has its steps); a body is one
message (`FileTransfer` has its chunks); size, hash and mode are one content;
the reading state is in `ReadingExchange`, the scope of a session in `SyncScope`.

Properties. `VersionDeterminesObject`: a stamp names one record everywhere.
`SessionAgrees`: wherever a session stands, both devices agree, row and disk,
on every object it is through with and nobody edited. `NoUnexpectedMessage`:
the ends never drift apart. `OnlyEditsMismatch`: connected devices break a
session off over a mismatch only when somebody edits. `SyncNeverRegresses`: a
session never replaces a row by an older one unless the object was edited on
that device since its scan. `ImplementsStore`: the catalogs implement
`ReplicatedStore` with `store <- catalog`. `SessionEnds`: a device that is busy
becomes idle.

### DeviceStore

The commit of a received file, the publication of an upload, a tombstone, a
scan and a record by `record_local_file` are broken into their system calls
and catalog transactions. `pc` says where the sync thread and the upload thread
are, `work`, `moved` and `stat` what they carry: the content to publish, the
path in the trash for a rollback, metadata read and not yet stored. The user
may write or delete at any point, any step may fail and be rolled back the way
the code does it, and the process may die anywhere. `lost`, `withdrawn`,
`raced` and `torn` are history.

Properties. `OnlyRacesLose`: failures and crashes alone lose no file; only
another writer during a publication can. `ScanRepairs`: after any of it, a scan
that sees the file as it is sets the row right, unless the row is torn (the
time of one file, the hash of another) and a rollback brings the first file
back. `TombstonedIsRecoverable`: what a false tombstone buries is in the trash
or was removed on purpose.

### FileTransfer

`part` maps a version to its part file, as `part_path` does. The sender's file
may be edited at any time, in place (its open handle sees it) or by a rename
(it does not). Either end may fail; a crash of the receiver may cost an
unsynced tail of the part file. Properties: `InstalledAsRecorded`,
`OffsetsAgree` (every acknowledgement is the offset the sender expects),
`PartIsPrefix`, and `Arrives`: when edits and failures are over, the file
arrives. A part file spoiled by an edit that was taken back, so that its
version is still current, is completed, found wrong, removed and sent afresh.

### UploadService

Per page, `queue` is `state.queue` with the status each item shows, `current`
the item `run()` awaits (0 when `state.running` is false). JavaScript runs to
its next `await`, so an action is what happens between two of them: `Enqueue`,
`CancelWaiting`, `CancelUploading`, `Converted` and `ConversionFails` (the end of
`wallpaperPng`), `Loaded` and `NetworkError` (the callbacks of the request); all
end in `Continue`, the loop of `run()`. Per connection, `phase` is where its
worker is, `link` its client's end (`vanished`: gone without closing), `reply`
what the worker will answer, `answer` what the client has read, `got` the pieces
in the part file. `listening` is that `serve` still owns its listener, so that the
port is open and the kernel takes connections into the backlog, `accepting` that it is
in its loop: the loop ends with the stop flag or with an error of `accept`
(`LeaveLoop`), the listener only after every worker is joined (`CloseListener`).
`paired` is what `state.token` is worth: `Pair` gets a token once,
and a restart of the server makes it stale for good. `slot` is `active_upload`, `active` is `active_connections`.

| Code | Actions |
|---|---|
| `serve`, `reject_busy` | `Accept`, `RejectBusy`, `LeaveLoop`, `CloseListener` |
| `handle_connection`, `read_request`, `route` | `AnswerOther`, `BeginSession`, `EndSession` |
| `upload` | `RefuseUpload`, `TakeSlot`, `Respond`, `Release` |
| `receive`, `receive_to_temp` | `Receive`, `Truncated`, `Cancelled`, `Received`, `Publish`, `Invalid`, `DiskFails` |
| `ConnectionGuard` | `Leave` |
| `leave_foreground`, `rotate_server`, `enter_foreground` | `Stop`, `Joined`, `EnterForeground`, `Start` |
| other clients, the network, the system | `Connect`, `Vanish`, `Crash` |

Abstractions: a page sends an item at most once, so its connection is named
after the item; `Publish` is one step (`DeviceStore` has its steps); what makes a
request or a file unacceptable is a choice; a peer's session is a stranger that
leaves in time (`SessionEnds` of `PeerSync` is why). An answer may be lost where
the server closes a connection with unread data.

Properties. `OneUpload` ties the slot to the one worker that holds it.
`ConnectionsCounted`, `PartsAreLive`: counter and part files follow the workers
whichever way each ends. `BackgroundIsQuiet`: nothing of a server outlives its
stop. `SavedIsWhole`: what is published is complete, what is shown as saved is
published. `OneRequest`, `CancelledStaysHome`: the page's callbacks do not
overtake each other. `StopFinishes`, `SlotGivenBack`, `EveryItemSettles`: what
must end does, with the exceptions the code has. A client that vanishes keeps the
slot until the server stops, since `receive_to_temp` has no deadline. If `accept`
fails meanwhile, `serve` leaves its loop without the stop flag and joins that worker
with the port still open: the request a page sends then (`Unserved`) is taken by the
kernel, never accepted and never reset, and `send` sets no timeout, so its item shows
"上传中" until the server is stopped. `EveryItemSettles` exempts exactly this state;
no document promises otherwise, so it is listed as a hazard and not as a finding.

### SyncStatus

Each method of `SharedStatus` is an operator from one status to the next, and a
session, an upload and other threads call them in any order. The session is seen
from one device, as initiator or acceptor: `mine` and `theirs` are its snapshots,
`Work` the operations that reach it, written from the loop of the initiator and
seen from the acceptor with the snapshots exchanged. The plan is written from
`plan.rs`, so `PlanIsTheWork` compares two independent pieces of code.
`ProgressIsReal`: a session nobody disturbed shows exactly what has passed.
`FailureNamesUpload`: a failed upload is reported under its own name. The snapshots
the two devices may have (`Local`, `Remote`) and the bytes that may be through at once
(`Piece`) are constants: any sets for the proofs, every pair of records for TLC. Wording,
labels and the preview are left out; saturating sums are sums.

### SyncScope

Five tables of the code say what a kind of file is: `roots_for` (which directory
of an item is scanned, with which filter, under which kind), the filters
themselves, `root_for_kind` with `filter_for_kind` (where a received record
belongs), `validate_kind` (what the catalog stores) and `validate_format` (what
a receiver can check). They are kept apart, and nothing in the code compares
them. A path is known by its class, which is what the filters tell apart.
`FilesKeepTheirPlace` compares the tables under the selection of the session: no
two kinds of one directory claim the same file, so no key of MagicPaper travels
as configuration, and each kind offered is stored, checked and put back where it
came from. The items are named after `SyncItem`; `document_settings` is short for
`koreader_document_settings`.

### ReadingMerge and ReadingExchange

A record has the time of its last change, a position, bookmarks and a layout;
the fields of the last two kinds change together and are one value each.
`MergeRecord` is the body of the loop in `merge`: the newer record, the first of
two equally old ones, with the bookmarks of both. `ScopeRecord` drops the fields
a session is not about.

| Code | Actions |
|---|---|
| `send_scope`, `receive_scope` | `Open` |
| `snapshot` of initiator and acceptor | `ExportMine`, `ExportTheirs` |
| `synchronize` after its loop | `SendReading`, `ImportMine`, `Close` |
| `serve_commands`, `ReadingStart` | `ReceiveReading`, `ImportTheirs` |
| errors of KOReader, of a payload, of the connection | `BreakOff`, at any point |
| KOReader (external) | `Read`, `Restyle`, `Bookmark`, by its user, at any point; `Applied`, what an import makes of a record |

`edited` and `unseen` are history: the books a user changed since the snapshot
of the device, and since its last export. KOReader is not part of the
repository: an import is assumed to replace the fields it is given and the time.

`Agreed` says what two devices should end with without using the merge: what
the newer record says and all bookmarks of both. `Converged`: both have it when a
session is through, for every book nobody changed meanwhile and whose records
were not tied. Two provisos are needed, and the code has both: two records
with the same `updated_at` (also two without one, which count as 0) that say
different things are each kept by their own side, session after session; and a
record may lack a field, which then stays what it was on either side.
`NothingTakenBack`: no step of a session, also of one that breaks off between
the two imports, puts a device behind a time or a bookmark it had, unless its
user changed the book after the last export. The acceptor exports again before
it merges, so that its window is short; the initiator imports what it merged
from its first export, and its window is the whole session. Bookmarks that were
removed on one side come back, since the merge is a union; the property speaks
of what is lost and not of this.

### BookPublication

One book is a document and its sidecars (`Files` of them, five in the code) with
one part file, one rename and one row each. `placed` and `recorded` count how far
`publish_book` is, `undoing` says that it takes the files away again. A scan of a
session lists the directory while this goes on: `steady` is what was there
throughout, `glimpsed` what was there at some time, and a listing is anything in
between; it then decides under the lock of the catalog. `Tear` is the end of the
process at any point.

`ListedIsReadable`: the system's library shows what has metadata, so no metadata
may be there without its document, not even after a crash: the document has to
come first and go last. `AllOrNothing`: what a scan that begins after the end of
a publication tells the peer is the whole book or nothing of it, whatever rows a
failed publication left behind as live and whatever an earlier scan buried.

Three things the model shows that no property forbids. A process that dies in the
middle leaves a part of a book that nothing completes or removes, and scans tell
it like any other. A `sync_all` that fails at the very end is reported as a failed
upload though the book stays. A sidecar whose write fails leaves its part file
until the next start's sweep. On a receiving device files arrive in the order of
their paths, so for a while `ListedIsReadable` does not hold there; the module is
about the device that publishes.

### Application and Tablet

`at` is where the thread of `run` is: taking the launcher's commands, entering,
leaving (waiting for the server), joining (the session's thread), rotating,
opening, at the touches, or at the status. `serving` is what the connections of
the server are doing as far as somebody waits for it, `sync_worker` the thread of
`activate_sync`. `noted`, `shown` and `recent` are `last_snapshot`, the screen and
`last_status_paint` against the status.

| Code | Actions |
|---|---|
| commands | `EnterAgain`, `Enter`, `Leave`, `NoCommand` |
| `leave_foreground` | `StopToLeave`, `Background`, `Shutdown` |
| `rotate_server` | `StopToRotate`, `Entered`, `Rotated`, `StartFails` |
| touches | `NoTouch`, `PressRefresh`, `PressOther`, `PressSync` |
| end of a pass | `Poll`, `Reap`; `Tick` is the end of 250 ms |
| other threads | `Serve`, `Served`, `WorkerEnds`, `Progress` |
| launcher, system | `Send`, `Launch`, `Die` |

`Tablet` joins steps of the two modules where the code joins them: the upload of
a connection publishes a book (`Upload`, `Publish`, `Uploaded`), a session scans
(`Scan`, `Scanned`, `SessionOver`), a server that starts sweeps part files
(`Start`), an end of the process tears a publication (`End`, `Die`).

`BackgroundIsSilent`: an application that has answered the launcher and waits in
the background has nothing left that runs. `CommandsAnswered`: it answers, though
leaving waits for every connection and for the session. `StatusIsShown`: a status
that changes while the last paint is too recent is painted later. It has one
exception in the code: the status may change, be painted by a touch, and change
back to the one in `last_snapshot`; then the screen keeps the other until
something else changes. For the same reason a peer that is found within 250 ms of
a paint is painted only with the next change: `peers_changed` is computed once
(`app.rs:166`) and forgotten. Such a peer is in `peers`, so a press on the button
confirms a pairing whose code has not been on the screen (`app.rs:285-294`). This
is left at the level of choices here: `Poll` paints or not.

## Runs and bounds

| Run | Instance | Shows |
|---|---|---|
| `peer_sync_objects` | 2 devices, 2 objects, 2 contents, 2 edits, one time | `TypeOK`, `SessionAgrees`, `NoUnexpectedMessage`, `OnlyEditsMismatch` |
| `peer_sync_versions` | 2 devices, 1 object, 2 contents, 2 edits, 2 times | `VersionDeterminesObject`, `SyncNeverRegresses`, `ImplementsStore` |
| `peer_sync_liveness` | 2 devices, 1 object, 1 edit | `SessionEnds` under `FairSpec` |
| `device_store` | 2 contents of the same size, 3 writes | `TypeOK`, `OnlyRacesLose`, `ScanRepairs`, `TombstonedIsRecoverable` |
| `file_transfer` | 3 contents of 2 or 3 blocks, 2 blocks per message, 2 edits, 2 failures | `TypeOK`, `InstalledAsRecorded`, `OffsetsAgree`, `PartIsPrefix`, `Arrives` |
| `upload_service` | 1 page with 2 items of one piece, 1 stranger, 2 connections, 1 fault | `TypeOK`, `OneUpload`, `ConnectionsCounted`, `PartsAreLive`, `BackgroundIsQuiet`, `SavedIsWhole`, `OneRequest`, `CancelledStaysHome`, `StopFinishes`, `SlotGivenBack`, `EveryItemSettles` |
| `sync_status` | 2 objects, every pair of an older, newer, equal, deleted or missing record, 2 uploads | `TypeOK`, `ProgressIsReal`, `PlanIsTheWork`, `FailureNamesUpload` |
| `reading_exchange` | 2 devices, 1 book, 2 positions, 2 layouts, 1 bookmark, 2 times, 3 selections, 2 changes | `Converged`, `NothingTakenBack`, `FilesKeepTheirPlace` |
| `tablet` | 1 book of 2 files | `BackgroundIsSilent`, `ListedIsReadable`, `AllOrNothing`, `CommandsAnswered`, `StatusIsShown` |
| `peer_sync_tombstone`, `device_store_size`, `upload_batch` | the same instances, one property each | violated; see below |

The number of sessions is not bounded in any run. Two devices are all a session
involves. Two edits are the least for a conflict, for an edit under a session's
feet and for edit-and-back; two objects the least for a session broken off half
way. Several times are needed where modification times and clocks disagree, and
there one object will do; with a single time, counters and origins decide. Three
writes give `DeviceStore` an old file, its replacement and a third writer. Two
blocks per message and a file of three make a full and a short chunk, and a crash
may leave a part at any length. Two items, the connection of an aborted one
still at work beside that of the next, and a stranger exceed two connections; a
body of one piece can be complete, cut off before its end, or stopped; the one
fault of a behaviour is a stop, a crash or an error of the disk, at any point.
An error of `accept` is possible at any time beside it, once per server, so that
the run has the stop and the crash of a server that has left its loop. Requests,
cancellations and vanishing clients are no faults and not counted. Of records,
the status run has all that `winner` and the plan tell apart.
The reading run starts from every pair of records with and without each field, and
from none; books do not influence each other, so one is enough. The three selections are everything, the
default and the settings of documents alone, which give the three scopes that have
a reading state to exchange. Two files are a document and its metadata, which is all
that `ListedIsReadable` looks at and enough for a book in part; the proofs have any
number of books and files. Commands, touches, connections and deaths are not bounded there. Contents are symmetric in `PeerSync`; the
symmetry is used in runs without liveness properties.

Fairness. `PeerSync!Fairness`: a thread that can take a step of its session
does (the operating system runs the worker threads), a listening device answers
a call, and a read whose other end is gone fails, at the latest after the 60 s
of `transport::configure`. No fairness is assumed for users, failures or new
sessions. `FileTransfer!Fairness` adds that sessions are started as long as the
devices differ: that is up to the user, the code retries nothing by itself, and
`Arrives` means only that no number of attempts is in vain.

`UploadService!Fairness`: callbacks of the page and threads of the server run on,
a stopping server leaves its loop, `serve` comes to its end once its workers are gone,
and `stop` returns then. `accept` need not fail. Users, strangers, clients that vanish
and the system's faults are under no fairness; neither is the return to the
foreground. A worker in `receive_to_temp` whose client is silent has no step,
except that it looks at the stop flag.

`Tablet!Fairness`: the loop takes its next step when it can, and time passes
(`Tick`); a publication goes on and ends; a listing ends; a session ends, which
`SessionEnds` of `PeerSync` shows from its timeouts, and so does an upload that
waits for its client when the server stops (`StopFinishes` of `UploadService`).
Nothing is assumed of the launcher, the user or the clients. The bodies of uploads
are received in `UploadService`, so an upload begins here with its last byte.
`ReadingExchange` states no liveness.

`file_transfer` does not check for deadlock: with the file installed and the
edits used up nothing is left to do. Neither do `upload_service` and
`upload_batch`: a page whose queue is full and done, before a server whose
listener has failed, has nothing left to do. All other runs do.

## Where the code departs from its documents

- `TombstoneIsNewer` (`peer_sync_tombstone`). `catalog/tests.rs:32` asserts that
  a tombstone is newer than the file. For a file with a modification time ahead
  of the clock it is not (`catalog.rs:220`, `361`), and the peer restores it.
- `ScanCorrectsSize` (`device_store_size`). README.md:13 counts on sizes; a file
  changed between listing and hashing leaves a wrong size that no scan corrects
  (`catalog.rs:188`), and its transfers fail from then on.
- `BatchNotRefused` (`upload_batch`). README.md:3 promises uploads in batches.
  `upload` answers before it gives the slot back (`server/mod.rs:365`, `377`),
  and the page sends the next file on the answer: it can be refused with 409, and
  is not sent again.

Two more were met and have no run of their own, because a passing property has
the exact boundary. README.md:11 lets the newer version replace the older;
`commit` and `apply_tombstone` (`peer/storage.rs:147`, `183`) never look at the row
again, so a version recorded by an upload during a session gives way to the
older one the snapshots decided for. `SyncNeverRegresses` confines this to objects
edited on that device since its scan. The same line sends every replaced file to the trash;
one that appears between the move to the trash and the rename
(`peer/storage.rs:150`) is replaced without a copy. `OnlyRacesLose` confines this
to another writer in the middle of a publication.

README.md:15 says that KOReader is saved and closed before an exchange. Export
and import each release it when they are done (`peer/reading.rs:110`, `130`), so
its user may go on in between; `NothingTakenBack` says what this costs.

## What is proved

`PeerSyncProofs`. The order of versions is total, asymmetric and transitive
(`NewerTotal`, `NewerAsymmetric`, `NewerTransitive`), and the two ends of a
session choose the same record (`WinnerSymmetric`). For all constants that meet the named assumptions (devices are
numbers, keys are `1..Last`, `NoRecord`, `NoFile` and `Nobody` are none of the
values they stand beside): `TypeCorrect` (`Spec => []TypeOK`),
`OneObjectPerVersion` (`Spec => []VersionDeterminesObject`) and `Refinement`
(`Spec => ImplementsStore`).

The argument. `VersionDeterminesObject` is not inductive: a record may leave
every row and still be in a message. The invariant `IInv` says where records
come from. `Provenance`: every record in a catalog, snapshot, transfer or
message is in `issued`. `Stamps`: no issued record has a counter above the one
its origin's catalog has stored, and equal stamps are equal records; since
`next_version_in` raises the counter with every record, a new stamp is fresh.
`Phases`: a device that transfers has a record to transfer. Each group of
actions has a lemma that it keeps `IInv`; `IInvInductive` puts them together.
For the refinement, a step that changes the catalog either issues a record with
a fresh stamp or stores one from `item`, `theirs` or a message, which
`Provenance` makes an adoption; every other step stutters.

`SessionProofs` goes on from there, under the same assumptions, to the protocol:
`NeverOutOfStep`, `SessionsAgree`, `OnlyEditsBreakOff` (`Spec => []` of
`NoUnexpectedMessage`, `SessionAgrees`, `OnlyEditsMismatch`) and `NeverRegresses`
(`Spec => SyncNeverRegresses`). None of the four is inductive: each is about two ends
and the wires between them, and which messages are on a wire follows from where both
ends are. The invariant `SInv` has four parts.

- `Local(d)`, what one end knows by itself, with or without a peer. `Ends`: which
  role goes with which place. `Placed`: records stand at their own keys. `Scans`: what
  was scanned still describes the disk (`Told`), and what lies ahead in the own snapshot
  is still the row (`Kept`), both while the key is untouched. `Walks`: what is pulled
  or pushed is the winner where the walk is, and what an acceptor receives is newer than
  what it has (`Offer`).
- `Together`, where two connected ends can be: fifteen places of the pair
  (`FirstScan` to `Confirmed`), each with the messages in flight and what the two items
  have to do with each other. In all that follow the snapshots, `Walk` holds: behind
  the walk the two have the same row, ahead of it the acceptor has what it announced.
- `Left`, an end whose peer has gone works on with the rest of its inbox: at most one
  message, or "Applied" and the next command. Its peer may be in a session with
  somebody else by then, or open a new one with the same device.
- `OneInitiator`, of two that name each other one is the initiator.

Nothing is assumed of users: whoever writes a file touches the key, and every clause
about rows and files has `Untouched` for its condition. A step of one device is checked
against its own `Local`, its pair, and the frame of everybody else (`StayFrame`,
`LeaveFrame`). With `SInv` the four properties are short; for `NeverRegresses`, an
adopted record is an `Offer`, and a record just issued adopts nothing.

`StoreProofs`, for any contents, times, writes, failures and crashes of one object:
`StoreTyping` (`Spec => []TypeOK`), `OnlyRacesEverLose` (`Spec => []OnlyRacesLose`),
`TombstonesAreRecoverable` (`Spec => TombstonedIsRecoverable`) and `ScansRepair`
(`Spec => ScanRepairs`). The invariant says whose file is at the path between two
system calls of a thread unless somebody raced (`Own`: none before the rename, so that it
overwrites nothing; the thread's own after it, so that a rollback removes nothing
else), that no two files share a modification time (`Dated`), so that a row or a stat
that agrees with a file in its time names its content (`Told`), and where the content of
a live row is (`Accounted`).

`UploadProofs`, for any number of pages, items, connections and pieces
(assumed: strangers are no uploads, bounds are numbers): `AtMostOneUpload`
(`Spec => []OneUpload`) and `SavedUploadsAreWhole` (`Spec => []SavedIsWhole`).
Neither is inductive. `Unsent`: an item that waits has a connection no worker
has touched, so that a page's step cannot disturb the worker that holds the slot.
`Resting`: a listener is gone only where all workers are, and a server starts only
where the listener of the one before is gone, so that a start frees nobody's slot; for
this `serve` has to join its workers, and `stop` has to join `serve`. `Complete`: a
worker publishes only what it has to the end. `Promised`: who says "saved" has
published. The proof abstracts the steps of a page (`Turn`), of a connection
(`Work`) and of the application, shows that each keeps the invariant, and that
each action is one of them.

A second invariant, beside the first, carries the rest: `WorkersCounted`,
`PartsHaveWorkers`, `BackgroundIsAlwaysQuiet`, `OneRequestAPage`, `ServiceTyping`
(`Spec => []` of `ConnectionsCounted`, `PartsAreLive`, `BackgroundIsQuiet`, `OneRequest`,
`TypeOK`) and `CancelledNeverSent` (`Spec => CancelledStaysHome`). Each part of `Service`
is inductive beside `IInv`: that the workers are finitely many and `active` is their
number (`Counted`), that counters keep within their limits (`Bounded`), that the part files
are those of the workers that write or publish, and that a page awaits what it sends
(`OneOf`). A page's step is a `Turn`, which touches no worker; `run()` sends an item
only where nothing else is on its way (`ContinueOne`) and only if it is not cancelled
(`ContinueHome`).

`ReadingProofs`, for any devices, books, positions, layouts, bookmarks, times and
selections (assumed: times are integers, an absent field or record is none of the
values it stands beside): `ReadingConverges` (`Spec => []Converged`),
`ReadingNotTakenBack` (`Spec => NothingTakenBack`), `FilesAlwaysKeepTheirPlace`
(`Spec => []FilesKeepTheirPlace`, by the five tables of kinds, one item at a time) and
`ReadingTyping`. The first two rest
on the algebra of a merge: it is commutative unless tied (`MergeCommutes`), absorbs
itself (`MergeAbsorbs`), keeps within a scope (`ScopeMerge`), goes back behind
neither argument (`MergeKeeps`); and an import of it by one of the two sides leaves
what was to be agreed on (`AppliedAgreed`). The invariant `IInv` follows a session:
`Snapshots` says that a device still has what it exported, except for what its user
changed since; `Decided` says what was merged from which snapshot, and that what the
acceptor will import is, for an untouched book, `merge(merge(theirs, mine), merge(mine,
theirs))`, which `MergeAbsorbs` reduces to the one the initiator sent.

`TabletProofs`, for any number of books and of files of a book (at least two):
`ListedIsReadableAlways`, `AllOrNothingAlways` and `BackgroundIsSilentAlways`. For
the book, `BookInv` says which files are in the library at each point of a
publication (a prefix of the order they are published in, since they are removed in
reverse), and of a listing that is under way that a book settled before it began is
in `steady` with all of its files, or has none in `glimpsed`. For the application, `TabletInv` orders the
loop: where it can be when something runs (`Order`), and that a book is open only
while an upload is served, a listing only while a session is (`Owned`). This is
where the two joins of `leave_foreground` are needed.

`FileProofs`, for any contents, chunk size, number of edits and of failures (assumed:
contents are sequences of blocks, `NoContent` is none, a chunk has at least one block):
`TransferTyping`, `OffsetsAlwaysAgree`, `PartsAreAlwaysPrefixes` and
`AlwaysInstalledAsRecorded` (`Spec => []` of `TypeOK`, `OffsetsAgree`, `PartIsPrefix`,
`InstalledAsRecorded`). The first three need what the two ends are to each other.
`Conversation`: while both are in the session at most one message is between them, and
the places of both determine which, so that an acknowledgement counts what the sender
has sent. `Honest`: the open file, the chunk under way and the part file belong to the
content the record was scanned with, until an edit spoils the version. `Latest`: a
version is offered with one content only, since a later scan of another content takes a
version under whose name no part file waits.

`StatusProofs`, for any number of objects, any snapshots, pieces and uploads (assumed:
keys are `1..Last`, sizes and pieces are numbers, snapshots consist of records, `NoSync`
is no set of totals): `StatusTyping`, `ProgressAlwaysReal`, `PlanAlwaysTheWork`
(`Spec => []` of `TypeOK`, `ProgressIsReal`, `PlanIsTheWork`) and `FailuresNameUpload`
(`Spec => FailureNamesUpload`). The plan and the work are recursive functions over the
keys. That they exist, and what they compute, rests on an induction along an interval
stated with a set instead of a predicate (`IntervalInduction`), which follows from
`WFMin`: a set of counterexamples would have a least member. From it come
`RecursionExists`, the sums (`SumsTyped`, `SumsGrow`, `TotalOfOneMore`) and counts
(`CountUpTo`), and by them `PlanExact`: whatever the two snapshots and in either role,
`plan.rs` announces as many operations and as many bytes as the session's work has. It
needs that the two ends choose the same record (`WinnerMirrors`), and that the plan and
the loop treat each object alike (`WorkAsPlanned`).

The properties are not inductive. `Shown` says what every field is as long as the
session has the status to itself: `base` is the sum of the operations that are through,
and the bytes shown are that sum and the offset in the file under way, which the cap of
`progress` and `sync_file_done` never cuts, since the sums grow towards the total. For
that, `Doing` keeps a file under way within its length. `Own` says the same of an
upload: its name is in the status until somebody else writes.

Only model-checked: liveness (`SessionEnds`, `Arrives`, `StopFinishes`, `SlotGivenBack`,
`EveryItemSettles`, `CommandsAnswered`, `StatusIsShown`), which needs `ENABLED` and
fairness. The three runs that expect a violation are refuted by TLC's traces.

## Not modelled

- The trust table, key material, announcements and the Noise handshake
  (`peer/discovery.rs`, `catalog/identity.rs`, `peer/noise.rs`): cryptography and
  mDNS are libraries, and a peer is trusted once, by a press of the button.
- The settings file of the selection (`sync_scope.rs`): it is replaced by a rename
  that is not synced, and a file that cannot be read is taken for the defaults, so
  that a crash can bring items back that were unticked. A selection is any here.
- Formats of books and images, HTTP parsing, names of files, labels: data. What
  they accept or refuse is a choice of the models.
- The pruning of the trash, its buckets (named by the millisecond) and part files of
  versions nobody transfers again, which `cleanup_parts` does not know
  (`peer/storage.rs:236`): `DeviceStore` has the trash as a set, `FileTransfer` keeps
  the part files, and no document says that they go.
- An edit of equal size within the millisecond of a row's time, which a scan does not
  hash (`catalog.rs:179`): the cache is meant so; times are unique in `DeviceStore`.
- The control socket (`peer/control.rs`): one request and one answer.
- The screen, the addresses of interfaces, packaging: drawing, input and scripts.

## Plan

Done so far: the session protocol, the store of one object, transfers, the upload
service with the page, the status, the reading state, native books and the
application. What is left, in order:

1. Peers that are found, trusted and lost as state of `Application`, with what the
   screen shows of the first of them when the button is pressed.
2. The trash with its buckets and its pruning, beside the rollbacks of `DeviceStore`.
