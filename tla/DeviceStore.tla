----------------------------- MODULE DeviceStore -----------------------------
(***************************************************************************)
(* One object on one device and everybody who works on it at once: the     *)
(* sync thread (catalog.rs scans, peer/storage.rs commits and tombstones), *)
(* the upload thread of the web server (upload/mod.rs) and the user.       *)
(*                                                                         *)
(* File system and catalog are not updated together, so every system call  *)
(* and every catalog transaction is a step of its own.  A step may fail    *)
(* and be rolled back, and the process may die between any two of them.    *)
(*                                                                         *)
(* Abstractions.  The version of a row belongs to PeerSync and is left     *)
(* out.  Every write of a file gets a modification time of its own, and    *)
(* the trash never prunes: retention is 30 days.                           *)
(***************************************************************************)
EXTENDS Integers

CONSTANTS Content,     \* what a file can hold, equal to its hash
          Size,        \* the size of each content
          NoFile, NoRow, Nothing,
          MaxNow       \* bound on the number of writes

ASSUME SizeAssumption == Size \in [Content -> Nat]
ASSUME MaxNowAssumption == MaxNow \in Nat

Thread == {"sync", "upload"}
File == [content : Content, mtime : Nat]
Stat == [size : Nat, mtime : Nat, hash : Content \cup {Nothing}, torn : BOOLEAN]
Row == [size : Nat, hash : Content, mtime : Nat, deleted : BOOLEAN]

ASSUME NothingAssumption ==
  NoFile \notin File /\ NoRow \notin Row /\ Nothing \notin File \cup Stat \cup Content

VARIABLES
  file,         \* the file at the path of the object, or NoFile
  trash,        \* the files moved to the trash
  row,          \* the row of the object in the catalog, or NoRow
  pc,           \* where each thread is
  work,         \* the content a thread is publishing
  moved,        \* what the thread moved to the trash before, or Nothing
  stat,         \* metadata a thread has read and will use
  now,          \* time of the last write
  lost,         \* history: files replaced or removed with no copy in the trash
  withdrawn,    \* history: contents the user removed or wrote over, or a
                \* failed publication took back
  raced,        \* history: somebody wrote while a thread was publishing
  torn          \* history: the row has the time of one file, the hash of another

threads == <<pc, work, moved, stat>>
seen == <<lost, withdrawn, raced>>
history == <<seen, torn>>
vars == <<file, trash, row, pc, work, moved, stat, now, lost, withdrawn, raced, torn>>

Init ==
  /\ file = NoFile
  /\ trash = {}
  /\ row = NoRow
  /\ pc = [t \in Thread |-> "idle"]
  /\ work = [t \in Thread |-> Nothing]
  /\ moved = [t \in Thread |-> Nothing]
  /\ stat = [t \in Thread |-> Nothing]
  /\ now = 0
  /\ lost = {}
  /\ withdrawn = {}
  /\ raced = FALSE
  /\ torn = FALSE

LiveRow == row # NoRow /\ ~row.deleted

StatOf(f) == [size |-> Size[f.content], mtime |-> f.mtime, hash |-> Nothing,
              torn |-> FALSE]

Goto(t, state) == pc' = [pc EXCEPT ![t] = state]

Finish(t) ==
  /\ Goto(t, "idle")
  /\ work' = [work EXCEPT ![t] = Nothing]
  /\ moved' = [moved EXCEPT ![t] = Nothing]
  /\ stat' = [stat EXCEPT ![t] = Nothing]

\* The thread has taken the old file away and may still roll back.
Publishing(t) == pc[t] \in {"renaming", "chmod", "stating", "hashing", "storing"}

\* Somebody other than t changes the file while a publication is under way.
Race(t) == raced' = (raced \/ \E u \in Thread \ {t} : Publishing(u))

Contents(files) == {f.content : f \in files}

\* What a thread takes from the path without having moved it to the trash.
Lose(t) ==
  lost' = IF file # NoFile /\ file.content \notin Contents(trash) \cup {work[t]}
            THEN lost \cup {file} ELSE lost
-----------------------------------------------------------------------------
(* The user and other applications. *)

Remember == withdrawn' = IF file = NoFile THEN withdrawn
                                            ELSE withdrawn \cup {file.content}

UserWrite(c) ==
  /\ now < MaxNow
  /\ now' = now + 1
  /\ file' = [content |-> c, mtime |-> now + 1]
  /\ Remember
  /\ Race("user")
  /\ UNCHANGED <<trash, row, threads, lost, torn>>

UserDelete ==
  /\ file # NoFile
  /\ file' = NoFile
  /\ Remember
  /\ Race("user")
  /\ UNCHANGED <<trash, row, threads, now, lost, torn>>
-----------------------------------------------------------------------------
(* scan_filtered: the directory is listed before the catalog is locked. *)

CollectFiles ==
  /\ pc["sync"] = "idle"
  /\ Goto("sync", "collected")
  /\ stat' = [stat EXCEPT !["sync"] = IF file = NoFile THEN Nothing ELSE StatOf(file)]
  /\ UNCHANGED <<file, trash, row, work, moved, now, history>>

Listed == stat["sync"]

\* Fault: the row is compared by size alone.
UnchangedBySize == LiveRow /\ row.size = Listed.size

Unchanged == LiveRow /\ row.size = Listed.size /\ row.mtime = Listed.mtime

EndScan ==
  /\ pc["sync"] = "collected"
  /\ Finish("sync")
  /\ UNCHANGED <<file, trash, now, seen>>

\* The file was listed and its row needs no reading of the file.
ScanSkips ==
  /\ EndScan
  /\ IF Listed = Nothing THEN ~LiveRow ELSE Unchanged
  /\ UNCHANGED <<row, torn>>

\* The file was listed and is hashed as it is by now; gone, the scan fails.
ScanHashes ==
  /\ EndScan
  /\ Listed # Nothing
  /\ ~Unchanged
  /\ IF file = NoFile
       THEN UNCHANGED <<row, torn>>
       ELSE /\ row' = IF LiveRow /\ row.hash = file.content
                        THEN [row EXCEPT !.mtime = Listed.mtime]
                        ELSE [size |-> Listed.size, hash |-> file.content,
                              mtime |-> Listed.mtime, deleted |-> FALSE]
            /\ torn' = (Listed.mtime # file.mtime)

\* The file was not listed and its row is live.
ScanBuries ==
  /\ EndScan
  /\ Listed = Nothing
  /\ LiveRow
  /\ row' = [row EXCEPT !.deleted = TRUE, !.mtime = 0]
  /\ UNCHANGED torn
-----------------------------------------------------------------------------
(* Publishing a file: PeerStorage::commit and publish_replacing. *)

\* A verified part file of the sync thread, or a validated upload, is at hand.
Begin(t, c) ==
  /\ pc[t] = "idle"
  /\ Goto(t, "moving")
  /\ work' = [work EXCEPT ![t] = c]
  /\ UNCHANGED <<file, trash, row, moved, stat, now, history>>

\* trash.move_existing takes what is there, if anything.
TakeAway(t) ==
  IF file = NoFile
    THEN UNCHANGED <<file, trash, moved, raced>>
    ELSE /\ trash' = trash \cup {file}
         /\ moved' = [moved EXCEPT ![t] = file]
         /\ file' = NoFile
         /\ Race(t)

\* Fault: the old file is removed instead.
MoveExistingRemoving(t) ==
  /\ pc[t] = "moving"
  /\ file' = NoFile
  /\ Lose(t)
  /\ Goto(t, "renaming")
  /\ UNCHANGED <<trash, row, work, moved, stat, now, withdrawn, raced, torn>>

MoveExisting(t) ==
  /\ pc[t] = "moving"
  /\ TakeAway(t)
  /\ Goto(t, "renaming")
  /\ UNCHANGED <<row, work, stat, now, lost, withdrawn, torn>>

Rename(t) ==
  /\ pc[t] = "renaming"
  /\ now < MaxNow
  /\ now' = now + 1
  /\ file' = [content |-> work[t], mtime |-> now + 1]
  /\ Lose(t)
  /\ Race(t)
  /\ Goto(t, IF t = "sync" THEN "chmod" ELSE "stating")
  /\ UNCHANGED <<trash, row, work, moved, stat, withdrawn, torn>>

\* remove_file, then trash.restore, which never writes over a file.
Undo(t) ==
  /\ Lose(t)
  /\ IF moved[t] # Nothing /\ moved[t] \in trash
       THEN file' = moved[t] /\ trash' = trash \ {moved[t]}
       ELSE file' = NoFile /\ UNCHANGED trash
  /\ Race(t)
  /\ withdrawn' = withdrawn \cup {work[t]}
  /\ Finish(t)
  /\ UNCHANGED <<row, now, torn>>

\* The rename failed: nothing of the thread is at the path yet.
RenameFails(t) ==
  /\ pc[t] = "renaming"
  /\ IF file = NoFile
       THEN Undo(t)
       ELSE Finish(t) /\ UNCHANGED <<file, trash, row, now, history>>

SetMode ==
  /\ pc["sync"] = "chmod"
  /\ file # NoFile
  /\ Goto("sync", "storing")
  /\ UNCHANGED <<file, trash, row, work, moved, stat, now, history>>

\* Fault: the file is recorded without its hash.
RecordWithoutHash ==
  /\ pc["upload"] = "stating"
  /\ file # NoFile
  /\ stat' = [stat EXCEPT !["upload"] = StatOf(file)]
  /\ Goto("upload", "storing")
  /\ UNCHANGED <<file, trash, row, work, moved, now, history>>

\* record_local_file: metadata first, then the hash of what is there by then.
ReadMetadata ==
  /\ pc["upload"] = "stating"
  /\ file # NoFile
  /\ stat' = [stat EXCEPT !["upload"] = StatOf(file)]
  /\ Goto("upload", "hashing")
  /\ UNCHANGED <<file, trash, row, work, moved, now, history>>

ReadHash ==
  /\ pc["upload"] = "hashing"
  /\ file # NoFile
  /\ stat' = [stat EXCEPT !["upload"].hash = file.content,
                          !["upload"].torn = stat["upload"].mtime # file.mtime]
  /\ Goto("upload", "storing")
  /\ UNCHANGED <<file, trash, row, work, moved, now, history>>

\* The modification time stored is that of the file at the path by then.
StoreReceived ==
  /\ pc["sync"] = "storing"
  /\ file # NoFile
  /\ row' = [size |-> Size[work["sync"]], hash |-> work["sync"],
             mtime |-> file.mtime, deleted |-> FALSE]
  /\ torn' = (file.content # work["sync"])
  /\ Finish("sync")
  /\ UNCHANGED <<file, trash, now, seen>>

\* modified_ms fails: commit returns at once and rolls nothing back.
StatFails ==
  /\ pc["sync"] = "storing"
  /\ file = NoFile
  /\ Finish("sync")
  /\ UNCHANGED <<file, trash, row, now, history>>

StoreUploaded ==
  /\ pc["upload"] = "storing"
  /\ row' = [size |-> stat["upload"].size, hash |-> stat["upload"].hash,
             mtime |-> stat["upload"].mtime, deleted |-> FALSE]
  /\ torn' = stat["upload"].torn
  /\ Finish("upload")
  /\ UNCHANGED <<file, trash, now, seen>>

\* set_file_mode, the catalog or a read of the published file fails.
PublishFails(t) ==
  /\ pc[t] \in {"chmod", "stating", "hashing", "storing"}
  /\ ~(pc[t] = "storing" /\ t = "sync" /\ file = NoFile)
  /\ Undo(t)
-----------------------------------------------------------------------------
(* apply_tombstone *)

BeginTombstone(c) ==
  /\ pc["sync"] = "idle"
  /\ Goto("sync", "burying")
  /\ work' = [work EXCEPT !["sync"] = c]
  /\ UNCHANGED <<file, trash, row, moved, stat, now, history>>

\* Fault: a tombstone removes the file.
BuryRemoving ==
  /\ pc["sync"] = "burying"
  /\ file' = NoFile
  /\ Goto("sync", "entombing")
  /\ UNCHANGED <<trash, moved, raced, row, work, stat, now, lost, withdrawn, torn>>

Bury ==
  /\ pc["sync"] = "burying"
  /\ TakeAway("sync")
  /\ Goto("sync", "entombing")
  /\ UNCHANGED <<row, work, stat, now, lost, withdrawn, torn>>

\* The row of the tombstone is stored, or storing it fails and the file stays
\* in the trash.
Entomb ==
  /\ pc["sync"] = "entombing"
  /\ \/ row' = [size |-> Size[work["sync"]], hash |-> work["sync"], mtime |-> 0,
                deleted |-> TRUE]
     \/ UNCHANGED row
  /\ Finish("sync")
  /\ UNCHANGED <<file, trash, now, history>>
-----------------------------------------------------------------------------
\* The process dies: files, trash and catalog stay.
Crash ==
  /\ \E t \in Thread : pc[t] # "idle"
  /\ pc' = [t \in Thread |-> "idle"]
  /\ work' = [t \in Thread |-> Nothing]
  /\ moved' = [t \in Thread |-> Nothing]
  /\ stat' = [t \in Thread |-> Nothing]
  /\ UNCHANGED <<file, trash, row, now, history>>

UserStep == UserDelete \/ \E c \in Content : UserWrite(c)

ScanStep == CollectFiles \/ ScanSkips \/ ScanHashes \/ ScanBuries

PublishStep(t) ==
  \/ \E c \in Content : Begin(t, c)
  \/ MoveExisting(t)
  \/ Rename(t)
  \/ RenameFails(t)
  \/ PublishFails(t)

SyncStep ==
  \/ PublishStep("sync")
  \/ SetMode
  \/ StoreReceived
  \/ StatFails
  \/ \E c \in Content : BeginTombstone(c)
  \/ Bury
  \/ Entomb

UploadStep ==
  \/ PublishStep("upload")
  \/ ReadMetadata
  \/ ReadHash
  \/ StoreUploaded

Next == UserStep \/ ScanStep \/ SyncStep \/ UploadStep \/ Crash

Spec == Init /\ [][Next]_vars
-----------------------------------------------------------------------------
(* Properties. *)

TypeOK ==
  /\ file \in File \cup {NoFile}
  /\ trash \subseteq File
  /\ row \in Row \cup {NoRow}
  /\ pc \in [Thread -> {"idle", "collected", "moving", "renaming", "chmod", "stating",
                        "hashing", "storing", "burying", "entombing"}]
  /\ work \in [Thread -> Content \cup {Nothing}]
  /\ moved \in [Thread -> File \cup {Nothing}]
  /\ stat \in [Thread -> Stat \cup {Nothing}]
  /\ now \in Nat
  /\ lost \subseteq File
  /\ withdrawn \subseteq Content
  /\ raced \in BOOLEAN
  /\ torn \in BOOLEAN

\* Whatever fails, is rolled back or dies half way, a file that a sync or an
\* upload replaces is in the trash or back at its path, as long as nobody else
\* writes the object while it is being published.
OnlyRacesLose == lost # {} => raced

\* A scan that sees the file as it is brings the row in line with it, whatever
\* crash or failed rollback came before, unless the row combines the metadata of
\* one file with the hash of another: when the first of the two comes back by a
\* rollback, its size and time match and it is never hashed again.
Quiet == Listed = IF file = NoFile THEN Nothing ELSE StatOf(file)

ScanRepairs ==
  [][Quiet /\ ~torn /\ (ScanSkips \/ ScanHashes \/ ScanBuries) =>
       IF file = NoFile THEN row' = NoRow \/ row'.deleted
                        ELSE row' # NoRow /\ ~row'.deleted /\ row'.hash = file.content]_vars

\* The size announced for a file is its size, as the totals shown before a
\* session need it (README.md:13), once a scan sees the file as it is.
ScanCorrectsSize ==
  [][(ScanSkips \/ ScanHashes) /\ Quiet /\ file # NoFile =>
       row'.size = Size[file.content]]_vars

\* A scan declares an object deleted only when its content can be had again or
\* somebody wanted it gone: a crash in a publication makes a tombstone appear,
\* but what it buries is in the trash or still at its path.
TombstonedIsRecoverable ==
  [][ScanBuries =>
       \/ row.hash \in Contents(trash) \cup withdrawn
       \/ file # NoFile
       \/ raced]_vars
=============================================================================
