--------------------------- MODULE BookPublication ---------------------------
(***************************************************************************)
(* A book in the native library (upload/xochitl.rs): a document and its    *)
(* sidecars under one uuid, each file put in place by a rename of its own, *)
(* then recorded in the catalog one by one, and removed again in reverse   *)
(* when a step fails; and the scan of a session (catalog.rs), which lists  *)
(* the directory while that goes on and decides under the catalog's lock.  *)
(*                                                                         *)
(* Abstractions.  One book at a time (the upload slot, UploadService) and  *)
(* one scan at a time (the flag of PeerRuntime, PeerSync).  A uuid is not  *)
(* drawn twice.  Nobody else writes to the files of a new book, and a file *)
(* that was put in place can be removed.  The entries of a directory are   *)
(* read in any order: a listing has what was there throughout, nothing     *)
(* that never was, and any of the rest.  A power failure keeps the order   *)
(* of the renames.                                                         *)
(***************************************************************************)
EXTENDS Naturals

CONSTANTS Book,    \* uuids
          Files    \* files of a book, five in the code

ASSUME FilesAssumption == Files \in Nat /\ Files >= 2

VARIABLES
  fate,       \* per book: "new", "open", "kept", "undone", "torn"
  placed,     \* of the open book, the files put in place: published
  recorded,   \* of the open book, the files recorded
  undoing,    \* whether the open book is being removed again
  library,    \* files in the library
  parts,      \* part files of uploads
  rows,       \* per file, its row: "none", "live", "deleted"
  scanning,   \* the scan of a session: "no", "listing", "done"
  steady,     \* files in the library since the scan began
  glimpsed,   \* files in the library at some time since then
  settled,    \* history: books kept or undone when the scan began
  told        \* files a finished scan told the peer

publication == <<fate, placed, recorded, undoing, parts>>
scan == <<scanning, settled, told>>
bookVars == <<publication, library, rows, scan, steady, glimpsed>>

\* SIDECARS follow the document in this order.
File == 1..Files
document == 1
metadata == 2

BookInit ==
  /\ fate = [b \in Book |-> "new"]
  /\ placed = 0 /\ recorded = 0 /\ undoing = FALSE
  /\ library = {} /\ parts = {}
  /\ rows = [k \in Book \X File |-> "none"]
  /\ scanning = "no" /\ settled = {} /\ told = {}
  /\ steady = {} /\ glimpsed = {}

Publishing == \E b \in Book : fate[b] = "open"

\* The library becomes files, before the eyes of a scan.
Library(files) ==
  /\ library' = files
  /\ steady' = steady \cap files
  /\ glimpsed' = IF scanning = "listing" THEN glimpsed \cup files ELSE {}

Close(b, end) ==
  /\ fate' = [fate EXCEPT ![b] = end]
  /\ placed' = 0 /\ recorded' = 0 /\ undoing' = FALSE
-----------------------------------------------------------------------------
(* publish_book. *)

\* receive() has the body in a part file and has validated it.
Receive(b) ==
  /\ ~Publishing /\ fate[b] = "new"
  /\ fate' = [fate EXCEPT ![b] = "open"]
  /\ parts' = parts \cup {<<b, document>>}
  /\ UNCHANGED <<placed, recorded, undoing, library, rows, scan, steady, glimpsed>>

Working(b) == fate[b] = "open" /\ ~undoing

\* write_atomic: the part file of the next sidecar.
Write(b) ==
  /\ Working(b) /\ placed \in 1..(Files - 1)
  /\ <<b, placed + 1>> \notin parts
  /\ parts' = parts \cup {<<b, placed + 1>>}
  /\ UNCHANGED <<fate, placed, recorded, undoing, library, rows, scan, steady, glimpsed>>

\* The rename of the document, and of a sidecar.
PutInPlace(b) ==
  /\ Working(b) /\ placed < Files
  /\ <<b, placed + 1>> \in parts
  /\ placed' = placed + 1
  /\ parts' = parts \ {<<b, placed + 1>>}
  /\ Library(library \cup {<<b, placed + 1>>})
  /\ UNCHANGED <<fate, recorded, undoing, rows, scan>>

\* record_all.
Record(b) ==
  /\ Working(b) /\ placed = Files /\ recorded < Files
  /\ recorded' = recorded + 1
  /\ rows' = [rows EXCEPT ![<<b, recorded + 1>>] = "live"]
  /\ UNCHANGED <<fate, placed, undoing, parts, library, scan, steady, glimpsed>>

\* The book stays, even if the last sync_all fails and the page is told so.
Keep(b) ==
  /\ Working(b) /\ recorded = Files
  /\ Close(b, "kept")
  /\ UNCHANGED <<parts, library, rows, scan, steady, glimpsed>>

\* No uuid, or the rename of the document fails: receive() removes the part.
Refuse(b) ==
  /\ Working(b) /\ placed = 0
  /\ Close(b, "undone")
  /\ parts' = parts \ {<<b, document>>}
  /\ UNCHANGED <<library, rows, scan, steady, glimpsed>>

\* Fault: the error is returned as it comes.
FailAtOnce(b) ==
  /\ Working(b) /\ placed >= 1 /\ recorded < Files
  /\ Close(b, "undone")
  /\ UNCHANGED <<parts, library, rows, scan, steady, glimpsed>>

\* A sidecar is not written, not renamed (its part file stays) or not recorded.
Fail(b) ==
  /\ Working(b) /\ placed >= 1 /\ recorded < Files
  /\ undoing' = TRUE
  /\ UNCHANGED <<fate, placed, recorded, parts, library, rows, scan, steady, glimpsed>>

\* Fault: the files are removed in the order they were published in.
RemoveForward(b) ==
  /\ fate[b] = "open" /\ undoing /\ placed > 1
  /\ placed' = placed - 1
  /\ \E f \in File :
       /\ <<b, f>> \in library
       /\ \A g \in 1..(f - 1) : <<b, g>> \notin library
       /\ Library(library \ {<<b, f>>})
  /\ UNCHANGED <<fate, recorded, undoing, parts, rows, scan>>

\* published.iter().rev(): the file published last goes first,
Remove(b) ==
  /\ fate[b] = "open" /\ undoing /\ placed > 1
  /\ placed' = placed - 1
  /\ Library(library \ {<<b, placed>>})
  /\ UNCHANGED <<fate, recorded, undoing, parts, rows, scan>>

\* and the document last.
RemoveDocument(b) ==
  /\ fate[b] = "open" /\ undoing /\ placed = 1
  /\ Close(b, "undone")
  /\ Library(library \ {<<b, document>>})
  /\ UNCHANGED <<parts, rows, scan>>
-----------------------------------------------------------------------------
(* scan_filtered. *)

ScanBegin ==
  /\ scanning = "no"
  /\ scanning' = "listing"
  /\ steady' = library /\ glimpsed' = library
  /\ settled' = {b \in Book : fate[b] \in {"kept", "undone"}}
  /\ UNCHANGED <<publication, library, rows, told>>

ScanEnd == scanning' = "done" /\ steady' = {} /\ glimpsed' = {}

Live(r) == {k \in Book \X File : r[k] = "live"}

\* Files listed are live, rows of others are tombstones.  A file without a
\* live row is hashed, so it has to be there still.
ScanCommit ==
  /\ scanning = "listing"
  /\ \E listed \in SUBSET glimpsed :
       /\ steady \subseteq listed
       /\ listed \ Live(rows) \subseteq library
       /\ rows' = [k \in Book \X File |->
                     IF k \in listed THEN "live"
                     ELSE IF rows[k] = "live" THEN "deleted"
                     ELSE rows[k]]
       /\ told' = Live(rows')
  /\ ScanEnd
  /\ UNCHANGED <<publication, library, settled>>

\* A listed file has gone, or the catalog fails: nothing is changed.
ScanFail ==
  /\ scanning = "listing"
  /\ ScanEnd
  /\ settled' = {}
  /\ UNCHANGED <<publication, library, rows, told>>

\* The session is over.
Forget ==
  /\ scanning # "listing"
  /\ scanning' = "no" /\ settled' = {} /\ told' = {}
  /\ UNCHANGED <<publication, library, rows, steady, glimpsed>>
-----------------------------------------------------------------------------
\* cleanup_parts, when a server is about to start.
Sweep ==
  /\ parts' = {}
  /\ UNCHANGED <<fate, placed, recorded, undoing, library, rows, scan, steady, glimpsed>>

\* The process ends: files and rows stay as they are, and nothing takes up
\* what was under way.
Tear ==
  /\ fate' = [b \in Book |-> IF fate[b] = "open" THEN "torn" ELSE fate[b]]
  /\ placed' = 0 /\ recorded' = 0 /\ undoing' = FALSE
  /\ scanning' = "no" /\ settled' = {} /\ told' = {} /\ steady' = {} /\ glimpsed' = {}
  /\ UNCHANGED <<parts, library, rows>>

PublicationStep ==
  \E b \in Book : Write(b) \/ PutInPlace(b) \/ Record(b) \/ Fail(b) \/ Remove(b)

\* The publication is over.
PublicationEnd ==
  \E b \in Book : Keep(b) \/ Refuse(b) \/ RemoveDocument(b)
-----------------------------------------------------------------------------
(* Properties. *)

BookTypeOK ==
  /\ fate \in [Book -> {"new", "open", "kept", "undone", "torn"}]
  /\ placed \in 0..Files /\ recorded \in 0..Files
  /\ undoing \in BOOLEAN
  /\ library \subseteq Book \X File /\ parts \subseteq Book \X File
  /\ rows \in [Book \X File -> {"none", "live", "deleted"}]
  /\ scanning \in {"no", "listing", "done"}
  /\ steady \subseteq Book \X File /\ glimpsed \subseteq Book \X File
  /\ settled \subseteq Book /\ told \subseteq Book \X File

\* At every moment, and after a process that died at any moment, the system's
\* library shows no book without its document: it shows what has metadata.
ListedIsReadable ==
  \A b \in Book : <<b, metadata>> \in library => <<b, document>> \in library

\* A scan that begins when a book is kept or undone tells the peer all of its
\* files or none, whatever was recorded, listed or buried before, and while
\* the next book is on its way.
AllOrNothing ==
  \A b \in settled : scanning = "done" =>
    {f \in File : <<b, f>> \in told} = (IF fate[b] = "kept" THEN File ELSE {})
=============================================================================
