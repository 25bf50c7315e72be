---------------------------- MODULE TabletProofs ----------------------------
(***************************************************************************)
(* Proofs about Tablet: the native library is published to the system and  *)
(* to the peer book by book, and the background is silent, for any books   *)
(* and any number of files of a book.                                      *)
(***************************************************************************)
EXTENDS Tablet, TLAPS

(* The steps of BookPublication, as Tablet takes them. *)
BookNext ==
  \/ \E b \in Book :
       \/ Receive(b) \/ Write(b) \/ PutInPlace(b) \/ Record(b) \/ Keep(b)
       \/ Refuse(b) \/ Fail(b) \/ Remove(b) \/ RemoveDocument(b)
  \/ ScanBegin \/ ScanCommit \/ ScanFail \/ Forget
  \/ Sweep \/ Tear

\* One book at a time is under way, which is why one count of files will do.
OneOpen ==
  /\ \A b, c \in Book : fate[b] = "open" /\ fate[c] = "open" => b = c
  /\ ~Publishing => placed = 0 /\ recorded = 0
  /\ ~undoing /\ recorded > 0 => placed = Files

\* What the library has of a book, by what has become of it.
Shelf(b) ==
  /\ fate[b] \in {"new", "undone"} => \A f \in File : <<b, f>> \notin library
  /\ fate[b] = "open" => \A f \in File : <<b, f>> \in library <=> f <= placed
  /\ fate[b] = "kept" => \A f \in File : <<b, f>> \in library
  /\ fate[b] = "torn" => (<<b, metadata>> \in library => <<b, document>> \in library)

Shelves == \A b \in Book : Shelf(b)

\* What a scan under way cannot miss and cannot see, and what it said.
Seen ==
  /\ \A b \in settled : fate[b] \in {"kept", "undone"}
  /\ scanning = "listing" =>
       \A b \in settled, f \in File :
         /\ fate[b] = "kept" => <<b, f>> \in steady
         /\ fate[b] = "undone" => <<b, f>> \notin glimpsed
  /\ scanning = "done" =>
       \A b \in settled, f \in File : <<b, f>> \in told <=> fate[b] = "kept"

BookInv == BookTypeOK /\ OneOpen /\ Shelves /\ Seen

LEMMA Places == document \in File /\ metadata \in File /\ document < metadata
BY FilesAssumption DEF document, metadata, File

LEMMA BookInitInv == BookInit => BookInv
<1> SUFFICES ASSUME BookInit PROVE BookInv
  OBVIOUS
<1> USE DEF BookInit
<1>1. BookTypeOK
  <2>1. placed \in 0..Files /\ recorded \in 0..Files
    BY FilesAssumption
  <2> QED BY <2>1 DEF BookTypeOK
<1>2. OneOpen /\ Shelves /\ Seen
  BY DEF OneOpen, Shelves, Shelf, Seen, Publishing
<1> QED BY <1>1, <1>2 DEF BookInv

\* A step leaves the shelf of a book as it is.
LEMMA SameShelf ==
  ASSUME NEW b \in Book, Shelf(b), fate'[b] = fate[b],
         fate[b] # "open" \/ placed' = placed,
         \A f \in File : <<b, f>> \in library' <=> <<b, f>> \in library
  PROVE  Shelf(b)'
BY Places DEF Shelf

LEMMA ReceiveInv ==
  ASSUME BookInv, NEW b \in Book, Receive(b) PROVE BookInv'
<1> USE DEF BookInv, Publishing, Receive, publication, scan
<1>1. BookTypeOK'
  BY FilesAssumption DEF BookTypeOK, File, document
<1>2. OneOpen'
  BY FilesAssumption DEF BookTypeOK, OneOpen, Publishing
<1>3. Shelves'
  <2> SUFFICES ASSUME NEW c \in Book PROVE Shelf(c)'
    BY DEF Shelves
  <2>1. CASE c = b
    <3>1. fate'[b] = "open" /\ placed' = 0
      BY FilesAssumption DEF BookTypeOK, OneOpen
    <3>2. \A f \in File : <<b, f>> \notin library
      BY DEF Shelves, Shelf
    <3>3. placed \in 0..Files /\ \A f \in File : f \in Nat /\ 1 <= f /\ f <= Files
      BY FilesAssumption DEF BookTypeOK, File
    <3>4. \A f \in File : <<b, f>> \notin library'
      BY <3>1, <3>2, <3>3, FilesAssumption DEF document
    <3> QED BY <2>1, <3>1, <3>3, <3>4 DEF Shelf
  <2>2. CASE c # b
    <3>1. fate'[c] = fate[c] /\ (fate[c] # "open" \/ placed' = placed)
      BY <2>2 DEF BookTypeOK, OneOpen
    <3>2. \A f \in File : <<c, f>> \in library' <=> <<c, f>> \in library
      BY <2>2
    <3> QED BY <3>1, <3>2, SameShelf DEF Shelves
  <2> QED BY <2>1, <2>2
<1>4. Seen'
  BY DEF BookTypeOK, OneOpen, Shelves, Shelf, Seen
<1> QED BY <1>1, <1>2, <1>3, <1>4

LEMMA WriteInv ==
  ASSUME BookInv, NEW b \in Book, Write(b) PROVE BookInv'
<1> USE DEF BookInv, Working, Write, publication, scan
<1>1. BookTypeOK'
  BY FilesAssumption DEF BookTypeOK, File, document
<1>2. OneOpen'
  BY FilesAssumption DEF BookTypeOK, OneOpen, Publishing
<1>3. Shelves'
  BY DEF Shelves, Shelf
<1>4. Seen'
  BY DEF BookTypeOK, OneOpen, Shelves, Shelf, Seen
<1> QED BY <1>1, <1>2, <1>3, <1>4

LEMMA PutInPlaceInv ==
  ASSUME BookInv, NEW b \in Book, PutInPlace(b) PROVE BookInv'
<1> USE DEF BookInv, Library, PutInPlace, Working, publication, scan
<1>1. BookTypeOK'
  BY FilesAssumption DEF BookTypeOK, File, document
<1>2. OneOpen'
  BY FilesAssumption DEF BookTypeOK, OneOpen, Publishing
<1>3. Shelves'
  <2> SUFFICES ASSUME NEW c \in Book PROVE Shelf(c)'
    BY DEF Shelves
  <2>1. CASE c = b
    <3>1. fate'[b] = "open" /\ placed' = placed + 1
      BY FilesAssumption DEF BookTypeOK, OneOpen
    <3>2. \A f \in File : <<b, f>> \in library <=> f <= placed
      BY DEF Shelves, Shelf
    <3>3. placed \in 0..Files /\ \A f \in File : f \in Nat /\ 1 <= f /\ f <= Files
      BY FilesAssumption DEF BookTypeOK, File
    <3>4. \A f \in File : <<b, f>> \in library' <=> f <= placed + 1
      BY <3>1, <3>2, <3>3, FilesAssumption DEF document
    <3> QED BY <2>1, <3>1, <3>3, <3>4 DEF Shelf
  <2>2. CASE c # b
    <3>1. fate'[c] = fate[c] /\ (fate[c] # "open" \/ placed' = placed)
      BY <2>2 DEF BookTypeOK, OneOpen
    <3>2. \A f \in File : <<c, f>> \in library' <=> <<c, f>> \in library
      BY <2>2
    <3> QED BY <3>1, <3>2, SameShelf DEF Shelves
  <2> QED BY <2>1, <2>2
<1>4. Seen'
  BY DEF BookTypeOK, OneOpen, Shelves, Shelf, Seen
<1> QED BY <1>1, <1>2, <1>3, <1>4

LEMMA RecordInv ==
  ASSUME BookInv, NEW b \in Book, Record(b) PROVE BookInv'
<1> USE DEF BookInv, Record, Working, publication, scan
<1>1. BookTypeOK'
  BY FilesAssumption DEF BookTypeOK, File, document
<1>2. OneOpen'
  BY FilesAssumption DEF BookTypeOK, OneOpen, Publishing
<1>3. Shelves'
  BY DEF Shelves, Shelf
<1>4. Seen'
  BY DEF BookTypeOK, OneOpen, Shelves, Shelf, Seen
<1> QED BY <1>1, <1>2, <1>3, <1>4

LEMMA KeepInv ==
  ASSUME BookInv, NEW b \in Book, Keep(b) PROVE BookInv'
<1> USE DEF BookInv, Close, Keep, Working, publication, scan
<1>1. BookTypeOK'
  <2>1. placed' \in 0..Files /\ recorded' \in 0..Files
    BY FilesAssumption
  <2> QED BY <2>1 DEF BookTypeOK
<1>2. OneOpen'
  BY FilesAssumption DEF BookTypeOK, OneOpen, Publishing
<1>3. Shelves'
  <2> SUFFICES ASSUME NEW c \in Book PROVE Shelf(c)'
    BY DEF Shelves
  <2>1. CASE c = b
    <3>1. fate'[b] = "kept" /\ placed = Files
      BY FilesAssumption DEF BookTypeOK, OneOpen
    <3>2. \A f \in File : <<b, f>> \in library <=> f <= placed
      BY DEF Shelves, Shelf
    <3>3. placed \in 0..Files /\ \A f \in File : f \in Nat /\ 1 <= f /\ f <= Files
      BY FilesAssumption DEF BookTypeOK, File
    <3>4. \A f \in File : <<b, f>> \in library'
      BY <3>1, <3>2, <3>3, FilesAssumption DEF document
    <3> QED BY <2>1, <3>1, <3>3, <3>4 DEF Shelf
  <2>2. CASE c # b
    <3>1. fate'[c] = fate[c] /\ (fate[c] # "open" \/ placed' = placed)
      BY <2>2 DEF BookTypeOK, OneOpen
    <3>2. \A f \in File : <<c, f>> \in library' <=> <<c, f>> \in library
      BY <2>2
    <3> QED BY <3>1, <3>2, SameShelf DEF Shelves
  <2> QED BY <2>1, <2>2
<1>4. Seen'
  BY DEF BookTypeOK, OneOpen, Shelves, Shelf, Seen
<1> QED BY <1>1, <1>2, <1>3, <1>4

LEMMA RefuseInv ==
  ASSUME BookInv, NEW b \in Book, Refuse(b) PROVE BookInv'
<1> USE DEF BookInv, Close, Refuse, Working, publication, scan
<1>1. BookTypeOK'
  BY FilesAssumption DEF BookTypeOK, File, document
<1>2. OneOpen'
  BY FilesAssumption DEF BookTypeOK, OneOpen, Publishing
<1>3. Shelves'
  <2> SUFFICES ASSUME NEW c \in Book PROVE Shelf(c)'
    BY DEF Shelves
  <2>1. CASE c = b
    <3>1. fate'[b] = "undone" /\ placed = 0
      BY FilesAssumption DEF BookTypeOK, OneOpen
    <3>2. \A f \in File : <<b, f>> \in library <=> f <= placed
      BY DEF Shelves, Shelf
    <3>3. placed \in 0..Files /\ \A f \in File : f \in Nat /\ 1 <= f /\ f <= Files
      BY FilesAssumption DEF BookTypeOK, File
    <3>4. \A f \in File : <<b, f>> \notin library'
      BY <3>1, <3>2, <3>3, FilesAssumption DEF document
    <3> QED BY <2>1, <3>1, <3>3, <3>4 DEF Shelf
  <2>2. CASE c # b
    <3>1. fate'[c] = fate[c] /\ (fate[c] # "open" \/ placed' = placed)
      BY <2>2 DEF BookTypeOK, OneOpen
    <3>2. \A f \in File : <<c, f>> \in library' <=> <<c, f>> \in library
      BY <2>2
    <3> QED BY <3>1, <3>2, SameShelf DEF Shelves
  <2> QED BY <2>1, <2>2
<1>4. Seen'
  BY DEF BookTypeOK, OneOpen, Shelves, Shelf, Seen
<1> QED BY <1>1, <1>2, <1>3, <1>4

LEMMA FailInv ==
  ASSUME BookInv, NEW b \in Book, Fail(b) PROVE BookInv'
<1> USE DEF BookInv, Fail, Working, publication, scan
<1>1. BookTypeOK'
  BY FilesAssumption DEF BookTypeOK, File, document
<1>2. OneOpen'
  BY FilesAssumption DEF BookTypeOK, OneOpen, Publishing
<1>3. Shelves'
  BY DEF Shelves, Shelf
<1>4. Seen'
  BY DEF BookTypeOK, OneOpen, Shelves, Shelf, Seen
<1> QED BY <1>1, <1>2, <1>3, <1>4

LEMMA RemoveInv ==
  ASSUME BookInv, NEW b \in Book, Remove(b) PROVE BookInv'
<1> USE DEF BookInv, Library, Remove, publication, scan
<1>1. BookTypeOK'
  BY FilesAssumption DEF BookTypeOK, File, document
<1>2. OneOpen'
  BY FilesAssumption DEF BookTypeOK, OneOpen, Publishing
<1>3. Shelves'
  <2> SUFFICES ASSUME NEW c \in Book PROVE Shelf(c)'
    BY DEF Shelves
  <2>1. CASE c = b
    <3>1. fate'[b] = "open" /\ placed' = placed - 1
      BY FilesAssumption DEF BookTypeOK, OneOpen
    <3>2. \A f \in File : <<b, f>> \in library <=> f <= placed
      BY DEF Shelves, Shelf
    <3>3. placed \in 0..Files /\ \A f \in File : f \in Nat /\ 1 <= f /\ f <= Files
      BY FilesAssumption DEF BookTypeOK, File
    <3>4. \A f \in File : <<b, f>> \in library' <=> f <= placed - 1
      BY <3>1, <3>2, <3>3, FilesAssumption DEF document
    <3> QED BY <2>1, <3>1, <3>3, <3>4 DEF Shelf
  <2>2. CASE c # b
    <3>1. fate'[c] = fate[c] /\ (fate[c] # "open" \/ placed' = placed)
      BY <2>2 DEF BookTypeOK, OneOpen
    <3>2. \A f \in File : <<c, f>> \in library' <=> <<c, f>> \in library
      BY <2>2
    <3> QED BY <3>1, <3>2, SameShelf DEF Shelves
  <2> QED BY <2>1, <2>2
<1>4. Seen'
  BY DEF BookTypeOK, OneOpen, Shelves, Shelf, Seen
<1> QED BY <1>1, <1>2, <1>3, <1>4

LEMMA RemoveDocumentInv ==
  ASSUME BookInv, NEW b \in Book, RemoveDocument(b) PROVE BookInv'
<1> USE DEF BookInv, Close, Library, RemoveDocument, publication, scan
<1>1. BookTypeOK'
  <2>1. placed' \in 0..Files /\ recorded' \in 0..Files
    BY FilesAssumption
  <2> QED BY <2>1 DEF BookTypeOK
<1>2. OneOpen'
  BY FilesAssumption DEF BookTypeOK, OneOpen, Publishing
<1>3. Shelves'
  <2> SUFFICES ASSUME NEW c \in Book PROVE Shelf(c)'
    BY DEF Shelves
  <2>1. CASE c = b
    <3>1. fate'[b] = "undone" /\ placed = 1
      BY FilesAssumption DEF BookTypeOK, OneOpen
    <3>2. \A f \in File : <<b, f>> \in library <=> f <= placed
      BY DEF Shelves, Shelf
    <3>3. placed \in 0..Files /\ \A f \in File : f \in Nat /\ 1 <= f /\ f <= Files
      BY FilesAssumption DEF BookTypeOK, File
    <3>4. \A f \in File : <<b, f>> \notin library'
      BY <3>1, <3>2, <3>3, FilesAssumption DEF document
    <3> QED BY <2>1, <3>1, <3>3, <3>4 DEF Shelf
  <2>2. CASE c # b
    <3>1. fate'[c] = fate[c] /\ (fate[c] # "open" \/ placed' = placed)
      BY <2>2 DEF BookTypeOK, OneOpen
    <3>2. \A f \in File : <<c, f>> \in library' <=> <<c, f>> \in library
      BY <2>2
    <3> QED BY <3>1, <3>2, SameShelf DEF Shelves
  <2> QED BY <2>1, <2>2
<1>4. Seen'
  BY DEF BookTypeOK, OneOpen, Shelves, Shelf, Seen
<1> QED BY <1>1, <1>2, <1>3, <1>4

LEMMA ScanBeginInv ==
  ASSUME BookInv, ScanBegin PROVE BookInv'
<1> USE DEF BookInv, ScanBegin, publication, scan
<1>1. BookTypeOK'
  BY FilesAssumption DEF BookTypeOK, File, document
<1>2. OneOpen'
  BY FilesAssumption DEF BookTypeOK, OneOpen, Publishing
<1>3. Shelves'
  BY DEF Shelves, Shelf
<1>4. Seen'
  BY DEF BookTypeOK, OneOpen, Shelves, Shelf, Seen
<1> QED BY <1>1, <1>2, <1>3, <1>4

LEMMA ScanCommitInv ==
  ASSUME BookInv, ScanCommit PROVE BookInv'
<1> USE DEF BookInv, Live, ScanCommit, ScanEnd, publication, scan
<1>1. BookTypeOK'
  BY FilesAssumption DEF BookTypeOK, File, document
<1>2. OneOpen'
  BY FilesAssumption DEF BookTypeOK, OneOpen, Publishing
<1>3. Shelves'
  BY DEF Shelves, Shelf
<1>4. Seen'
  BY DEF BookTypeOK, OneOpen, Shelves, Shelf, Seen
<1> QED BY <1>1, <1>2, <1>3, <1>4

LEMMA ScanFailInv ==
  ASSUME BookInv, ScanFail PROVE BookInv'
<1> USE DEF BookInv, ScanEnd, ScanFail, publication, scan
<1>1. BookTypeOK'
  BY FilesAssumption DEF BookTypeOK, File, document
<1>2. OneOpen'
  BY FilesAssumption DEF BookTypeOK, OneOpen, Publishing
<1>3. Shelves'
  BY DEF Shelves, Shelf
<1>4. Seen'
  BY DEF BookTypeOK, OneOpen, Shelves, Shelf, Seen
<1> QED BY <1>1, <1>2, <1>3, <1>4

LEMMA ForgetInv ==
  ASSUME BookInv, Forget PROVE BookInv'
<1> USE DEF BookInv, Forget, publication, scan
<1>1. BookTypeOK'
  BY FilesAssumption DEF BookTypeOK, File, document
<1>2. OneOpen'
  BY FilesAssumption DEF BookTypeOK, OneOpen, Publishing
<1>3. Shelves'
  BY DEF Shelves, Shelf
<1>4. Seen'
  BY DEF BookTypeOK, OneOpen, Shelves, Shelf, Seen
<1> QED BY <1>1, <1>2, <1>3, <1>4

LEMMA SweepInv ==
  ASSUME BookInv, Sweep PROVE BookInv'
<1> USE DEF BookInv, Sweep, publication, scan
<1>1. BookTypeOK'
  BY FilesAssumption DEF BookTypeOK, File, document
<1>2. OneOpen'
  BY FilesAssumption DEF BookTypeOK, OneOpen, Publishing
<1>3. Shelves'
  BY DEF Shelves, Shelf
<1>4. Seen'
  BY DEF BookTypeOK, OneOpen, Shelves, Shelf, Seen
<1> QED BY <1>1, <1>2, <1>3, <1>4

LEMMA TearInv ==
  ASSUME BookInv, Tear PROVE BookInv'
<1> USE DEF BookInv, Tear, publication, scan
<1>1. BookTypeOK'
  <2>1. placed' \in 0..Files /\ recorded' \in 0..Files
    BY FilesAssumption
  <2> QED BY <2>1 DEF BookTypeOK
<1>2. OneOpen'
  BY FilesAssumption DEF BookTypeOK, OneOpen, Publishing
<1>3. Shelves'
  <2> SUFFICES ASSUME NEW c \in Book PROVE Shelf(c)'
    BY DEF Shelves
  <2>1. CASE fate[c] = "open"
    <3>1. fate'[c] = "torn" /\ library' = library
      BY <2>1
    <3>2. placed \in Nat /\ (<<c, metadata>> \in library => <<c, document>> \in library)
      BY <2>1, Places, FilesAssumption DEF BookTypeOK, Shelves, Shelf, File
    <3> QED BY <3>1, <3>2 DEF Shelf
  <2>2. CASE fate[c] # "open"
    BY <2>2, SameShelf DEF Shelves
  <2> QED BY <2>1, <2>2
<1>4. Seen'
  BY DEF BookTypeOK, OneOpen, Shelves, Shelf, Seen
<1> QED BY <1>1, <1>2, <1>3, <1>4
-----------------------------------------------------------------------------
LEMMA BookStepInv == BookInv /\ BookNext => BookInv'
<1> SUFFICES ASSUME BookInv, BookNext PROVE BookInv'
  OBVIOUS
<1>1. CASE \E b \in Book :
       \/ Receive(b) \/ Write(b) \/ PutInPlace(b) \/ Record(b) \/ Keep(b)
       \/ Refuse(b) \/ Fail(b) \/ Remove(b) \/ RemoveDocument(b)
  BY <1>1, ReceiveInv, WriteInv, PutInPlaceInv, RecordInv, KeepInv, RefuseInv,
     FailInv, RemoveInv, RemoveDocumentInv
<1>2. CASE ScanBegin \/ ScanCommit \/ ScanFail \/ Forget \/ Sweep \/ Tear
  BY <1>2, ScanBeginInv, ScanCommitInv, ScanFailInv, ForgetInv, SweepInv, TearInv
<1> QED BY <1>1, <1>2 DEF BookNext

LEMMA BookStutterInv == BookInv /\ UNCHANGED bookVars => BookInv'
BY DEF BookInv, BookTypeOK, OneOpen, Shelves, Shelf, Seen, Publishing, bookVars,
   publication, scan

LEMMA NextIsBook == Next => BookNext \/ UNCHANGED bookVars
BY DEF Next, BookNext, App, Lib, Start, End, Die, Upload, Publish, Uploaded,
   Scan, Scanned, SessionOver, PublicationStep, PublicationEnd

\* The library and the catalog, whatever the application, its connections and
\* its sessions do, and wherever its process dies.
THEOREM BookInvariant == Spec => []BookInv
<1>1. Init => BookInv
  BY BookInitInv DEF Init
<1>2. BookInv /\ [Next]_vars => BookInv'
  BY BookStepInv, BookStutterInv, NextIsBook DEF vars
<1> QED BY <1>1, <1>2, PTL DEF Spec

\* No book is ever shown without its document, for any number of sidecars:
\* the document is there first and goes last.
THEOREM ListedIsReadableAlways == Spec => []ListedIsReadable
<1>1. BookInv => ListedIsReadable
  <2> SUFFICES ASSUME BookInv, NEW b \in Book, <<b, metadata>> \in library
               PROVE  <<b, document>> \in library
    BY DEF ListedIsReadable
  <2>1. Shelf(b)
    BY DEF BookInv, Shelves
  <2>2. fate[b] \in {"new", "open", "kept", "undone", "torn"}
    BY DEF BookInv, BookTypeOK
  <2>3. CASE fate[b] = "open"
    <3>1. metadata <= placed
      BY <2>1, <2>3, Places DEF Shelf
    <3>2. document <= placed
      BY <3>1, FilesAssumption DEF BookInv, BookTypeOK, document, metadata
    <3> QED BY <2>1, <2>3, <3>2, Places DEF Shelf
  <2> QED BY <2>1, <2>2, <2>3, Places DEF Shelf
<1> QED BY <1>1, BookInvariant, PTL

\* The peer is told of a whole book or of none of it, for any number of books
\* and files and any listing a scan can come by.
THEOREM AllOrNothingAlways == Spec => []AllOrNothing
<1>1. BookInv => AllOrNothing
  BY DEF BookInv, Seen, AllOrNothing
<1> QED BY <1>1, BookInvariant, PTL
-----------------------------------------------------------------------------
\* Nothing is left that could answer, announce or call.
Silent ==
  /\ ~server /\ ~discovery /\ ~credentials
  /\ serving = {} /\ sync_worker = "none"

\* What is up, by where the loop is.
Order ==
  /\ ~running => at = "commands" /\ ~foreground
  /\ at \in {"entering", "touch", "poll", "rotating", "opening"} => foreground
  /\ at \in {"leaving", "joining"} => ~foreground /\ ~discovery /\ ~credentials
  /\ at = "commands" /\ ~foreground => Silent
  /\ at = "joining" => ~server
  /\ ~server => serving = {}

\* Books are published and scans made by threads that are accounted for.
Owned ==
  /\ Publishing <=> "upload" \in serving
  /\ scanning # "no" => "session" \in serving \/ sync_worker = "running"

TabletInv == AppTypeOK /\ BookInv /\ Order /\ Owned

LEMMA TabletInitInv == Init => TabletInv
<1> SUFFICES ASSUME Init PROVE TabletInv
  OBVIOUS
<1>1. BookInv
  BY BookInitInv DEF Init
<1>2. AppTypeOK
  BY DEF Init, AppInit, AppTypeOK, Command
<1>3. Order
  BY DEF Init, AppInit, Order, Silent
<1>4. Owned
  BY DEF Init, AppInit, BookInit, Owned, Publishing
<1> QED BY <1>1, <1>2, <1>3, <1>4 DEF TabletInv

LEMMA LoopStepInv ==
  ASSUME TabletInv, App(LoopStep) PROVE AppTypeOK' /\ Order' /\ Owned'
<1> USE DEF TabletInv, AppTypeOK, Order, Silent, Owned, services, threads, display
<1>1. (Publishing' <=> Publishing) /\ scanning' = scanning
  BY DEF App, bookVars, publication, scan, Publishing
<1>2. CASE NoCommand
  <2>1. AppTypeOK'
    BY <1>2 DEF NoCommand
  <2>2. Order' /\ Owned'
    BY <1>1, <1>2 DEF NoCommand
  <2> QED BY <2>1, <2>2
<1>3. CASE EnterAgain
  <2>1. AppTypeOK'
    BY <1>3 DEF EnterAgain, Paint
  <2>2. Order' /\ Owned'
    BY <1>1, <1>3 DEF EnterAgain, Paint
  <2> QED BY <2>1, <2>2
<1>4. CASE Enter
  <2>1. AppTypeOK'
    BY <1>4 DEF Enter
  <2>2. Order' /\ Owned'
    BY <1>1, <1>4 DEF Enter
  <2> QED BY <2>1, <2>2
<1>5. CASE Leave
  <2>1. AppTypeOK'
    BY <1>5 DEF Leave, Withdraw
  <2>2. Order' /\ Owned'
    BY <1>1, <1>5 DEF Leave, Withdraw
  <2> QED BY <2>1, <2>2
<1>6. CASE StopToLeave
  <2>1. AppTypeOK'
    BY <1>6 DEF StopToLeave
  <2>2. Order' /\ Owned'
    BY <1>1, <1>6 DEF StopToLeave
  <2> QED BY <2>1, <2>2
<1>7. CASE Background
  <2>1. AppTypeOK'
    BY <1>7 DEF Background
  <2>2. Order' /\ Owned'
    BY <1>1, <1>7 DEF Background
  <2> QED BY <2>1, <2>2
<1>8. CASE StopToRotate
  <2>1. AppTypeOK'
    BY <1>8 DEF StopToRotate
  <2>2. Order' /\ Owned'
    BY <1>1, <1>8 DEF StopToRotate
  <2> QED BY <2>1, <2>2
<1>9. CASE NoTouch
  <2>1. AppTypeOK'
    BY <1>9 DEF NoTouch
  <2>2. Order' /\ Owned'
    BY <1>1, <1>9 DEF NoTouch
  <2> QED BY <2>1, <2>2
<1>10. CASE PressRefresh
  <2>1. AppTypeOK'
    BY <1>10 DEF PressRefresh
  <2>2. Order' /\ Owned'
    BY <1>1, <1>10 DEF PressRefresh
  <2> QED BY <2>1, <2>2
<1>11. CASE PressOther
  <2>1. AppTypeOK'
    BY <1>11 DEF PressOther, Paint, PaintNew
  <2>2. Order' /\ Owned'
    BY <1>1, <1>11 DEF PressOther, Paint, PaintNew
  <2> QED BY <2>1, <2>2
<1>12. CASE PressSync
  <2>1. AppTypeOK'
    BY <1>12 DEF PressSync, Paint
  <2>2. Order' /\ Owned'
    BY <1>1, <1>12 DEF PressSync, Paint
  <2> QED BY <2>1, <2>2
<1>13. CASE Poll
  <2>1. AppTypeOK'
    BY <1>13 DEF Poll, Reap
  <2>2. Order' /\ Owned'
    BY <1>1, <1>13 DEF Poll, Reap
  <2> QED BY <2>1, <2>2
<1> QED BY <1>2, <1>3, <1>4, <1>5, <1>6, <1>7, <1>8, <1>9, <1>10, <1>11, <1>12, <1>13 DEF App, LoopStep

\* The other steps that do not touch the library.
LEMMA OtherStepInv ==
  ASSUME TabletInv,
         App((\E c \in Command : Send(c)) \/ Launch \/ Tick \/ Serve("session") \/ Progress)
  PROVE  AppTypeOK' /\ Order' /\ Owned'
<1> USE DEF TabletInv, AppTypeOK, Order, Silent, Owned, services, threads, display
<1>1. (Publishing' <=> Publishing) /\ scanning' = scanning
  BY DEF App, bookVars, publication, scan, Publishing
<1>2. CASE \E c \in Command : Send(c)
  <2>1. AppTypeOK'
    BY <1>2 DEF Send
  <2>2. Order' /\ Owned'
    BY <1>1, <1>2 DEF Send
  <2> QED BY <2>1, <2>2
<1>3. CASE Launch
  <2>1. AppTypeOK'
    BY <1>3 DEF Launch, Command
  <2>2. Order' /\ Owned'
    BY <1>1, <1>3 DEF Launch
  <2> QED BY <2>1, <2>2
<1>4. CASE Tick
  <2>1. AppTypeOK'
    BY <1>4 DEF Tick
  <2>2. Order' /\ Owned'
    BY <1>1, <1>4 DEF Tick
  <2> QED BY <2>1, <2>2
<1>5. CASE Serve("session")
  <2>1. AppTypeOK'
    BY <1>5 DEF Serve, Listening, StatusChanges
  <2>2. Order' /\ Owned'
    BY <1>1, <1>5 DEF Serve, Listening, StatusChanges
  <2> QED BY <2>1, <2>2
<1>6. CASE Progress
  <2>1. AppTypeOK'
    BY <1>6 DEF Progress, StatusChanges
  <2>2. Order' /\ Owned'
    BY <1>1, <1>6 DEF Progress, StatusChanges
  <2> QED BY <2>1, <2>2
<1> QED BY <1>2, <1>3, <1>4, <1>5, <1>6 DEF App

\* A server starts, or the process ends, with no book under way.
LEMMA StartEndInv ==
  ASSUME TabletInv, Start \/ End \/ Die PROVE AppTypeOK' /\ Order' /\ Owned'
<1> USE DEF TabletInv, AppTypeOK, Order, Silent, Owned, services, threads, display
<1>1. CASE Start
  <2>1. (Publishing' <=> Publishing) /\ scanning' = scanning
    BY <1>1 DEF Start, Sweep, publication, scan, Publishing
  <2>2. AppTypeOK'
    BY <1>1 DEF Start, Started, Entered, Rotated, Announce, StartServer, Paint, PaintNew
  <2>3. Order' /\ Owned'
    BY <1>1, <2>1 DEF Start, Started, Entered, Rotated, Announce, StartServer, Paint, PaintNew
  <2> QED BY <2>2, <2>3
<1>2. CASE End \/ Die
  <2>1. Exit /\ Tear
    BY <1>2 DEF End, Die, Ended, Shutdown, StartFails
  <2>2. ~Publishing' /\ scanning' = "no"
    BY <2>1 DEF Tear, Publishing, BookInv, BookTypeOK
  <2>3. AppTypeOK'
    BY <2>1 DEF Exit
  <2>4. Order' /\ Owned'
    BY <2>1, <2>2 DEF Exit
  <2> QED BY <2>3, <2>4
<1> QED BY <1>1, <1>2

\* Uploads and sessions begin, go on and end with what they do.
LEMMA ThreadStepInv ==
  ASSUME TabletInv, Upload \/ Publish \/ Uploaded \/ Scan \/ Scanned \/ SessionOver
  PROVE  AppTypeOK' /\ Order' /\ Owned'
<1> USE DEF TabletInv, AppTypeOK, Order, Silent, Owned, services, threads, display
<1>1. CASE Upload
  <2>1. PICK b \in Book : Receive(b) /\ Serve("upload")
    BY <1>1 DEF Upload
  <2>2. Publishing' /\ scanning' = scanning
    BY <2>1 DEF Receive, Publishing, scan, BookInv, BookTypeOK
  <2>3. AppTypeOK'
    BY <2>1 DEF Serve, Listening, StatusChanges
  <2>4. Order' /\ Owned'
    BY <2>1, <2>2 DEF Serve, Listening, StatusChanges
  <2> QED BY <2>3, <2>4
<1>2. CASE Publish
  <2>1. (Publishing' <=> Publishing) /\ scanning' = scanning /\ UNCHANGED appVars
    BY <1>2 DEF Publish, Lib, PublicationStep, Write, PutInPlace, Record, Fail, Remove,
       Publishing, scan
  <2> QED BY <2>1 DEF appVars
<1>3. CASE Uploaded
  <2>1. PICK b \in Book : Keep(b) \/ Refuse(b) \/ RemoveDocument(b)
    BY <1>3 DEF Uploaded, PublicationEnd
  <2>2. fate[b] = "open" /\ \E end \in {"kept", "undone"} : fate' = [fate EXCEPT ![b] = end]
    BY <2>1 DEF Keep, Refuse, RemoveDocument, Close, Working
  <2>3. ~Publishing'
    BY <2>2 DEF Publishing, BookInv, BookTypeOK, OneOpen
  <2>4. scanning' = scanning /\ Served("upload")
    BY <1>3, <2>1 DEF Uploaded, Keep, Refuse, RemoveDocument, scan
  <2>5. AppTypeOK'
    BY <2>4 DEF Served, StatusChanges
  <2>6. Order' /\ Owned'
    BY <2>3, <2>4 DEF Served, StatusChanges
  <2> QED BY <2>5, <2>6
<1>4. CASE Scan \/ Scanned
  <2>1. (Publishing' <=> Publishing) /\ UNCHANGED appVars
    BY <1>4 DEF Scan, Scanned, Lib, ScanBegin, ScanCommit, ScanFail, publication, Publishing
  <2>2. scanning # "no" \/ InSession
    BY <1>4 DEF Scan, Scanned, Lib, ScanCommit, ScanFail
  <2> QED BY <2>1, <2>2 DEF appVars, InSession
<1>5. CASE SessionOver
  <2>1. Publishing' <=> Publishing
    BY <1>5 DEF SessionOver, Forget, bookVars, publication, Publishing
  <2>2. CASE Forget /\ Served("session")
    BY <2>1, <2>2 DEF Forget, Served, StatusChanges
  <2>3. CASE WorkerEnds /\ (IF "session" \in serving THEN UNCHANGED bookVars ELSE Forget)
    <3>1. "session" \in serving \/ scanning' = "no"
      BY <2>3 DEF Forget
    <3> QED BY <2>1, <2>3, <3>1 DEF WorkerEnds, StatusChanges
  <2> QED BY <1>5, <2>2, <2>3 DEF SessionOver
<1> QED BY <1>1, <1>2, <1>3, <1>4, <1>5

\* What runs, by where the loop is, and what the library has of it.
THEOREM TabletInvariant == Spec => []TabletInv
<1>1. TabletInv /\ [Next]_vars => TabletInv'
  <2> SUFFICES ASSUME TabletInv, [Next]_vars PROVE TabletInv'
    OBVIOUS
  <2>1. BookInv'
    BY BookStepInv, BookStutterInv, NextIsBook DEF TabletInv, vars
  <2>2. AppTypeOK' /\ Order' /\ Owned'
    <3>1. CASE UNCHANGED vars
      BY <3>1 DEF TabletInv, AppTypeOK, Order, Silent, Owned, Publishing, vars, appVars,
         bookVars, publication, scan, services, threads, display
    <3>2. CASE Next
      BY <3>2, LoopStepInv, OtherStepInv, StartEndInv, ThreadStepInv DEF Next, App
    <3> QED BY <3>1, <3>2
  <2> QED BY <2>1, <2>2 DEF TabletInv
<1> QED BY <1>1, TabletInitInv, PTL DEF Spec

\* An application in the background has nothing running, whichever way it got
\* there, for any books.
THEOREM BackgroundIsSilentAlways == Spec => []BackgroundIsSilent
<1>1. TabletInv => BackgroundIsSilent
  BY DEF TabletInv, Order, Owned, Silent, BackgroundIsSilent
<1> QED BY <1>1, TabletInvariant, PTL
=============================================================================
