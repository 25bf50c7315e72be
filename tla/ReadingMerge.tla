---------------------------- MODULE ReadingMerge ----------------------------
(***************************************************************************)
(* KOReader's reading state as two devices exchange it (peer/reading.rs):  *)
(* one record per book with the time of its last change, the reading       *)
(* position, the bookmarks and the layout of the document.                 *)
(*                                                                         *)
(* Abstractions.  The position fields change together, and so do the 51    *)
(* fields of the layout.  A record without a time counts as changed at 0.  *)
(* A payload that is no list of records is an error of its own.            *)
(***************************************************************************)
EXTENDS Integers

CONSTANTS Book,
          Position,    \* last_xpointer, last_page, percent_finished
          Layout,      \* the fields of a document's settings
          Mark,        \* bookmarks
          Absent,      \* a field a record does not have
          NoRecord     \* a book a payload does not mention

ASSUME AbsentAssumption == Absent \notin Position \cup Layout \cup Mark

\* The bookmarks of a record without the field, told apart from none.
NoMarks == {Absent}

Record == [updated : Int,
           position : Position \cup {Absent},
           marks : (SUBSET Mark) \cup {NoMarks},
           layout : Layout \cup {Absent}]

ASSUME NoRecordAssumption == NoRecord \notin Record

\* validate_payload: at most one record of a book, as KOReader exports them.
Entry == Record \cup {NoRecord}
Payload == [Book -> Entry]

Bookmarks(record) ==
  IF record = NoRecord \/ record.marks = NoMarks THEN {} ELSE record.marks

\* Fault: the bookmarks of the newer record replace those of the older.
MergeMarksNewest(current, record) ==
  IF record.updated > current.updated THEN record.marks ELSE current.marks

\* merge_bookmarks: the bookmarks of both, if either record has the field.
MergeMarks(current, record) ==
  IF current.marks = NoMarks /\ record.marks = NoMarks
    THEN NoMarks
    ELSE Bookmarks(current) \cup Bookmarks(record)

\* The newer of two records of one book, the first of two equally old ones.
Newest(current, record) ==
  IF record.updated > current.updated THEN record ELSE current

\* It is kept with the bookmarks of both.
MergeRecord(current, record) ==
  IF current = NoRecord THEN record
  ELSE IF record = NoRecord THEN current
  ELSE [Newest(current, record) EXCEPT !.marks = MergeMarks(current, record)]

Merge(local, remote) == [b \in Book |-> MergeRecord(local[b], remote[b])]

\* scoped_payload: the fields a session is about.
ScopeRecord(record, scope) ==
  IF record = NoRecord THEN NoRecord
  ELSE [updated |-> record.updated,
        position |-> IF "reading" \in scope THEN record.position ELSE Absent,
        marks |-> IF "reading" \in scope THEN record.marks ELSE NoMarks,
        layout |-> IF "document_settings" \in scope THEN record.layout ELSE Absent]

Scoped(payload, scope) == [b \in Book |-> ScopeRecord(payload[b], scope)]
-----------------------------------------------------------------------------
(* What a merge should come to, said without it. *)

\* Two records of one time that say different things: neither is the newer.
Tied(x, y) ==
  /\ x # NoRecord /\ y # NoRecord
  /\ x.updated = y.updated
  /\ x.position # y.position \/ x.layout # y.layout

AsNew(x, y) == x # NoRecord /\ (y = NoRecord \/ x.updated >= y.updated)

\* r has what x says.
Has(r, x) ==
  /\ r.updated = x.updated
  /\ x.position \in {Absent, r.position}
  /\ x.layout \in {Absent, r.layout}

\* r is what two devices with the records x and y of a book should end with:
\* what the newer says and the bookmarks of both.
Agreed(r, x, y) ==
  /\ r = NoRecord <=> x = NoRecord /\ y = NoRecord
  /\ AsNew(x, y) => Has(r, x)
  /\ AsNew(y, x) => Has(r, y)
  /\ Bookmarks(r) = Bookmarks(x) \cup Bookmarks(y)
=============================================================================
