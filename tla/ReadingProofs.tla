---------------------------- MODULE ReadingProofs ----------------------------
(***************************************************************************)
(* Proofs about the reading state: what a merge of two records comes to,   *)
(* and from it that a session leaves both devices with the same and takes  *)
(* neither back, for any devices, books, positions, layouts and bookmarks. *)
(***************************************************************************)
EXTENDS ReadingExchange, TLAPS

USE DEF Entry

-----------------------------------------------------------------------------
(* Records. *)

LEMMA NoMarksApart == \A marks \in SUBSET Mark : marks # NoMarks
BY AbsentAssumption DEF NoMarks

LEMMA MergeRecordType ==
  ASSUME NEW x \in Entry, NEW y \in Entry
  PROVE  /\ MergeRecord(x, y) \in Entry
         /\ MergeRecord(x, y) = NoRecord <=> x = NoRecord /\ y = NoRecord
<1>1. CASE x = NoRecord \/ y = NoRecord
  BY <1>1 DEF MergeRecord
<1>2. CASE x # NoRecord /\ y # NoRecord
  <2>1. x \in Record /\ y \in Record
    BY <1>2
  <2>2. MergeMarks(x, y) \in (SUBSET Mark) \cup {NoMarks}
    BY <1>2, <2>1 DEF MergeMarks, Bookmarks, Record
  <2>3. Newest(x, y) \in Record
    BY <2>1 DEF Newest
  <2>4. MergeRecord(x, y) \in Record
    BY <1>2, <2>2, <2>3 DEF MergeRecord, Record
  <2> QED BY <1>2, <2>4, NoRecordAssumption
<1> QED BY <1>1, <1>2

\* The fields of a merge of two records.
LEMMA MergeFields ==
  ASSUME NEW x \in Record, NEW y \in Record
  PROVE  /\ MergeRecord(x, y).updated = Newest(x, y).updated
         /\ MergeRecord(x, y).position = Newest(x, y).position
         /\ MergeRecord(x, y).layout = Newest(x, y).layout
         /\ MergeRecord(x, y).marks = MergeMarks(x, y)
<1>1. Newest(x, y) \in Record
  BY DEF Newest
<1>2. MergeRecord(x, y) = [Newest(x, y) EXCEPT !.marks = MergeMarks(x, y)]
  BY NoRecordAssumption DEF MergeRecord
<1> QED BY <1>1, <1>2 DEF Record

\* Two records that are not tied merge to the same either way.
LEMMA MergeCommutes ==
  ASSUME NEW x \in Entry, NEW y \in Entry, ~Tied(x, y)
  PROVE  MergeRecord(x, y) = MergeRecord(y, x)
<1>1. CASE x = NoRecord \/ y = NoRecord
  BY <1>1 DEF MergeRecord
<1>2. CASE x # NoRecord /\ y # NoRecord
  <2>1. x \in Record /\ y \in Record
    BY <1>2
  <2>2. MergeMarks(x, y) = MergeMarks(y, x)
    BY DEF MergeMarks
  <2>3. MergeRecord(x, y) \in Record /\ MergeRecord(y, x) \in Record
    BY <1>2, <2>1, MergeRecordType
  <2>4. /\ MergeRecord(x, y).updated = MergeRecord(y, x).updated
        /\ MergeRecord(x, y).position = MergeRecord(y, x).position
        /\ MergeRecord(x, y).layout = MergeRecord(y, x).layout
        /\ MergeRecord(x, y).marks = MergeRecord(y, x).marks
    BY <1>2, <2>1, <2>2, MergeFields DEF Tied, Record, Newest
  <2> QED BY <2>3, <2>4 DEF Record
<1> QED BY <1>1, <1>2

\* A merge has what the newer record says and the bookmarks of both.
LEMMA MergeAgreed ==
  ASSUME NEW x \in Entry, NEW y \in Entry, ~Tied(x, y)
  PROVE  Agreed(MergeRecord(x, y), x, y)
<1>1. CASE x = NoRecord \/ y = NoRecord
  BY <1>1 DEF MergeRecord, Agreed, AsNew, Has, Bookmarks
<1>2. CASE x # NoRecord /\ y # NoRecord
  <2>1. x \in Record /\ y \in Record
    BY <1>2
  <2>2. MergeRecord(x, y) # NoRecord
    BY <1>2, MergeRecordType
  <2>3. Bookmarks(MergeRecord(x, y)) = Bookmarks(x) \cup Bookmarks(y)
    <3>1. MergeRecord(x, y).marks = MergeMarks(x, y)
      BY <2>1, MergeFields
    <3>2. CASE x.marks = NoMarks /\ y.marks = NoMarks
      BY <3>1, <3>2, <2>2 DEF MergeMarks, Bookmarks
    <3>3. CASE ~(x.marks = NoMarks /\ y.marks = NoMarks)
      <4>1. Bookmarks(x) \cup Bookmarks(y) \in SUBSET Mark
        BY <2>1 DEF Bookmarks, Record
      <4> QED BY <3>1, <3>3, <4>1, <2>2, NoMarksApart DEF MergeMarks, Bookmarks
    <3> QED BY <3>2, <3>3
  <2>4. AsNew(x, y) => Has(MergeRecord(x, y), x)
    BY <1>2, <2>1, MergeFields DEF AsNew, Has, Record, Newest
  <2>5. AsNew(y, x) => Has(MergeRecord(x, y), y)
    BY <1>2, <2>1, MergeFields DEF AsNew, Has, Record, Newest, Tied
  <2> QED BY <1>2, <2>2, <2>3, <2>4, <2>5 DEF Agreed
<1> QED BY <1>1, <1>2

LEMMA MergeSelf ==
  ASSUME NEW m \in Entry PROVE MergeRecord(m, m) = m
<1>1. CASE m = NoRecord
  BY <1>1 DEF MergeRecord
<1>2. CASE m # NoRecord
  <2>1. m \in Record /\ Newest(m, m) = m
    BY <1>2 DEF Newest
  <2>2. MergeMarks(m, m) = m.marks
    BY <1>2 DEF MergeMarks, Bookmarks
  <2>3. MergeRecord(m, m) = [Newest(m, m) EXCEPT !.marks = MergeMarks(m, m)]
    BY <1>2 DEF MergeRecord
  <2> QED BY <2>1, <2>2, <2>3 DEF Record
<1> QED BY <1>1, <1>2

\* A merge that is merged once more, into the merge the other way, stays.
LEMMA MergeAbsorbs ==
  ASSUME NEW x \in Entry, NEW y \in Entry, ~Tied(x, y)
  PROVE  MergeRecord(MergeRecord(y, x), MergeRecord(x, y)) = MergeRecord(x, y)
BY MergeCommutes, MergeRecordType, MergeSelf

\* r does not go back behind x: not in time, and not in bookmarks.
Keeps(r, x) ==
  x # NoRecord =>
    /\ r # NoRecord
    /\ r.updated >= x.updated
    /\ x.marks # NoMarks => r.marks # NoMarks /\ x.marks \subseteq r.marks

LEMMA KeepsTransitive ==
  ASSUME NEW x \in Entry, NEW y \in Entry, NEW z \in Entry, Keeps(x, y), Keeps(y, z)
  PROVE  Keeps(x, z)
BY DEF Keeps, Record

\* Tied or not, a merge goes back behind neither of the two.
LEMMA MergeKeeps ==
  ASSUME NEW x \in Entry, NEW y \in Entry
  PROVE  Keeps(MergeRecord(x, y), x) /\ Keeps(MergeRecord(x, y), y)
<1>1. CASE x = NoRecord \/ y = NoRecord
  BY <1>1 DEF MergeRecord, Keeps, Record
<1>2. CASE x # NoRecord /\ y # NoRecord
  <2>1. x \in Record /\ y \in Record /\ MergeRecord(x, y) # NoRecord
    BY <1>2, MergeRecordType
  <2>2. /\ MergeRecord(x, y).updated >= x.updated
        /\ MergeRecord(x, y).updated >= y.updated
    BY <2>1, MergeFields DEF Newest, Record
  <2>3. \A z \in {x, y} : z.marks # NoMarks =>
          /\ MergeRecord(x, y).marks # NoMarks
          /\ z.marks \subseteq MergeRecord(x, y).marks
    <3>1. Bookmarks(x) \in SUBSET Mark /\ Bookmarks(y) \in SUBSET Mark
      BY <2>1 DEF Bookmarks, Record
    <3>2. Bookmarks(x) \cup Bookmarks(y) # NoMarks
      BY <3>1, NoMarksApart
    <3>3. MergeRecord(x, y).marks = MergeMarks(x, y)
      BY <2>1, MergeFields
    <3> QED BY <1>2, <3>2, <3>3 DEF MergeMarks, Bookmarks
  <2> QED BY <2>1, <2>2, <2>3 DEF Keeps
<1> QED BY <1>1, <1>2
-----------------------------------------------------------------------------
(* What a session is about, and what KOReader makes of it. *)

LEMMA ScopeType ==
  ASSUME NEW x \in Entry, NEW s
  PROVE  /\ ScopeRecord(x, s) \in Entry
         /\ ScopeRecord(x, s) = NoRecord <=> x = NoRecord
         /\ ScopeRecord(ScopeRecord(x, s), s) = ScopeRecord(x, s)
<1>1. CASE x = NoRecord
  BY <1>1 DEF ScopeRecord
<1>2. CASE x # NoRecord
  <2>1. x \in Record
    BY <1>2
  <2>2. ScopeRecord(x, s) \in Record
    BY <1>2, <2>1 DEF ScopeRecord, Record
  <2>3. ScopeRecord(x, s) # NoRecord
    BY <2>2, NoRecordAssumption
  <2>4. ScopeRecord(ScopeRecord(x, s), s) = ScopeRecord(x, s)
    BY <1>2, <2>1, <2>2, <2>3 DEF ScopeRecord, Record
  <2> QED BY <1>2, <2>2, <2>3, <2>4
<1> QED BY <1>1, <1>2

\* A merge of what a session is about is what the session is about.
LEMMA ScopeMerge ==
  ASSUME NEW x \in Entry, NEW y \in Entry, NEW s,
         ScopeRecord(x, s) = x, ScopeRecord(y, s) = y
  PROVE  ScopeRecord(MergeRecord(x, y), s) = MergeRecord(x, y)
<1>1. CASE x = NoRecord \/ y = NoRecord
  BY <1>1 DEF MergeRecord
<1>2. CASE x # NoRecord /\ y # NoRecord
  <2> DEFINE m == MergeRecord(x, y)
  <2>1. x \in Record /\ y \in Record /\ m \in Record /\ m # NoRecord
    BY <1>2, MergeRecordType
  <2>2. /\ "reading" \notin s => /\ x.position = Absent /\ x.marks = NoMarks
                                /\ y.position = Absent /\ y.marks = NoMarks
        /\ "document_settings" \notin s => x.layout = Absent /\ y.layout = Absent
    BY <1>2, <2>1 DEF ScopeRecord, Record
  <2>3. /\ "reading" \notin s => m.position = Absent /\ m.marks = NoMarks
        /\ "document_settings" \notin s => m.layout = Absent
    BY <2>1, <2>2, MergeFields DEF Newest, MergeMarks
  <2> HIDE DEF m
  <2>4. ScopeRecord(m, s) = m
    BY <2>1, <2>3 DEF ScopeRecord, Record
  <2> QED BY <2>4 DEF m
<1> QED BY <1>1, <1>2

LEMMA AppliedType ==
  ASSUME NEW k \in Entry, NEW m \in Entry
  PROVE  /\ Applied(k, m) \in Entry
         /\ Applied(k, m) = NoRecord <=> k = NoRecord /\ m = NoRecord
<1>1. CASE k = NoRecord \/ m = NoRecord
  BY <1>1 DEF Applied
<1>2. CASE k # NoRecord /\ m # NoRecord
  <2>1. k \in Record /\ m \in Record
    BY <1>2
  <2>2. Applied(k, m) \in Record
    BY <1>2, <2>1 DEF Applied, Field, Record
  <2> QED BY <1>2, <2>2, NoRecordAssumption
<1> QED BY <1>1, <1>2

\* An export after an import is the import applied to the export before.
LEMMA ScopeApplied ==
  ASSUME NEW k \in Entry, NEW m \in Entry, NEW s, ScopeRecord(m, s) = m
  PROVE  ScopeRecord(Applied(k, m), s) = Applied(ScopeRecord(k, s), m)
<1>1. CASE k = NoRecord \/ m = NoRecord
  BY <1>1, ScopeType DEF Applied, ScopeRecord
<1>2. CASE k # NoRecord /\ m # NoRecord
  <2>1. k \in Record /\ m \in Record /\ Applied(k, m) # NoRecord
    BY <1>2, AppliedType
  <2>2. ScopeRecord(k, s) \in Record /\ ScopeRecord(k, s) # NoRecord
    BY <1>2, ScopeType
  <2>3. /\ "reading" \notin s => m.position = Absent /\ m.marks = NoMarks
        /\ "document_settings" \notin s => m.layout = Absent
    BY <1>2, <2>1 DEF ScopeRecord, Record
  <2> QED BY <1>2, <2>1, <2>2, <2>3 DEF ScopeRecord, Applied, Field, Record
<1> QED BY <1>1, <1>2

\* An import that does not go back behind what is exported takes nothing back.
LEMMA AppliedKeeps ==
  ASSUME NEW k \in Record, NEW m \in Entry, NEW s,
         ScopeRecord(m, s) = m, Keeps(m, ScopeRecord(k, s))
  PROVE  /\ Applied(k, m) # NoRecord
         /\ Applied(k, m).updated >= k.updated
         /\ Bookmarks(k) \subseteq Bookmarks(Applied(k, m))
<1>1. k # NoRecord /\ ScopeRecord(k, s) # NoRecord
  BY NoRecordAssumption, ScopeType
<1>2. m # NoRecord /\ m \in Record /\ Applied(k, m) # NoRecord
  BY <1>1, AppliedType DEF Keeps
<1>3. Applied(k, m).updated >= k.updated
  BY <1>1, <1>2 DEF Applied, Keeps, ScopeRecord, Record
<1>4. Applied(k, m).marks = IF m.marks = NoMarks THEN k.marks ELSE m.marks
  BY <1>1, <1>2 DEF Applied
<1>5. k.marks # NoMarks /\ m.marks # NoMarks => k.marks \subseteq m.marks
  <2>1. "reading" \notin s => m.marks = NoMarks
    BY <1>2 DEF ScopeRecord, Record
  <2>2. "reading" \in s => ScopeRecord(k, s).marks = k.marks
    BY <1>1 DEF ScopeRecord
  <2> QED BY <1>1, <2>1, <2>2 DEF Keeps
<1> QED BY <1>1, <1>2, <1>3, <1>4, <1>5 DEF Bookmarks

\* A merge that is imported by one of the two it was made of.
LEMMA AppliedAgreed ==
  ASSUME NEW x \in Entry, NEW y \in Entry, ~Tied(x, y), NEW k \in {x, y}
  PROVE  Agreed(Applied(k, MergeRecord(x, y)), x, y)
<1> DEFINE m == MergeRecord(x, y)
<1>1. Agreed(m, x, y) /\ m \in Entry /\ (m = NoRecord <=> x = NoRecord /\ y = NoRecord)
  BY MergeAgreed, MergeRecordType
<1>2. Keeps(m, k)
  BY MergeKeeps
<1>3. k \in Entry
  OBVIOUS
<1> HIDE DEF m
<1>4. ASSUME k = NoRecord \/ m = NoRecord PROVE Agreed(Applied(k, m), x, y)
  <2>1. Applied(k, m) = m
    BY <1>1, <1>4 DEF Applied
  <2> QED BY <1>1, <2>1
<1>5. ASSUME k # NoRecord /\ m # NoRecord PROVE Agreed(Applied(k, m), x, y)
  <2>1. k \in Record /\ m \in Record /\ Applied(k, m) # NoRecord
    BY <1>1, <1>3, <1>5, AppliedType
  <2>2. /\ Applied(k, m).updated = m.updated
        /\ m.position # Absent => Applied(k, m).position = m.position
        /\ m.position = Absent => Applied(k, m).position = k.position
        /\ m.layout # Absent => Applied(k, m).layout = m.layout
        /\ m.layout = Absent => Applied(k, m).layout = k.layout
    BY <1>5 DEF Applied, Field
  <2>3. Bookmarks(Applied(k, m)) = Bookmarks(m)
    BY <1>2, <1>5, <2>1 DEF Applied, Bookmarks, Keeps
  <2>4. \A z : Has(m, z) => Has(Applied(k, m), z)
    <3> SUFFICES ASSUME NEW z, Has(m, z) PROVE Has(Applied(k, m), z)
      OBVIOUS
    <3>1. z.position = Absent \/ z.position = Applied(k, m).position
      BY <2>2 DEF Has
    <3>2. z.layout = Absent \/ z.layout = Applied(k, m).layout
      BY <2>2 DEF Has
    <3>3. Applied(k, m).updated = z.updated
      BY <2>2 DEF Has
    <3> QED BY <3>1, <3>2, <3>3, Zenon DEF Has
  <2> QED BY <1>1, <1>5, <2>1, <2>3, <2>4 DEF Agreed
<1> QED BY <1>4, <1>5 DEF m
-----------------------------------------------------------------------------
(* The session. *)

\* From its export on a device's state is what it exported, except for what
\* its user changed, until it imports.
Exported(d, payload, changed) ==
  \A b \in Book \ changed[d] : Export(d)[b] = payload[b]

InScope(payload) == \A b \in Book : ScopeRecord(payload[b], scope) = payload[b]

AgreedOn(d) ==
  \A b \in Book :
    b \notin edited[initiator] \cup edited[acceptor] /\ ~Tied(mine[b], theirs[b]) =>
      Agreed(Export(d)[b], mine[b], theirs[b])

Snapshots ==
  /\ phase \notin {"idle", "open"} => InScope(mine)
  /\ phase \in {"offered", "working", "sent", "received", "applied"} =>
       Exported(initiator, mine, edited) /\ Exported(initiator, mine, unseen)
  /\ phase \in {"working", "sent", "received", "applied", "done"} => InScope(theirs)
  /\ phase \in {"working", "sent", "received"} => Exported(acceptor, theirs, edited)

Decided ==
  /\ phase \in {"sent", "received", "applied", "done"} => merged = Merge(mine, theirs)
  /\ phase = "received" =>
       /\ InScope(outcome)
       /\ \A b \in Book \ edited[acceptor] :
            outcome[b] = MergeRecord(MergeRecord(theirs[b], mine[b]), merged[b])
       /\ \A b \in Book \ unseen[acceptor] : Keeps(outcome[b], Export(acceptor)[b])
  /\ phase \in {"applied", "done"} => AgreedOn(acceptor)
  /\ phase = "done" => AgreedOn(initiator)

IInv == TypeOK /\ Snapshots /\ Decided

LEMMA ExportType ==
  ASSUME TypeOK, NEW d \in Device
  PROVE  /\ Export(d) \in Payload
         /\ \A b \in Book : Export(d)[b] = ScopeRecord(koreader[d][b], scope)
         /\ InScope(Export(d))
BY ScopeType DEF TypeOK, Payload, Export, Scoped, InScope

LEMMA MergeType ==
  ASSUME NEW x \in Payload, NEW y \in Payload
  PROVE  Merge(x, y) \in Payload
BY MergeRecordType DEF Merge, Payload

LEMMA MergeInScope ==
  ASSUME NEW x \in Payload, NEW y \in Payload, InScope(x), InScope(y)
  PROVE  InScope(Merge(x, y))
BY ScopeMerge DEF Merge, Payload, InScope

LEMMA InitInv == Init => IInv
<1> SUFFICES ASSUME Init PROVE IInv
  OBVIOUS
<1>1. koreader \in [Device -> Payload]
  <2>1. [updated : Time, position : Position, marks : (SUBSET Mark) \cup {NoMarks},
         layout : Layout] \subseteq Record
    BY TimeAssumption DEF Record
  <2>2. koreader \in [Device -> [Book -> Record \cup {NoRecord}]]
    BY <2>1 DEF Init
  <2> QED BY <2>2 DEF Payload, Entry
<1>2. TypeOK
  BY <1>1 DEF Init, TypeOK, Nothing, Payload, Phase
<1>3. Snapshots /\ Decided
  BY DEF Init, Snapshots, Decided
<1> QED BY <1>2, <1>3 DEF IInv

\* What an import makes of a device.
LEMMA ImportType ==
  ASSUME TypeOK, NEW d \in Device, NEW payload \in Payload, InScope(payload),
         Import(d, payload)
  PROVE  /\ koreader' \in [Device -> Payload]
         /\ \A c \in Device \ {d} : koreader'[c] = koreader[c]
         /\ \A b \in Book : koreader'[d][b] = Applied(koreader[d][b], payload[b])
<1>1. \A b \in Book : /\ koreader'[d][b] = Applied(koreader[d][b], payload[b])
                      /\ koreader'[d][b] \in Entry
  <2> SUFFICES ASSUME NEW b \in Book
               PROVE  /\ koreader'[d][b] = Applied(koreader[d][b], payload[b])
                      /\ koreader'[d][b] \in Entry
    OBVIOUS
  <2>1. koreader[d][b] \in Entry /\ payload[b] \in Entry
    BY DEF TypeOK, Payload
  <2>2. Scoped(payload, scope)[b] = payload[b]
    BY DEF Scoped, InScope
  <2>3. koreader'[d][b] = Applied(koreader[d][b], Scoped(payload, scope)[b])
    BY DEF Import, TypeOK
  <2> QED BY <2>1, <2>2, <2>3, AppliedType
<1>2. koreader'[d] \in Payload
  BY <1>1 DEF Import, TypeOK, Payload
<1> QED BY <1>1, <1>2 DEF Import, TypeOK

\* A user's change of one book.
LEMMA ChangeInv ==
  ASSUME IInv, NEW d \in Device, NEW b \in Book, NEW record \in Record,
         Change(d, b, record)
  PROVE  IInv'
<1> USE DEF IInv, Change, session, payloads
<1>1. TypeOK'
  BY DEF TypeOK, Payload
<1>2. /\ scope' = scope
      /\ \A c \in Device, e \in Book :
           e \notin edited'[c] \/ e \notin unseen'[c] =>
             /\ e \notin edited[c] \/ e \notin unseen[c]
             /\ koreader'[c][e] = koreader[c][e]
      /\ \A c \in Device, e \in Book : e \notin edited'[c] => e \notin edited[c]
      /\ \A c \in Device, e \in Book : e \notin unseen'[c] => e \notin unseen[c]
  BY DEF scope, TypeOK, Payload
<1>3. \A c \in Device, e \in Book :
        e \notin edited'[c] \/ e \notin unseen'[c] => Export(c)'[e] = Export(c)[e]
  BY <1>2 DEF Export, Scoped, scope
<1>4. Snapshots'
  BY <1>2, <1>3 DEF Snapshots, Exported, InScope, TypeOK
<1>5. Decided'
  BY <1>2, <1>3 DEF Decided, AgreedOn, InScope, TypeOK
<1> QED BY <1>1, <1>4, <1>5

LEMMA UserStepInv == IInv /\ UserStep => IInv'
<1> SUFFICES ASSUME IInv, NEW d \in Device, NEW b \in Book, NEW t \in Time,
                    \/ \E p \in Position : Read(d, b, t, p)
                    \/ \E l \in Layout : Restyle(d, b, t, l)
                    \/ \E marks \in SUBSET Mark : Bookmark(d, b, t, marks)
             PROVE  IInv'
  BY DEF UserStep
<1>1. koreader[d][b] \in Record
  BY DEF IInv, TypeOK, Payload, Read, Restyle, Bookmark
<1>2. \E record \in Record : Change(d, b, record)
  BY <1>1, TimeAssumption DEF Read, Restyle, Bookmark, Record
<1> QED BY <1>2, ChangeInv

LEMMA OpenInv ==
  ASSUME IInv, NEW i \in Device, NEW a \in Device, NEW s \in Selections, Open(i, a, s)
  PROVE  IInv'
BY DEF IInv, TypeOK, Phase, Snapshots, Decided, Open, payloads

LEMMA ExportMineInv == IInv /\ ExportMine => IInv'
<1> SUFFICES ASSUME IInv, ExportMine PROVE IInv'
  OBVIOUS
<1> USE DEF IInv, ExportMine, Goto
<1>1. mine' \in Payload /\ InScope(mine') /\ initiator \in Device
  BY ExportType DEF TypeOK
<1>2. TypeOK'
  BY <1>1 DEF TypeOK, Phase
<1>3. \A d \in Device : Export(d)' = Export(d)
  BY DEF Export, scope
<1>4. Snapshots'
  BY <1>1, <1>3 DEF Snapshots, Exported, InScope, scope
<1>5. Decided'
  BY DEF Decided
<1> QED BY <1>2, <1>4, <1>5

LEMMA ExportTheirsInv == IInv /\ ExportTheirs => IInv'
<1> SUFFICES ASSUME IInv, ExportTheirs PROVE IInv'
  OBVIOUS
<1> USE DEF IInv, ExportTheirs, Goto
<1>1. theirs' \in Payload /\ InScope(theirs') /\ acceptor \in Device
  BY ExportType DEF TypeOK
<1>2. TypeOK'
  BY <1>1 DEF TypeOK, Phase
<1>3. \A d \in Device : Export(d)' = Export(d)
  BY DEF Export, scope
<1>4. edited'[initiator] = edited[initiator] /\ unseen'[initiator] = unseen[initiator]
  BY DEF TypeOK
<1>5. Snapshots'
  BY <1>1, <1>3, <1>4 DEF Snapshots, Exported, InScope, scope, TypeOK
<1>6. Decided'
  BY DEF Decided
<1> QED BY <1>2, <1>5, <1>6

LEMMA SendReadingInv == IInv /\ SendReading => IInv'
<1> SUFFICES ASSUME IInv, SendReading PROVE IInv'
  OBVIOUS
<1> USE DEF IInv, SendReading, Goto
<1>1. TypeOK'
  BY MergeType DEF TypeOK, Phase
<1>2. Snapshots'
  BY DEF Snapshots, Exported, InScope, Export, scope
<1>3. Decided'
  BY DEF Decided
<1> QED BY <1>1, <1>2, <1>3

LEMMA ReceiveReadingInv == IInv /\ ReceiveReading => IInv'
<1> SUFFICES ASSUME IInv, ReceiveReading PROVE IInv'
  OBVIOUS
<1> USE DEF IInv, ReceiveReading, Goto
<1> DEFINE now == Export(acceptor)
<1>1. now \in Payload /\ InScope(now) /\ mine \in Payload /\ merged \in Payload
      /\ theirs \in Payload
  BY ExportType DEF TypeOK
<1>2. Merge(now, mine) \in Payload /\ InScope(Merge(now, mine)) /\ InScope(merged)
  BY <1>1, MergeType, MergeInScope DEF Snapshots, Decided
<1>3. outcome' \in Payload /\ InScope(outcome')
  BY <1>1, <1>2, MergeType, MergeInScope
<1>4. TypeOK'
  BY <1>3 DEF TypeOK, Phase
<1>5. Snapshots'
  <2>1. \A d \in Device : Export(d)' = Export(d)
    BY DEF Export, scope
  <2>2. unseen'[initiator] = unseen[initiator]
    BY DEF TypeOK
  <2> QED BY <2>1, <2>2 DEF Snapshots, Exported, InScope, scope, TypeOK
<1>6. \A b \in Book : outcome'[b] = MergeRecord(MergeRecord(now[b], mine[b]), merged[b])
  BY DEF Merge
<1>7. \A b \in Book \ edited[acceptor] : now[b] = theirs[b]
  BY DEF Snapshots, Exported
<1>8. \A b \in Book : Keeps(outcome'[b], now[b])
  <2> SUFFICES ASSUME NEW b \in Book PROVE Keeps(outcome'[b], now[b])
    OBVIOUS
  <2>1. now[b] \in Entry /\ mine[b] \in Entry /\ merged[b] \in Entry
    BY <1>1 DEF Payload
  <2> HIDE DEF now
  <2>2. MergeRecord(now[b], mine[b]) \in Entry /\ outcome'[b] \in Entry
    BY <2>1, <1>6, MergeRecordType
  <2> QED BY <2>1, <2>2, <1>6, MergeKeeps, KeepsTransitive
<1>9. Decided'
  <2>1. /\ now' = now /\ scope' = scope
        /\ acceptor' = acceptor /\ edited' = edited /\ mine' = mine
        /\ theirs' = theirs /\ merged' = merged /\ phase' = "received"
    BY DEF Export, scope
  <2> HIDE DEF ReceiveReading, Goto, now
  <2>2. InScope(outcome)'
    BY <1>3, <2>1 DEF InScope
  <2> QED BY <1>6, <1>7, <1>8, <2>1, <2>2 DEF Decided, now, ReceiveReading, Goto
<1> QED BY <1>4, <1>5, <1>9

LEMMA ImportTheirsInv == IInv /\ ImportTheirs => IInv'
<1> SUFFICES ASSUME IInv, ImportTheirs PROVE IInv'
  OBVIOUS
<1>1. /\ TypeOK /\ Snapshots /\ Decided
      /\ phase = "received" /\ phase' = "applied"
      /\ initiator' = initiator /\ acceptor' = acceptor /\ selection' = selection
      /\ mine' = mine /\ theirs' = theirs /\ merged' = merged /\ outcome' = outcome
      /\ edited' = edited /\ unseen' = unseen /\ edits' = edits
      /\ Import(acceptor, outcome) /\ scope' = scope
  BY DEF IInv, ImportTheirs, Goto, payloads, scope
<1>2. /\ InScope(mine) /\ InScope(theirs) /\ InScope(outcome)
      /\ initiator \in Device /\ acceptor \in Device /\ initiator # acceptor
      /\ mine \in Payload /\ theirs \in Payload /\ outcome \in Payload
  BY <1>1 DEF TypeOK, Snapshots, Decided
<1>3. /\ koreader' \in [Device -> Payload]
      /\ koreader'[initiator] = koreader[initiator]
      /\ \A b \in Book : koreader'[acceptor][b] = Applied(koreader[acceptor][b], outcome[b])
  BY <1>1, <1>2, ImportType
<1>4. TypeOK'
  BY <1>1, <1>3 DEF TypeOK, Phase
<1>5. Snapshots'
  BY <1>1, <1>3 DEF Snapshots, Exported, InScope, Export, Scoped, TypeOK
<1>6. AgreedOn(acceptor)'
  <2> SUFFICES ASSUME NEW b \in Book, b \notin edited[initiator] \cup edited[acceptor],
                      ~Tied(mine[b], theirs[b])
               PROVE  Agreed(Export(acceptor)'[b], mine[b], theirs[b])
    BY <1>1 DEF AgreedOn
  <2> DEFINE m == MergeRecord(mine[b], theirs[b])
  <2>1. mine[b] \in Entry /\ theirs[b] \in Entry /\ koreader[acceptor][b] \in Entry
    BY <1>1, <1>2 DEF TypeOK, Payload
  <2>2. outcome[b] = m
    <3>1. merged[b] = m
      BY <1>1 DEF Decided, Merge
    <3>2. outcome[b] = MergeRecord(MergeRecord(theirs[b], mine[b]), merged[b])
      BY <1>1 DEF Decided
    <3> QED BY <2>1, <3>1, <3>2, MergeAbsorbs
  <2>3. ScopeRecord(koreader[acceptor][b], scope) = theirs[b]
    BY <1>1, <1>2, ExportType DEF Snapshots, Exported
  <2>4. Export(acceptor)'[b] = ScopeRecord(koreader'[acceptor][b], scope)
    BY <1>1 DEF Export, Scoped
  <2>5. m \in Entry /\ ScopeRecord(m, scope) = m
    BY <1>2, <2>1, <2>2, MergeRecordType DEF InScope
  <2> HIDE DEF m
  <2>6. Export(acceptor)'[b] = Applied(theirs[b], m)
    BY <1>3, <2>1, <2>2, <2>3, <2>4, <2>5, ScopeApplied
  <2> QED BY <2>1, <2>6, AppliedAgreed DEF m
<1>7. Decided'
  BY <1>1, <1>6 DEF Decided
<1> QED BY <1>4, <1>5, <1>7 DEF IInv

LEMMA ImportMineInv == IInv /\ ImportMine => IInv'
<1> SUFFICES ASSUME IInv, ImportMine PROVE IInv'
  OBVIOUS
<1>1. /\ TypeOK /\ Snapshots /\ Decided
      /\ phase = "applied" /\ phase' = "done"
      /\ initiator' = initiator /\ acceptor' = acceptor /\ selection' = selection
      /\ mine' = mine /\ theirs' = theirs /\ merged' = merged /\ outcome' = outcome
      /\ edited' = edited /\ unseen' = unseen /\ edits' = edits
      /\ Import(initiator, merged) /\ scope' = scope
  BY DEF IInv, ImportMine, Goto, payloads, scope
<1>2. /\ InScope(mine) /\ InScope(theirs) /\ merged = Merge(mine, theirs)
      /\ initiator \in Device /\ acceptor \in Device /\ initiator # acceptor
      /\ mine \in Payload /\ theirs \in Payload /\ merged \in Payload
      /\ AgreedOn(acceptor)
  BY <1>1 DEF TypeOK, Snapshots, Decided
<1>3. InScope(merged)
  BY <1>2, MergeInScope
<1>4. /\ koreader' \in [Device -> Payload]
      /\ koreader'[acceptor] = koreader[acceptor]
      /\ \A b \in Book : koreader'[initiator][b] = Applied(koreader[initiator][b], merged[b])
  BY <1>1, <1>2, <1>3, ImportType
<1>5. TypeOK'
  BY <1>1, <1>4 DEF TypeOK, Phase
<1>6. Snapshots'
  BY <1>1 DEF Snapshots, InScope
<1>7. AgreedOn(acceptor)'
  BY <1>1, <1>2, <1>4 DEF AgreedOn, Export, Scoped
<1>8. AgreedOn(initiator)'
  <2> SUFFICES ASSUME NEW b \in Book, b \notin edited[initiator] \cup edited[acceptor],
                      ~Tied(mine[b], theirs[b])
               PROVE  Agreed(Export(initiator)'[b], mine[b], theirs[b])
    BY <1>1 DEF AgreedOn
  <2> DEFINE m == MergeRecord(mine[b], theirs[b])
  <2>1. mine[b] \in Entry /\ theirs[b] \in Entry /\ koreader[initiator][b] \in Entry
    BY <1>1, <1>2 DEF TypeOK, Payload
  <2>2. merged[b] = m
    BY <1>2 DEF Merge
  <2>3. ScopeRecord(koreader[initiator][b], scope) = mine[b]
    BY <1>1, <1>2, ExportType DEF Snapshots, Exported
  <2>4. Export(initiator)'[b] = ScopeRecord(koreader'[initiator][b], scope)
    BY <1>1 DEF Export, Scoped
  <2>5. m \in Entry /\ ScopeRecord(m, scope) = m
    BY <1>3, <2>1, <2>2, MergeRecordType DEF InScope
  <2> HIDE DEF m
  <2>6. Export(initiator)'[b] = Applied(mine[b], m)
    BY <1>4, <2>1, <2>2, <2>3, <2>4, <2>5, ScopeApplied
  <2> QED BY <2>1, <2>6, AppliedAgreed DEF m
<1>9. Decided'
  BY <1>1, <1>7, <1>8 DEF Decided
<1> QED BY <1>5, <1>6, <1>9 DEF IInv

LEMMA ForgetInv == IInv /\ (Close \/ BreakOff) => IInv'
<1> SUFFICES ASSUME IInv, Close \/ BreakOff PROVE IInv'
  OBVIOUS
<1>1. TypeOK'
  BY DEF IInv, TypeOK, Close, BreakOff, Goto, Forget, Nothing, Payload, Phase
<1>2. Snapshots' /\ Decided'
  BY DEF Close, BreakOff, Goto, Snapshots, Decided
<1> QED BY <1>1, <1>2 DEF IInv

LEMMA StutterInv == IInv /\ UNCHANGED vars => IInv'
BY DEF IInv, TypeOK, Snapshots, Decided, Exported, InScope, AgreedOn, Export, scope,
       vars, session, payloads

LEMMA StepInv == IInv /\ [Next]_vars => IInv'
BY OpenInv, ExportMineInv, ExportTheirsInv, SendReadingInv, ReceiveReadingInv,
   ImportTheirsInv, ImportMineInv, ForgetInv, UserStepInv, StutterInv
DEF Next, SessionStep
-----------------------------------------------------------------------------
(* Theorems. *)

\* What a session holds is at every point what its two ends exported, merged
\* and imported, but for the books their users changed meanwhile.
THEOREM ReadingInvariant == Spec => []IInv
BY InitInv, StepInv, PTL DEF Spec

\* Every export, merge and import yields well-formed records: the time, the
\* fields and the bookmarks of a record stay what they may be.
THEOREM ReadingTyping == Spec => []TypeOK
<1>1. IInv => TypeOK
  BY DEF IInv
<1> QED BY <1>1, ReadingInvariant, PTL

\* After a session both devices have what the newer record of a book said and
\* the bookmarks of both, whatever was selected and however often it broke off
\* before.
THEOREM ReadingConverges == Spec => []Converged
<1>1. IInv => Converged
  BY DEF IInv, Decided, AgreedOn, Converged
<1> QED BY <1>1, ReadingInvariant, PTL

\* What one import takes of a device that has not changed since its export.
LEMMA ImportKeeps ==
  ASSUME TypeOK, NEW d \in Device, NEW payload \in Payload, InScope(payload),
         Import(d, payload), NEW b \in Book, koreader[d][b] # NoRecord,
         Keeps(payload[b], Export(d)[b])
  PROVE  /\ koreader'[d][b] # NoRecord
         /\ koreader'[d][b].updated >= koreader[d][b].updated
         /\ Bookmarks(koreader[d][b]) \subseteq Bookmarks(koreader'[d][b])
<1>1. koreader[d][b] \in Record /\ payload[b] \in Entry
  BY DEF TypeOK, Payload
<1>2. ScopeRecord(payload[b], scope) = payload[b]
  BY DEF InScope
<1>3. Keeps(payload[b], ScopeRecord(koreader[d][b], scope))
  BY ExportType
<1>4. koreader'[d][b] = Applied(koreader[d][b], payload[b])
  BY ImportType
<1> QED BY <1>1, <1>2, <1>3, <1>4, AppliedKeeps

\* No step of a session takes a device back behind a time or a bookmark it
\* had when it last exported, or has got since by that session.
THEOREM ReadingNotTakenBack == Spec => NothingTakenBack
<1> DEFINE Kept(d, b) ==
      /\ koreader'[d][b] # NoRecord
      /\ koreader'[d][b].updated >= koreader[d][b].updated
      /\ Bookmarks(koreader[d][b]) \subseteq Bookmarks(koreader'[d][b])
<1>1. ASSUME IInv, SessionStep, NEW d \in Device, NEW b \in Book, b \notin unseen[d],
             koreader[d][b] # NoRecord
      PROVE  Kept(d, b)
  <2>1. TypeOK /\ koreader[d][b] \in Record
    BY <1>1 DEF IInv, TypeOK, Payload
  <2>2. CASE koreader' = koreader
    BY <1>1, <2>1, <2>2 DEF Record
  <2>3. CASE ImportTheirs
    <3>1. Import(acceptor, outcome) /\ InScope(outcome) /\ outcome \in Payload
          /\ acceptor \in Device
      BY <1>1, <2>3 DEF ImportTheirs, IInv, Decided, TypeOK
    <3>2. CASE d = acceptor
      <4>1. Keeps(outcome[b], Export(d)[b])
        BY <1>1, <2>3, <3>2 DEF ImportTheirs, IInv, Decided
      <4> QED BY <1>1, <2>1, <3>1, <3>2, <4>1, ImportKeeps
    <3>3. CASE d # acceptor
      <4>1. koreader'[d] = koreader[d]
        BY <2>1, <3>1, <3>3, ImportType
      <4> QED BY <1>1, <2>1, <4>1 DEF Record
    <3> QED BY <3>2, <3>3
  <2>4. CASE ImportMine
    <3>1. Import(initiator, merged) /\ merged = Merge(mine, theirs) /\ merged \in Payload
          /\ mine \in Payload /\ theirs \in Payload /\ InScope(mine) /\ InScope(theirs)
          /\ initiator \in Device /\ Exported(initiator, mine, unseen)
      BY <1>1, <2>4 DEF ImportMine, IInv, Decided, Snapshots, TypeOK
    <3>2. InScope(merged)
      BY <3>1, MergeInScope
    <3>3. CASE d = initiator
      <4>1. merged[b] = MergeRecord(mine[b], theirs[b]) /\ Export(d)[b] = mine[b]
        BY <1>1, <3>1, <3>3 DEF Merge, Exported
      <4>2. mine[b] \in Entry /\ theirs[b] \in Entry
        BY <3>1 DEF Payload
      <4>3. Keeps(merged[b], Export(d)[b])
        BY <4>1, <4>2, MergeKeeps
      <4> QED BY <1>1, <2>1, <3>1, <3>2, <3>3, <4>3, ImportKeeps
    <3>4. CASE d # initiator
      <4>1. koreader'[d] = koreader[d]
        BY <2>1, <3>1, <3>2, <3>4, ImportType
      <4> QED BY <1>1, <2>1, <4>1 DEF Record
    <3> QED BY <3>3, <3>4
  <2> QED BY <1>1, <2>2, <2>3, <2>4
      DEF SessionStep, Open, ExportMine, ExportTheirs, SendReading, ReceiveReading,
          Close, BreakOff
<1>2. IInv => [\A d \in Device, b \in Book :
         SessionStep /\ b \notin unseen[d] /\ koreader[d][b] # NoRecord => Kept(d, b)]_vars
  BY <1>1
<1> QED BY <1>2, ReadingInvariant, PTL DEF NothingTakenBack
-----------------------------------------------------------------------------
(* The tables of directories and kinds. *)

\* The rows of the table of directories.
AllRoots == UNION {RootsOf[item] : item \in SyncItem}


\* There is no other.
LEMMA RootList ==
  ASSUME NEW root \in AllRoots
  PROVE  \/ root = Root("xochitl_document", "books", "XochitlDocument")
         \/ root = Root("koreader_data", ".local/share/koreader-for-remagic/data", "KoreaderData")
         \/ root = Root("koreader_legacy_data", ".local/share/remagic-koreader/data", "KoreaderData")
         \/ root = Root("magicpaper_data", ".local/share/magicpaper", "All")
         \/ root = Root("magicpaper_config", ".config/magicpaper", "MagicpaperConfig")
         \/ root = Root("magicpaper_legacy_data", ".local/share/remagic-magicpaper", "All")
         \/ root = Root("magicpaper_legacy_config", ".config/remagic-magicpaper", "MagicpaperConfig")
         \/ root = Root("magicpaper_riddle_data", "riddle-data", "All")
         \/ root = Root("magicpaper_riddle_config", ".config/riddle", "MagicpaperConfig")
         \/ root = Root("wallpaper", "wallpapers", "Wallpaper")
         \/ root = Root("home_settings", ".config/remagic", "ExactHome")
         \/ root = Root("remagic_secret", ".config/remagic/secrets/providers", "All")
         \/ root = Root("magicpaper_oracle_secret", ".config/magicpaper", "ExactOracle")
PROOF
  BY DEF AllRoots, SyncItem, RootsOf

\* The receiver knows every kind that is announced and the place it came from.
LEMMA KnownRoot ==
  ASSUME NEW root \in AllRoots
  PROVE  /\ root.kind \in ValidKind \cap KnownFormat
         /\ PlaceOfKind[root.kind] = Place(root.dir, root.filter)
PROOF
  BY RootList DEF Root, ValidKind, KnownFormat, PlaceOfKind, Place

\* One directory is walked twice: the configuration and the keys of MagicPaper.
LEMMA SharedDirectory ==
  ASSUME NEW root \in AllRoots, NEW other \in AllRoots, root # other, root.dir = other.dir
  PROVE  {root.filter, other.filter} = {"MagicpaperConfig", "ExactOracle"}
PROOF
  BY RootList DEF Root

LEMMA KeysApart ==
  Accepts["MagicpaperConfig"] \cap Accepts["ExactOracle"] = {}
PROOF
  BY DEF Accepts

\* Whatever is ticked, a file a scan offers travels under one kind, and the
\* receiver stores that kind, checks it and puts it where it came from: the
\* tables of roots.rs, catalog.rs and storage.rs agree, and no key of MagicPaper
\* travels as configuration.
THEOREM FilesAlwaysKeepTheirPlace == Spec => []FilesKeepTheirPlace
<1>1. ASSUME IInv PROVE FilesKeepTheirPlace
  <2>1. selection \subseteq SyncItem
    BY <1>1, SelectionsAssumption DEF IInv, TypeOK
  <2>2. RootsFor(selection) \subseteq AllRoots
    BY <2>1 DEF RootsFor, AllRoots
  <2> SUFFICES ASSUME NEW root \in RootsFor(selection)
               PROVE  /\ root.kind \in ValidKind \cap KnownFormat
                      /\ KindInScope(root.kind, selection)
                      /\ PlaceOfKind[root.kind] = Place(root.dir, root.filter)
                      /\ \A other \in RootsFor(selection) \ {root} :
                           other.dir = root.dir =>
                             Accepts[other.filter] \cap Accepts[root.filter] = {}
    BY DEF FilesKeepTheirPlace
  <2>3. KindInScope(root.kind, selection)
    BY DEF KindInScope
  <2>4. ASSUME NEW other \in RootsFor(selection) \ {root}, other.dir = root.dir
        PROVE  Accepts[other.filter] \cap Accepts[root.filter] = {}
    <3>1. {root.filter, other.filter} = {"MagicpaperConfig", "ExactOracle"}
      BY <2>2, <2>4, SharedDirectory
    <3>2. \/ root.filter = "MagicpaperConfig" /\ other.filter = "ExactOracle"
          \/ root.filter = "ExactOracle" /\ other.filter = "MagicpaperConfig"
      BY <3>1
    <3> QED BY <3>2, KeysApart
  <2> QED BY <2>2, <2>3, <2>4, KnownRoot
<1> QED BY <1>1, ReadingInvariant, PTL
=============================================================================
