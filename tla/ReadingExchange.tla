--------------------------- MODULE ReadingExchange ---------------------------
(***************************************************************************)
(* The reading state of several devices, exchanged at the end of a session *)
(* (peer/mod.rs, peer/reading.rs).  Both ends export before they look for  *)
(* winners; the initiator merges the two exports and sends the result; the *)
(* acceptor exports again, merges all it knows and imports that; then the  *)
(* initiator imports what it sent.                                         *)
(*                                                                         *)
(* KOReader is external.  Its user may read, bookmark and restyle whenever *)
(* it runs, which is at any time except within one export or import: both  *)
(* release it when they are done (client.finish).  An import puts the      *)
(* fields it is given, and the time of the record, in place of its own.    *)
(*                                                                         *)
(* Abstractions.  One session at a time: PeerRuntime admits one per device *)
(* and it takes two.  The merged state is one message (FileTransfer has    *)
(* the chunks of a stream).  A session may break off at any point; what    *)
(* the acceptor does with a message it already has, it does before.        *)
(***************************************************************************)
EXTENDS ReadingMerge, SyncScope

CONSTANTS Device,
          Time,         \* times KOReader gives to a change
          Selections,   \* the selections a user makes
          MaxEdits      \* bound on the changes of a behaviour

ASSUME TimeAssumption == Time \subseteq Int
ASSUME SelectionsAssumption == Selections \subseteq SUBSET SyncItem
ASSUME MaxEditsAssumption == MaxEdits \in Nat

VARIABLES
  koreader,     \* what KOReader has, per device
  phase,        \* where the session is
  initiator, acceptor,
  selection,    \* what the session is about
  mine, theirs, \* the exports of initiator and acceptor in their snapshots
  merged,       \* what the initiator made of them and sent
  outcome,      \* what the acceptor will import
  edited,       \* history: books changed on a device since its snapshot
  unseen,       \* history: books changed on a device since its last export
  edits

session == <<phase, initiator, acceptor, selection>>
payloads == <<mine, theirs, merged, outcome>>
vars == <<koreader, session, payloads, edited, unseen, edits>>

Nothing == [b \in Book |-> NoRecord]
scope == ReadingScope(selection)

Init ==
  /\ koreader \in [Device -> [Book -> [updated : Time, position : Position,
                                       marks : (SUBSET Mark) \cup {NoMarks},
                                       layout : Layout] \cup {NoRecord}]]
  /\ phase = "idle"
  /\ initiator \in Device /\ acceptor \in Device /\ initiator # acceptor
  /\ selection \in Selections
  /\ mine = Nothing /\ theirs = Nothing /\ merged = Nothing /\ outcome = Nothing
  /\ edited = [d \in Device |-> {}]
  /\ unseen = [d \in Device |-> {}]
  /\ edits = 0

\* ReadingProvider::export on device d.
Export(d) == Scoped(koreader[d], scope)

\* What KOReader makes of a record it imports.
Field(new, old) == IF new = Absent THEN old ELSE new
Applied(old, new) ==
  IF new = NoRecord THEN old
  ELSE IF old = NoRecord THEN new
  ELSE [updated |-> new.updated,
        position |-> Field(new.position, old.position),
        marks |-> IF new.marks = NoMarks THEN old.marks ELSE new.marks,
        layout |-> Field(new.layout, old.layout)]

\* ReadingProvider::import on device d.
Import(d, payload) ==
  koreader' = [koreader EXCEPT ![d] =
                 [b \in Book |-> Applied(koreader[d][b], Scoped(payload, scope)[b])]]
-----------------------------------------------------------------------------
(* The user of KOReader. *)

Change(d, b, record) ==
  /\ edits < MaxEdits
  /\ edits' = edits + 1
  /\ koreader' = [koreader EXCEPT ![d][b] = record]
  /\ edited' = [edited EXCEPT ![d] = @ \cup {b}]
  /\ unseen' = [unseen EXCEPT ![d] = @ \cup {b}]
  /\ UNCHANGED <<session, payloads>>

Read(d, b, t, p) ==
  /\ koreader[d][b] # NoRecord
  /\ Change(d, b, [koreader[d][b] EXCEPT !.updated = t, !.position = p])

Restyle(d, b, t, l) ==
  /\ koreader[d][b] # NoRecord
  /\ Change(d, b, [koreader[d][b] EXCEPT !.updated = t, !.layout = l])

Bookmark(d, b, t, marks) ==
  /\ koreader[d][b] # NoRecord
  /\ Change(d, b, [koreader[d][b] EXCEPT !.updated = t, !.marks = marks])
-----------------------------------------------------------------------------
(* A session. *)

Goto(p) == phase' = p /\ UNCHANGED <<initiator, acceptor, selection>>

\* A session without KOReader's items exchanges no reading state.
Open(i, a, s) ==
  /\ phase = "idle"
  /\ i # a
  /\ ReadingScope(s) # {}
  /\ phase' = "open"
  /\ initiator' = i /\ acceptor' = a /\ selection' = s
  /\ UNCHANGED <<koreader, payloads, edited, unseen, edits>>

\* snapshot() of the initiator.
ExportMine ==
  /\ phase = "open"
  /\ Goto("offered")
  /\ mine' = Export(initiator)
  /\ edited' = [edited EXCEPT ![initiator] = {}]
  /\ unseen' = [unseen EXCEPT ![initiator] = {}]
  /\ UNCHANGED <<koreader, theirs, merged, outcome, edits>>

\* snapshot() of the acceptor, once it has the initiator's.
ExportTheirs ==
  /\ phase = "offered"
  /\ Goto("working")
  /\ theirs' = Export(acceptor)
  /\ edited' = [edited EXCEPT ![acceptor] = {}]
  /\ unseen' = [unseen EXCEPT ![acceptor] = {}]
  /\ UNCHANGED <<koreader, mine, merged, outcome, edits>>

\* After the loop over the winners.
SendReading ==
  /\ phase = "working"
  /\ Goto("sent")
  /\ merged' = Merge(mine, theirs)
  /\ UNCHANGED <<koreader, mine, theirs, outcome, edited, unseen, edits>>

\* Fault: the acceptor takes the export of its snapshot for its state.
ReceiveReadingStale ==
  /\ phase = "sent"
  /\ Goto("received")
  /\ outcome' = Merge(Merge(theirs, mine), merged)
  /\ unseen' = [unseen EXCEPT ![acceptor] = {}]
  /\ UNCHANGED <<koreader, mine, theirs, merged, edited, edits>>

\* serve_commands: its state now, the initiator's snapshot, what was sent.
ReceiveReading ==
  /\ phase = "sent"
  /\ Goto("received")
  /\ outcome' = Merge(Merge(Export(acceptor), mine), merged)
  /\ unseen' = [unseen EXCEPT ![acceptor] = {}]
  /\ UNCHANGED <<koreader, mine, theirs, merged, edited, edits>>

ImportTheirs ==
  /\ phase = "received"
  /\ Goto("applied")
  /\ Import(acceptor, outcome)
  /\ UNCHANGED <<payloads, edited, unseen, edits>>

\* The initiator imports when the acceptor has.
ImportMine ==
  /\ phase = "applied"
  /\ Goto("done")
  /\ Import(initiator, merged)
  /\ UNCHANGED <<payloads, edited, unseen, edits>>

Forget ==
  /\ mine' = Nothing /\ theirs' = Nothing /\ merged' = Nothing /\ outcome' = Nothing
  /\ edited' = [d \in Device |-> {}]
  /\ unseen' = [d \in Device |-> {}]

\* Done and its answer.
Close ==
  /\ phase = "done"
  /\ Goto("idle")
  /\ Forget
  /\ UNCHANGED <<koreader, edits>>

\* A stream that ends, KOReader that does not close, a payload it refuses.
BreakOff ==
  /\ phase \notin {"idle", "done"}
  /\ Goto("idle")
  /\ Forget
  /\ UNCHANGED <<koreader, edits>>

SessionStep ==
  \/ \E i, a \in Device : \E s \in Selections : Open(i, a, s)
  \/ ExportMine \/ ExportTheirs \/ SendReading \/ ReceiveReading
  \/ ImportTheirs \/ ImportMine \/ Close \/ BreakOff

UserStep ==
  \E d \in Device, b \in Book, t \in Time :
    \/ \E p \in Position : Read(d, b, t, p)
    \/ \E l \in Layout : Restyle(d, b, t, l)
    \/ \E marks \in SUBSET Mark : Bookmark(d, b, t, marks)

Next == SessionStep \/ UserStep

Spec == Init /\ [][Next]_vars
-----------------------------------------------------------------------------
(* Properties. *)

Phase == {"idle", "open", "offered", "working", "sent", "received", "applied", "done"}

TypeOK ==
  /\ koreader \in [Device -> Payload]
  /\ phase \in Phase
  /\ initiator \in Device /\ acceptor \in Device /\ initiator # acceptor
  /\ selection \in Selections
  /\ mine \in Payload /\ theirs \in Payload
  /\ merged \in Payload /\ outcome \in Payload
  /\ edited \in [Device -> SUBSET Book]
  /\ unseen \in [Device -> SUBSET Book]
  /\ edits \in Nat

\* When a session is through, both devices have of every book that nobody
\* changed meanwhile and whose records were not tied what the newer of the two
\* records said and the bookmarks of both.
Converged ==
  phase = "done" =>
    \A b \in Book, d \in {initiator, acceptor} :
      b \notin edited[initiator] \cup edited[acceptor] /\ ~Tied(mine[b], theirs[b]) =>
        Agreed(Export(d)[b], mine[b], theirs[b])

\* A session, complete or broken off, takes no device back behind a time or a
\* bookmark it had, unless its user changed the book after the last export.
NothingTakenBack ==
  [][\A d \in Device, b \in Book :
       SessionStep /\ b \notin unseen[d] /\ koreader[d][b] # NoRecord =>
         /\ koreader'[d][b] # NoRecord
         /\ koreader'[d][b].updated >= koreader[d][b].updated
         /\ Bookmarks(koreader[d][b]) \subseteq Bookmarks(koreader'[d][b])]_vars

\* Under any selection, every file a scan offers travels under one kind only,
\* and the receiver of a record of that kind stores it, checks it and puts it
\* where it came from.  In particular no key travels as configuration.
FilesKeepTheirPlace ==
  \A root \in RootsFor(selection) :
    /\ root.kind \in ValidKind \cap KnownFormat
    /\ KindInScope(root.kind, selection)
    /\ PlaceOfKind[root.kind] = Place(root.dir, root.filter)
    /\ \A other \in RootsFor(selection) \ {root} :
         other.dir = root.dir => Accepts[other.filter] \cap Accepts[root.filter] = {}
=============================================================================
