---------------------------- MODULE UploadProofs ----------------------------
(***************************************************************************)
(* For any number of pages, items and connections: there is never a second *)
(* upload beside the one that holds the slot, only complete bodies are     *)
(* published, and what a page shows as saved is in the library.            *)
(*                                                                         *)
(* A request goes out for an item that was never sent, on a connection     *)
(* that no worker has touched (Unsent), so that a page cannot disturb the  *)
(* worker that holds the slot.  A server starts only where the listener of *)
(* the one before is gone, and with it all workers (Resting), so that      *)
(* resetting the slot frees nobody's.  An answer "saved" comes from a      *)
(* worker that has published (Promised), and a worker publishes only what  *)
(* it has received to the end (Complete).                                  *)
(*                                                                         *)
(* Beside this invariant, the count of workers is exact, a part file has a *)
(* worker as long as the service runs, nothing of the server is left in    *)
(* the background, and a page has one request under way.                   *)
(***************************************************************************)
EXTENDS UploadService, FiniteSetTheorems, TLAPS

Typed ==
  /\ queue \in [Page -> Seq(Item)]
  /\ \A p \in Page : Len(queue[p]) <= MaxItems /\ current[p] \in 0..Len(queue[p])
  /\ current \in [Page -> Nat]
  /\ paired \in [Page -> Pairing]
  /\ phase \in [Connection -> Phase]
  /\ link \in [Connection -> {"open", "closed", "vanished"}]
  /\ token \in [Connection -> BOOLEAN]
  /\ reply \in [Connection -> Answer]
  /\ answer \in [Connection -> Answer]
  /\ got \in [Connection -> Nat]
  /\ slot \in BOOLEAN
  /\ parts \subseteq Upload
  /\ library \subseteq [upload : Upload, pieces : Nat]
  /\ app \in {"foreground", "leaving", "rotating", "background", "down"}
  /\ listening \in BOOLEAN
  /\ accepting \in BOOLEAN

\* While no server runs there is no listener, and where the listener is gone
\* so are the backlog and all workers.
Resting ==
  /\ ~listening => ~accepting /\ \A c \in Connection : phase[c] \in {"none", "over"}
  /\ app \in {"background", "down"} => ~listening

Published(c) == \E file \in library : file.upload = c

\* What a page may hold in its queue for an item, were its phase now.
Sound(p, i, item, now) ==
  /\ item.status = "waiting" => now = "none"
  /\ item.cancelled <=> item.status = "cancelled"
  /\ item.status = "saved" => Published(<<p, i>>)

Unsent ==
  \A p \in Page :
    /\ \A i \in 1..Len(queue[p]) : Sound(p, i, queue[p][i], phase[<<p, i>>])
    /\ \A i \in 1..MaxItems : i > Len(queue[p]) => phase[<<p, i>>] = "none"
    /\ current[p] # 0 =>
         queue[p][current[p]].status \in {"waiting", "cancelled", "uploading"}

Complete ==
  /\ \A c \in Connection : phase[c] = "publishing" => c \in Upload /\ got[c] = Size
  /\ \A c \in Connection : phase[c] = "receiving" => c \in Upload
  /\ \A file \in library : file.pieces = Size

Promised ==
  \A c \in Connection : reply[c] = "saved" \/ answer[c] = "saved" => Published(c)

IInv == Typed /\ OneUpload /\ Resting /\ Unsent /\ Complete /\ Promised

-----------------------------------------------------------------------------
(* The page *)

\* What a step of page p does at most to its queue and to its connections: it
\* sends items that were never sent.
Moves(p) ==
  /\ queue' \in [Page -> Seq(Item)]
  /\ \A q \in Page \ {p} : queue'[q] = queue[q] /\ current'[q] = current[q]
  /\ current' \in [Page -> Nat]
  /\ Len(queue'[p]) <= MaxItems
  /\ current'[p] \in 0..Len(queue'[p])
  /\ \A i \in 1..Len(queue'[p]) : Sound(p, i, queue'[p][i], phase'[<<p, i>>])
  /\ current'[p] # 0 =>
       queue'[p][current'[p]].status \in {"waiting", "cancelled", "uploading"}
  /\ phase' \in [Connection -> Phase]
  /\ \A c \in Connection :
       \/ phase'[c] = phase[c]
       \/ /\ phase[c] = "none" /\ c \in {p} \X (1..Len(queue'[p]))
          /\ \/ listening /\ phase'[c] = "backlog"
             \/ ~listening /\ phase'[c] = "over"
  /\ \A i \in 1..MaxItems : i > Len(queue'[p]) => phase'[<<p, i>>] = "none"
  /\ token' \in [Connection -> BOOLEAN]

\* A step of page p leaves the server alone.
Turn(p) ==
  /\ Moves(p)
  /\ link' \in [Connection -> {"open", "closed", "vanished"}]
  /\ answer' \in [Connection -> Answer]
  /\ \A c \in Connection : answer'[c] = "saved" => answer[c] = "saved"
  /\ UNCHANGED <<paired, reply, got, slot, parts, library, app, listening, accepting>>

\* A step of a page keeps the invariant.
LEMMA TurnKeeps ==
  ASSUME IInv, NEW p \in Page, Turn(p)
  PROVE  IInv'
PROOF
<1>0. \A c \in Connection :
        \/ phase'[c] = phase[c]
        \/ phase[c] = "none" /\ listening /\ phase'[c] = "backlog"
        \/ phase[c] = "none" /\ ~listening /\ phase'[c] = "over"
  <2>1. Moves(p)
    BY DEF Turn
  <2> QED BY <2>1 DEF Moves
<1>1. \A c \in Connection :
        \/ phase'[c] = phase[c]
        \/ phase[c] = "none" /\ phase'[c] \in {"backlog", "over"}
  BY <1>0
<1> USE DEF IInv
<1>2. Typed'
  <2>1. \A q \in Page : Len(queue'[q]) <= MaxItems /\ current'[q] \in 0..Len(queue'[q])
    BY DEF Typed, Turn, Moves
  <2> QED BY <2>1 DEF Typed, Turn, Moves
<1>3. OneUpload'
  BY <1>1 DEF OneUpload, Holding, Turn
<1>4. Resting'
  <2>1. app' = app /\ listening' = listening /\ accepting' = accepting
    BY DEF Turn
  <2>2. Resting
    OBVIOUS
  <2> QED BY <1>0, <2>1, <2>2 DEF Resting
<1>5. Unsent'
  <2> SUFFICES ASSUME NEW q \in Page
               PROVE /\ \A i \in 1..Len(queue'[q]) :
                          Sound(q, i, queue'[q][i], phase'[<<q, i>>])
                     /\ \A i \in 1..MaxItems :
                          i > Len(queue'[q]) => phase'[<<q, i>>] = "none"
                     /\ current'[q] # 0 => queue'[q][current'[q]].status
                                             \in {"waiting", "cancelled", "uploading"}
    <3>1. \A c : Published(c) => Published(c)'
      BY DEF Turn, Published
    <3> QED BY <3>1 DEF Unsent, Sound
  <2>1. CASE q = p
    BY <2>1 DEF Turn, Moves
  <2>2. CASE q # p
    <3>1. \A i \in 1..MaxItems : phase'[<<q, i>>] = phase[<<q, i>>]
      BY <2>2 DEF Turn, Moves, Connection, Upload
    <3>2. Len(queue[q]) \in Nat /\ Len(queue[q]) <= MaxItems
      BY DEF Typed
    <3>3. \A i \in 1..Len(queue[q]) : i \in 1..MaxItems
      BY <3>2, ItemAssumption
    <3>4. queue'[q] = queue[q] /\ current'[q] = current[q]
      BY <2>2 DEF Turn, Moves
    <3> QED BY <3>1, <3>3, <3>4 DEF Unsent, Sound
  <2> QED BY <2>1, <2>2
<1>6. Complete'
  BY <1>1 DEF Complete, Turn
<1>7. Promised'
  BY DEF Promised, Turn, Published
<1> QED BY <1>2, <1>3, <1>4, <1>5, <1>6, <1>7

\* An item gets another status.
LEMMA StatusSet ==
  ASSUME NEW items \in Seq(Item), NEW i \in 1..Len(items), NEW s \in Status,
         NEW changed, changed = [items EXCEPT ![i].status = s]
  PROVE  /\ changed \in Seq(Item) /\ Len(changed) = Len(items)
         /\ changed[i].status = s /\ changed[i].cancelled = items[i].cancelled
         /\ \A j \in 1..Len(items) : j # i => changed[j] = items[j]
PROOF
<1>1. items[i] \in Item
  OBVIOUS
<1>2. [items[i] EXCEPT !.status = s] \in Item
  BY <1>1 DEF Item
<1>3. changed = [items EXCEPT ![i] = [items[i] EXCEPT !.status = s]]
  OBVIOUS
<1>4. [items[i] EXCEPT !.status = s].status = s
  /\ [items[i] EXCEPT !.status = s].cancelled = items[i].cancelled
  BY <1>1 DEF Item
<1> QED BY <1>2, <1>3, <1>4

\* run() goes on over a sound queue.
LEMMA ContinueMoves ==
  ASSUME IInv, NEW p \in Page, NEW items \in Seq(Item),
         Len(items) <= MaxItems, Len(queue[p]) <= Len(items),
         \A i \in 1..Len(items) : Sound(p, i, items[i], phase[<<p, i>>]),
         UNCHANGED listening, Continue(p, items)
  PROVE  Moves(p)
PROOF
<1> USE DEF IInv
<1>1. \A i \in 1..MaxItems : <<p, i>> \in Connection
  BY DEF Connection, Upload
<1>2. /\ Len(items) \in Nat /\ Len(queue[p]) \in Nat
      /\ \A i \in 1..Len(items) : i \in 1..MaxItems
  BY ItemAssumption DEF Typed
<1>3. CASE Waiting(items) = {} /\ queue' = [queue EXCEPT ![p] = items]
             /\ current' = [current EXCEPT ![p] = 0] /\ UNCHANGED <<phase, token>>
  BY <1>2, <1>3 DEF Moves, Typed, Unsent
<1>4. ASSUME NEW i \in Waiting(items),
             current' = [current EXCEPT ![p] = i],
             IF items[i].kind = "wallpaper"
               THEN /\ queue' = [queue EXCEPT ![p] = items]
                    /\ UNCHANGED <<phase, token>>
               ELSE /\ queue' = [queue EXCEPT ![p] =
                                  [items EXCEPT ![i].status = "uploading"]]
                    /\ Request(p, i)
      PROVE  Moves(p)
  <2>1. i \in 1..Len(items) /\ items[i].status = "waiting" /\ ~items[i].cancelled
    BY <1>2 DEF Waiting
  <2>2. current'[p] = i /\ current' \in [Page -> Nat]
    BY <1>4, <2>1, <1>2 DEF Typed
  <2>3. CASE items[i].kind = "wallpaper"
    <3>1. queue' = [queue EXCEPT ![p] = items] /\ UNCHANGED <<phase, token>>
      BY <1>4, <2>3
    <3>2. queue'[p] = items /\ queue' \in [Page -> Seq(Item)]
          /\ \A q \in Page \ {p} : queue'[q] = queue[q] /\ current'[q] = current[q]
      BY <3>1, <1>4 DEF Typed
    <3>3. \A j \in 1..MaxItems : j > Len(items) => phase[<<p, j>>] = "none"
      BY <1>2 DEF Unsent
    <3> QED BY <1>2, <2>1, <2>2, <3>1, <3>2, <3>3 DEF Moves, Typed
  <2>4. CASE items[i].kind # "wallpaper"
    <3> DEFINE changed == [items EXCEPT ![i].status = "uploading"]
    <3> HIDE DEF changed
    <3>1. /\ changed \in Seq(Item) /\ Len(changed) = Len(items)
          /\ changed[i].status = "uploading"
          /\ changed[i].cancelled = items[i].cancelled
          /\ \A j \in 1..Len(items) : j # i => changed[j] = items[j]
      <4>1. "uploading" \in Status
        BY DEF Status
      <4>2. changed = [items EXCEPT ![i].status = "uploading"]
        BY DEF changed
      <4> QED BY <2>1, <4>1, <4>2, StatusSet
    <3>2. queue' = [queue EXCEPT ![p] = changed]
      BY <1>4, <2>4 DEF changed
    <3>3. phase[<<p, i>>] = "none"
      BY <2>1 DEF Sound
    <3>4. <<p, i>> \in Connection
      BY <1>1, <1>2, <2>1
    <3>5. phase' = [phase EXCEPT ![<<p, i>>] = IF listening THEN "backlog" ELSE "over"]
          /\ token' \in [Connection -> BOOLEAN]
      BY <1>4, <2>4, <3>4 DEF Request, Typed
    <3>6. phase' \in [Connection -> Phase]
      BY <3>4, <3>5 DEF Typed, Phase
    <3>7. \A c \in Connection :
            \/ phase'[c] = phase[c]
            \/ /\ phase[c] = "none" /\ c \in {p} \X (1..Len(items))
               /\ \/ listening /\ phase'[c] = "backlog"
                  \/ ~listening /\ phase'[c] = "over"
      <4> TAKE c \in Connection
      <4>1. CASE c = <<p, i>>
        BY <2>1, <3>3, <3>4, <3>5, <4>1 DEF Typed
      <4>2. CASE c # <<p, i>>
        BY <3>5, <4>2 DEF Typed
      <4> QED BY <4>1, <4>2
    <3>8. \A j \in 1..Len(items) :
            Sound(p, j, changed[j], phase'[<<p, j>>])
      <4> TAKE j \in 1..Len(items)
      <4>1. CASE j = i
        BY <4>1, <2>1, <3>1 DEF Sound
      <4>2. CASE j # i
        <5>1. phase'[<<p, j>>] = phase[<<p, j>>]
          BY <4>2, <3>5, <1>1, <1>2 DEF Typed
        <5> QED BY <5>1, <4>2, <3>1
      <4> QED BY <4>1, <4>2
    <3>9. \A j \in 1..MaxItems : j > Len(items) => phase'[<<p, j>>] = "none"
      BY <1>1, <1>2, <2>1, <3>5 DEF Typed, Unsent
    <3>10. queue' \in [Page -> Seq(Item)] /\ queue'[p] = changed
           /\ \A q \in Page \ {p} : queue'[q] = queue[q] /\ current'[q] = current[q]
      BY <3>1, <3>2, <1>4 DEF Typed
    <3> QED BY <1>2, <2>1, <2>2, <3>1, <3>5, <3>6, <3>7, <3>8, <3>9, <3>10 DEF Moves
  <2> QED BY <2>3, <2>4
<1> QED BY <1>3, <1>4 DEF Continue

\* What the invariant says of the items of a page.
LEMMA QueueFacts ==
  ASSUME IInv, NEW p \in Page
  PROVE  /\ queue[p] \in Seq(Item) /\ Len(queue[p]) \in Nat
         /\ Len(queue[p]) <= MaxItems /\ DOMAIN queue[p] = 1..Len(queue[p])
         /\ current[p] # 0 => current[p] \in 1..Len(queue[p])
         /\ \A i \in 1..Len(queue[p]) :
              /\ queue[p][i] \in Item /\ <<p, i>> \in Connection
              /\ Sound(p, i, queue[p][i], phase[<<p, i>>])
PROOF
<1> USE DEF IInv
<1>1. queue[p] \in Seq(Item) /\ Len(queue[p]) <= MaxItems
      /\ current[p] \in 0..Len(queue[p])
  BY DEF Typed
<1>2. Len(queue[p]) \in Nat /\ DOMAIN queue[p] = 1..Len(queue[p])
      /\ \A i \in 1..Len(queue[p]) : queue[p][i] \in Item
  BY <1>1
<1>3. \A i \in 1..Len(queue[p]) : i \in 1..MaxItems
  BY <1>1, <1>2, ItemAssumption
<1>4. \A i \in 1..Len(queue[p]) : <<p, i>> \in Connection
  BY <1>3 DEF Connection, Upload
<1>5. \A i \in 1..Len(queue[p]) : Sound(p, i, queue[p][i], phase[<<p, i>>])
  BY DEF Unsent
<1> QED BY <1>1, <1>2, <1>4, <1>5

\* A result is set in the queue of a page.
LEMMA SettledQueue ==
  ASSUME IInv, NEW p \in Page, NEW i \in 1..Len(queue[p]), NEW s \in Status
  PROVE  /\ Settled(p, i, s) \in Seq(Item) /\ Len(Settled(p, i, s)) = Len(queue[p])
         /\ Settled(p, i, s)[i].status = s
         /\ Settled(p, i, s)[i].cancelled = queue[p][i].cancelled
         /\ \A j \in 1..Len(queue[p]) : j # i => Settled(p, i, s)[j] = queue[p][j]
PROOF
<1>1. queue[p] \in Seq(Item)
  BY QueueFacts
<1>2. Settled(p, i, s) = [queue[p] EXCEPT ![i].status = s]
  BY DEF Settled
<1> QED BY <1>1, <1>2, StatusSet

\* An item that is not on its way gets its result, and run() goes on.
LEMMA SettleMoves ==
  ASSUME IInv, NEW p \in Page, NEW i \in 1..Len(queue[p]), NEW s \in Status,
         s \notin {"waiting", "cancelled"}, ~queue[p][i].cancelled,
         s = "saved" => Published(<<p, i>>),
         UNCHANGED listening, Continue(p, Settled(p, i, s))
  PROVE  Moves(p)
PROOF
<1> DEFINE items == Settled(p, i, s)
<1> HIDE DEF items
<1>2. /\ items \in Seq(Item) /\ Len(items) = Len(queue[p])
      /\ items[i].status = s /\ items[i].cancelled = queue[p][i].cancelled
      /\ \A j \in 1..Len(queue[p]) : j # i => items[j] = queue[p][j]
  BY SettledQueue DEF items
<1>3. \A j \in 1..Len(items) : Sound(p, j, items[j], phase[<<p, j>>])
  BY <1>2, QueueFacts DEF Sound
<1>4. Continue(p, items)
  BY DEF items
<1> QED BY <1>2, <1>3, <1>4, QueueFacts, ContinueMoves

\* enqueue() is a turn of its page.
LEMMA EnqueueTurns ==
  ASSUME IInv, NEW p \in Page, NEW kind \in Kind, Enqueue(p, kind)
  PROVE  Turn(p)
PROOF
<1> DEFINE item == [kind |-> kind, status |-> "waiting", cancelled |-> FALSE]
           items == Append(queue[p], item)
<1>1. item \in Item /\ item.status = "waiting" /\ ~item.cancelled
  BY DEF Item, Status
<1> HIDE DEF item
<1>2. Len(queue[p]) < MaxItems
  BY DEF Enqueue
<1>3. /\ items \in Seq(Item) /\ Len(items) = Len(queue[p]) + 1
      /\ items[Len(queue[p]) + 1] = item
      /\ \A i \in 1..Len(queue[p]) : items[i] = queue[p][i]
  BY <1>1, QueueFacts
<1>4. Len(items) <= MaxItems /\ Len(queue[p]) + 1 \in 1..MaxItems
  BY <1>2, <1>3, QueueFacts, ItemAssumption
<1>5. phase[<<p, Len(queue[p]) + 1>>] = "none"
  <2>1. Len(queue[p]) + 1 > Len(queue[p])
    BY QueueFacts
  <2> QED BY <1>4, <2>1 DEF IInv, Unsent
<1> HIDE DEF items
<1>6. \A i \in 1..Len(items) : Sound(p, i, items[i], phase[<<p, i>>])
  <2> TAKE i \in 1..Len(items)
  <2>1. CASE i = Len(queue[p]) + 1
    BY <1>1, <1>3, <1>5, <2>1 DEF Sound
  <2>2. CASE i # Len(queue[p]) + 1
    BY <1>3, <2>2, QueueFacts
  <2> QED BY <2>1, <2>2
<1>7. Moves(p)
  <2>1. CASE current[p] = 0
    <3>1. Continue(p, items)
      BY <2>1 DEF Enqueue, items, item
    <3> QED BY <1>3, <1>4, <1>6, <3>1, QueueFacts, ContinueMoves DEF Enqueue, application
  <2>2. CASE current[p] # 0
    <3>1. queue' = [queue EXCEPT ![p] = items] /\ UNCHANGED <<current, phase, token>>
      BY <2>2 DEF Enqueue, items, item
    <3>2. current[p] \in 1..Len(queue[p]) /\ items[current[p]] = queue[p][current[p]]
      BY <1>3, <2>2, QueueFacts
    <3>3. queue'[p] = items /\ queue' \in [Page -> Seq(Item)]
      BY <1>3, <3>1 DEF IInv, Typed
    <3>4. current[p] \in 0..Len(items)
      BY <1>3, <3>2, QueueFacts
    <3>5. \A i \in 1..MaxItems : i > Len(items) => phase[<<p, i>>] = "none"
      BY <1>3, QueueFacts DEF IInv, Unsent
    <3> QED BY <1>4, <1>6, <3>1, <3>2, <3>3, <3>4, <3>5
            DEF Moves, IInv, Typed, Unsent
  <2> QED BY <2>1, <2>2
<1>8. Turn(p)
  BY <1>7 DEF Turn, Enqueue, application, IInv, Typed
<1> QED BY <1>8

\* cancel() of an item not yet sent is one.
LEMMA CancelWaitingTurns ==
  ASSUME IInv, NEW p \in Page, NEW i \in DOMAIN queue[p], CancelWaiting(p, i)
  PROVE  Turn(p)
PROOF
<1>1. i \in 1..Len(queue[p])
  BY QueueFacts
<1> DEFINE item == [queue[p][i] EXCEPT !.cancelled = TRUE, !.status = "cancelled"]
<1>2. item \in Item /\ item.cancelled /\ item.status = "cancelled"
  <2>1. queue[p][i] \in Item
    BY <1>1, QueueFacts
  <2> QED BY <2>1 DEF Item, Status
<1>3. queue' = [queue EXCEPT ![p] = [queue[p] EXCEPT ![i] = item]]
  BY <1>1, QueueFacts DEF CancelWaiting
<1> HIDE DEF item
<1>4. /\ queue' \in [Page -> Seq(Item)]
      /\ Len(queue'[p]) = Len(queue[p]) /\ queue'[p][i] = item
      /\ \A j \in 1..Len(queue[p]) : j # i => queue'[p][j] = queue[p][j]
      /\ \A q \in Page \ {p} : queue'[q] = queue[q]
  BY <1>1, <1>2, <1>3, QueueFacts DEF IInv, Typed
<1>5. UNCHANGED <<current, paired, phase, token, link, answer, reply, got, slot,
                  parts, library, app, listening, accepting>>
  BY DEF CancelWaiting, client, server, application
<1>6. \A j \in 1..Len(queue'[p]) : Sound(p, j, queue'[p][j], phase'[<<p, j>>])
  BY <1>2, <1>4, <1>5, QueueFacts DEF Sound
<1>7. current'[p] # 0 =>
        queue'[p][current'[p]].status \in {"waiting", "cancelled", "uploading"}
  BY <1>2, <1>4, <1>5, QueueFacts DEF IInv, Unsent
<1>8. Moves(p)
  BY <1>4, <1>5, <1>6, <1>7, QueueFacts DEF Moves, IInv, Typed, Unsent
<1>9. Turn(p)
  BY <1>5, <1>8 DEF Turn, IInv, Typed
<1> QED BY <1>9

\* cancel() of the request under way is one.
LEMMA CancelUploadingTurns ==
  ASSUME IInv, NEW p \in Page, NEW i \in DOMAIN queue[p], CancelUploading(p, i)
  PROVE  Turn(p)
PROOF
<1>1. i \in 1..Len(queue[p])
  BY QueueFacts
<1> DEFINE item == [queue[p][i] EXCEPT !.cancelled = TRUE, !.status = "cancelled"]
           items == [queue[p] EXCEPT ![i].cancelled = TRUE, ![i].status = "cancelled"]
<1>2. item \in Item /\ item.cancelled /\ item.status = "cancelled"
  <2>1. queue[p][i] \in Item
    BY <1>1, QueueFacts
  <2> QED BY <2>1 DEF Item, Status
<1>3. items = [queue[p] EXCEPT ![i] = item]
  BY <1>1, QueueFacts
<1> HIDE DEF item, items
<1>4. /\ items \in Seq(Item) /\ Len(items) = Len(queue[p]) /\ items[i] = item
      /\ \A j \in 1..Len(queue[p]) : j # i => items[j] = queue[p][j]
  BY <1>1, <1>2, <1>3, QueueFacts
<1>5. \A j \in 1..Len(items) : Sound(p, j, items[j], phase[<<p, j>>])
  BY <1>2, <1>4, QueueFacts DEF Sound
<1>6. Continue(p, items)
  BY DEF CancelUploading, items
<1>7. Moves(p)
  BY <1>4, <1>5, <1>6, QueueFacts, ContinueMoves DEF CancelUploading, application
<1>8. <<p, i>> \in Connection
  BY <1>1, QueueFacts
<1>9. link' \in [Connection -> {"open", "closed", "vanished"}]
  BY <1>8 DEF CancelUploading, IInv, Typed
<1>10. Turn(p)
  BY <1>7, <1>9 DEF Turn, CancelUploading, application, IInv, Typed
<1> QED BY <1>10

\* The end of a conversion is one.
LEMMA ConvertedTurns ==
  ASSUME IInv, NEW p \in Page, Converted(p)
  PROVE  Turn(p)
PROOF
<1> DEFINE i == current[p]
<1>1. i \in 1..Len(queue[p]) /\ queue[p][i].status # "uploading"
  BY QueueFacts DEF Converted, Converting
<1>2. queue[p][i].status \in {"waiting", "cancelled"}
  BY <1>1, QueueFacts DEF IInv, Unsent
<1>3. UNCHANGED <<paired, link, answer, reply, got, slot, parts, library, app, listening, accepting>>
  BY DEF Converted, application
<1>4. CASE queue[p][i].cancelled
  <2>1. Continue(p, queue[p])
    BY <1>4 DEF Converted
  <2>2. Moves(p)
    BY <2>1, <1>3, QueueFacts, ContinueMoves
  <2> QED BY <2>2, <1>3 DEF Turn, IInv, Typed
<1>5. CASE ~queue[p][i].cancelled
  <2> DEFINE changed == [queue[p] EXCEPT ![i].status = "uploading"]
  <2>1. queue' = [queue EXCEPT ![p] = changed] /\ Request(p, i) /\ current' = current
    <3>1. queue' = [queue EXCEPT ![p][current[p]].status = "uploading"]
          /\ Request(p, i) /\ current' = current
      BY <1>5 DEF Converted
    <3> QED BY <3>1, <1>1 DEF IInv, Typed
  <2>2. /\ changed \in Seq(Item) /\ Len(changed) = Len(queue[p])
        /\ changed[i].status = "uploading" /\ changed[i].cancelled = queue[p][i].cancelled
        /\ \A j \in 1..Len(queue[p]) : j # i => changed[j] = queue[p][j]
    <3>1. queue[p] \in Seq(Item) /\ "uploading" \in Status
      BY QueueFacts DEF Status
    <3>2. changed = [queue[p] EXCEPT ![i].status = "uploading"]
      OBVIOUS
    <3> HIDE DEF changed, i
    <3> QED BY <1>1, <3>1, <3>2, StatusSet
  <2> HIDE DEF changed
  <2>3. queue[p][i].status = "waiting" /\ phase[<<p, i>>] = "none"
        /\ <<p, i>> \in Connection
    BY <1>1, <1>2, <1>5, QueueFacts DEF Sound
  <2>4. phase' = [phase EXCEPT ![<<p, i>>] = IF listening THEN "backlog" ELSE "over"]
        /\ token' \in [Connection -> BOOLEAN]
    BY <2>1, <2>3 DEF Request, IInv, Typed
  <2> HIDE DEF i
  <2>5. phase' \in [Connection -> Phase]
    BY <2>3, <2>4 DEF IInv, Typed, Phase
  <2>6. \A c \in Connection :
          \/ phase'[c] = phase[c]
          \/ /\ phase[c] = "none" /\ c \in {p} \X (1..Len(changed))
             /\ \/ listening /\ phase'[c] = "backlog"
                \/ ~listening /\ phase'[c] = "over"
    <3> TAKE c \in Connection
    <3>1. CASE c = <<p, i>>
      BY <1>1, <2>2, <2>3, <2>4, <3>1 DEF IInv, Typed
    <3>2. CASE c # <<p, i>>
      BY <2>4, <3>2 DEF IInv, Typed
    <3> QED BY <3>1, <3>2
  <2>7. \A j \in 1..Len(changed) : Sound(p, j, changed[j], phase'[<<p, j>>])
    <3> TAKE j \in 1..Len(changed)
    <3>1. CASE j = i
      BY <3>1, <1>5, <2>2 DEF Sound
    <3>2. CASE j # i
      <4>1. phase'[<<p, j>>] = phase[<<p, j>>]
        BY <3>2, <2>2, <2>4, QueueFacts DEF IInv, Typed
      <4> QED BY <4>1, <3>2, <2>2, QueueFacts
    <3> QED BY <3>1, <3>2
  <2>8. \A j \in 1..MaxItems : j > Len(changed) => phase'[<<p, j>>] = "none"
    <3> TAKE j \in 1..MaxItems
    <3>1. HAVE j > Len(changed)
    <3>2. <<p, j>> \in Connection /\ j # i
      BY <3>1, <1>1, <2>2, QueueFacts DEF Connection, Upload
    <3> QED BY <3>1, <3>2, <2>2, <2>4 DEF IInv, Typed, Unsent
  <2>9. /\ queue' \in [Page -> Seq(Item)] /\ queue'[p] = changed
        /\ \A q \in Page \ {p} : queue'[q] = queue[q]
    BY <2>1, <2>2 DEF IInv, Typed
  <2>10. Moves(p)
    BY <1>1, <2>1, <2>2, <2>4, <2>5, <2>6, <2>7, <2>8, <2>9, QueueFacts
    DEF Moves, IInv, Typed, i
  <2> QED BY <2>10, <1>3 DEF Turn, IInv, Typed
<1> QED BY <1>4, <1>5

\* A failed conversion is one.
LEMMA ConversionFailsTurns ==
  ASSUME IInv, NEW p \in Page, ConversionFails(p)
  PROVE  Turn(p)
PROOF
<1> DEFINE i == current[p]
<1>1. i \in 1..Len(queue[p])
  BY QueueFacts DEF ConversionFails, Converting
<1>2. UNCHANGED <<paired, link, answer, reply, got, slot, parts, library, app, listening, accepting>>
  BY DEF ConversionFails, application
<1>3. Moves(p)
  <2>1. CASE queue[p][i].cancelled
    <3>1. Continue(p, queue[p])
      BY <2>1 DEF ConversionFails
    <3> QED BY <3>1, <1>2, QueueFacts, ContinueMoves
  <2>2. CASE ~queue[p][i].cancelled
    <3>1. Continue(p, Settled(p, i, "failed")) /\ "failed" \in Status
      BY <2>2 DEF ConversionFails, Status
    <3> QED BY <1>1, <1>2, <2>2, <3>1, SettleMoves
  <2> QED BY <2>1, <2>2
<1> QED BY <1>2, <1>3 DEF Turn, IInv, Typed

\* onload is one: what it shows is what the server promised.
LEMMA LoadedTurns ==
  ASSUME IInv, NEW p \in Page, Loaded(p)
  PROVE  Turn(p)
PROOF
<1> DEFINE i == current[p]
           s == answer[<<p, i>>]
<1>1. i \in 1..Len(queue[p]) /\ queue[p][i].status = "uploading" /\ s # "none"
  BY QueueFacts DEF Loaded, Uploading
<1>2. <<p, i>> \in Connection /\ ~queue[p][i].cancelled
  BY <1>1, QueueFacts DEF Sound
<1>3. s \in Status \ {"waiting", "cancelled"} /\ (s = "saved" => Published(<<p, i>>))
  BY <1>1, <1>2 DEF IInv, Typed, Promised, Answer, Status
<1>4. Continue(p, Settled(p, i, s))
      /\ answer' = [answer EXCEPT ![<<p, i>>] = "none"]
      /\ UNCHANGED <<paired, link, reply, got, slot, parts, library, app, listening, accepting>>
  BY DEF Loaded, application
<1> HIDE DEF i, s
<1>5. Moves(p)
  BY <1>1, <1>2, <1>3, <1>4, SettleMoves
<1>6. answer' \in [Connection -> Answer]
      /\ \A c \in Connection : answer'[c] = "saved" => answer[c] = "saved"
  BY <1>2, <1>4 DEF IInv, Typed, Answer
<1> QED BY <1>4, <1>5, <1>6 DEF Turn, IInv, Typed

\* onerror is one.
LEMMA NetworkErrorTurns ==
  ASSUME IInv, NEW p \in Page, NetworkError(p)
  PROVE  Turn(p)
PROOF
<1> DEFINE i == current[p]
<1>1. i \in 1..Len(queue[p]) /\ queue[p][i].status = "uploading"
  BY QueueFacts DEF NetworkError, Uploading
<1>2. ~queue[p][i].cancelled /\ "failed" \in Status
  BY <1>1, QueueFacts DEF Sound, Status
<1>3. Continue(p, Settled(p, i, "failed"))
      /\ UNCHANGED <<paired, link, answer, reply, got, slot, parts, library, app, listening, accepting>>
  BY DEF NetworkError, application
<1>4. Moves(p)
  BY <1>1, <1>2, <1>3, SettleMoves
<1> QED BY <1>3, <1>4 DEF Turn, IInv, Typed

LEMMA PageTurns ==
  ASSUME IInv, NEW p \in Page, PageStep(p)
  PROVE  Turn(p)
PROOF
BY ConvertedTurns, ConversionFailsTurns, LoadedTurns, NetworkErrorTurns DEF PageStep

LEMMA UserTurns ==
  ASSUME IInv, NEW p \in Page, UserStep(p)
  PROVE  Turn(p) \/ Pair(p)
PROOF
BY EnqueueTurns, CancelWaitingTurns, CancelUploadingTurns DEF UserStep

-----------------------------------------------------------------------------
(* The server *)

\* What a step of connection c does at most: it leaves the pages and the other
\* connections alone, takes the slot only where it is free, gives it back only
\* where it held it, and says "saved" only of what is published.
Work(c) ==
  /\ UNCHANGED <<queue, current, paired, app, listening, accepting>>
  /\ phase' \in [Connection -> Phase]
  /\ link' \in [Connection -> {"open", "closed", "vanished"}]
  /\ token' \in [Connection -> BOOLEAN]
  /\ reply' \in [Connection -> Answer]
  /\ answer' \in [Connection -> Answer]
  /\ got' \in [Connection -> Nat]
  /\ slot' \in BOOLEAN
  /\ parts' \subseteq Upload
  /\ library \subseteq library' /\ library' \subseteq [upload : Upload, pieces : Nat]
  /\ \A d \in Connection \ {c} :
       /\ phase'[d] = phase[d] /\ reply'[d] = reply[d]
       /\ answer'[d] = answer[d] /\ got'[d] = got[d]
  /\ phase[c] = "none" => c \in Stranger
  /\ phase[c] \notin {"none", "over"} \/ listening
  /\ \/ slot' = slot /\ (phase[c] \in Holding <=> phase'[c] \in Holding)
     \/ ~slot /\ slot' /\ phase'[c] \in Holding
     \/ ~slot' /\ phase[c] \in Holding /\ phase'[c] \notin Holding
  /\ phase'[c] = "publishing" => c \in Upload /\ got'[c] = Size
  /\ phase'[c] = "receiving" => c \in Upload
  /\ \A file \in library' : file.pieces = Size
  /\ reply'[c] = "saved" => reply[c] = "saved" \/ Published(c)'
  /\ answer'[c] = "saved" => reply[c] = "saved" \/ answer[c] = "saved"

\* A step of a connection keeps the invariant.
LEMMA WorkKeeps ==
  ASSUME IInv, NEW c \in Connection, Work(c)
  PROVE  IInv'
PROOF
<1> USE DEF IInv
<1>1. Typed'
  BY DEF Typed, Work
<1>2. OneUpload'
  <2>1. CASE slot' = slot /\ (phase[c] \in Holding <=> phase'[c] \in Holding)
    <3>1. \A d \in Connection : phase'[d] \in Holding <=> phase[d] \in Holding
      BY <2>1 DEF Work
    <3> QED BY <2>1, <3>1 DEF OneUpload
  <2>2. CASE ~slot /\ slot' /\ phase'[c] \in Holding
    BY <2>2 DEF OneUpload, Work
  <2>3. CASE ~slot' /\ phase[c] \in Holding /\ phase'[c] \notin Holding
    BY <2>3 DEF OneUpload, Work
  <2> QED BY <2>1, <2>2, <2>3 DEF Work
<1>3. Resting'
  BY DEF Resting, Work
<1>4. Unsent'
  <2>1. \A d : Published(d) => Published(d)'
    BY DEF Work, Published
  <2>2. \A d \in Upload : phase[d] = "none" => phase'[d] = "none"
    BY StrangerAssumption DEF Work, Connection, Upload
  <2>3. \A p \in Page, i \in 1..MaxItems : <<p, i>> \in Upload
    BY DEF Upload
  <2>4. \A p \in Page : \A i \in 1..Len(queue[p]) : i \in 1..MaxItems
    BY ItemAssumption DEF Typed
  <2>5. queue' = queue /\ current' = current
    BY DEF Work
  <2> QED BY <2>1, <2>2, <2>3, <2>4, <2>5 DEF Unsent, Sound
<1>5. Complete'
  BY DEF Complete, Work
<1>6. Promised'
  BY DEF Promised, Work, Published
<1> QED BY <1>1, <1>2, <1>3, <1>4, <1>5, <1>6

\* What End leaves of a connection.
LEMMA EndFacts ==
  ASSUME IInv, NEW ended \in SUBSET Connection, End(ended)
  PROVE  /\ phase' \in [Connection -> Phase]
         /\ link' \in [Connection -> {"open", "closed", "vanished"}]
         /\ token' \in [Connection -> BOOLEAN]
         /\ reply' \in [Connection -> Answer]
         /\ got' \in [Connection -> Nat]
         /\ \A c \in Connection \ ended :
              phase'[c] = phase[c] /\ reply'[c] = reply[c] /\ got'[c] = got[c]
         /\ \A c \in ended : phase'[c] \in {"none", "over"} /\ reply'[c] = "none"
         /\ \A c \in ended \cap Upload : phase'[c] = "over"
PROOF
<1> USE DEF IInv, End
<1>1. phase' \in [Connection -> Phase]
  BY DEF Typed, Phase
<1>2. link' \in [Connection -> {"open", "closed", "vanished"}]
      /\ token' \in [Connection -> BOOLEAN]
  BY DEF Typed
<1>3. reply' \in [Connection -> Answer] /\ got' \in [Connection -> Nat]
  BY DEF Typed, Answer
<1>4. \A c \in ended \cap Upload : c \notin Stranger
  BY StrangerAssumption DEF Upload
<1> QED BY <1>1, <1>2, <1>3, <1>4

\* What response() changes.
LEMMA AnswerFacts ==
  ASSUME IInv, NEW c \in Connection, NEW code \in Answer,
         Delivered(c, code) \/ UNCHANGED answer
  PROVE  /\ answer' \in [Connection -> Answer]
         /\ \A d \in Connection \ {c} : answer'[d] = answer[d]
         /\ answer'[c] \in {answer[c], code}
PROOF
BY DEF IInv, Typed, Delivered

\* The worker of a connection, and a stranger's coming.
LEMMA ServerWorks ==
  ASSUME IInv, NEW c \in Connection,
         ServerStep(c) \/ Connect(c) \/ Vanish(c) \/ DiskFails(c)
  PROVE  Work(c)
PROOF
<1> USE DEF IInv, page, client, server, application
<1>0. "failed" \in Answer /\ "busy" \in Answer /\ "saved" \in Answer
  BY DEF Answer
<1>1. ASSUME Accept(c) PROVE Work(c)
  BY <1>1 DEF Accept, Work, Typed, Phase, Holding, Complete
<1>2. ASSUME RejectBusy(c) PROVE Work(c)
  <2>1. /\ End({c}) /\ phase[c] = "backlog"
        /\ UNCHANGED <<page, slot, parts, library, application>>
        /\ Delivered(c, "failed") \/ UNCHANGED answer
    BY <1>2 DEF RejectBusy
  <2>2. /\ answer' \in [Connection -> Answer]
        /\ \A d \in Connection \ {c} : answer'[d] = answer[d]
        /\ answer'[c] \in {answer[c], "failed"}
    BY <1>0, <2>1, AnswerFacts
  <2>3. /\ phase' \in [Connection -> Phase]
        /\ link' \in [Connection -> {"open", "closed", "vanished"}]
        /\ token' \in [Connection -> BOOLEAN]
        /\ reply' \in [Connection -> Answer]
        /\ got' \in [Connection -> Nat]
        /\ \A d \in Connection \ {c} :
             phase'[d] = phase[d] /\ reply'[d] = reply[d] /\ got'[d] = got[d]
        /\ phase'[c] \in {"none", "over"} /\ reply'[c] = "none"
    BY <2>1, EndFacts
  <2> QED BY <2>1, <2>2, <2>3 DEF Work, Typed, Holding, Complete
<1>3. ASSUME AnswerOther(c) PROVE Work(c)
  <2>1. /\ phase[c] = "head" /\ Decline(c, "failed")
    BY <1>3 DEF AnswerOther
  <2>2. Delivered(c, "failed") \/ UNCHANGED answer
    BY <2>1 DEF Decline
  <2> QED BY <1>0, <2>1, <2>2, AnswerFacts
          DEF Decline, Work, Typed, Phase, Holding, Complete
<1>4. ASSUME BeginSession(c) PROVE Work(c)
  BY <1>4 DEF BeginSession, Work, Typed, Phase, Holding, Complete
<1>5. ASSUME EndSession(c) PROVE Work(c)
  BY <1>5 DEF EndSession, Work, Typed, Phase, Holding, Complete
<1>6. ASSUME RefuseUpload(c) PROVE Work(c)
  <2>1. /\ phase[c] = "head" /\ Decline(c, "busy")
    BY <1>6 DEF RefuseUpload
  <2>2. Delivered(c, "busy") \/ UNCHANGED answer
    BY <2>1 DEF Decline
  <2> QED BY <1>0, <2>1, <2>2, AnswerFacts
          DEF Decline, Work, Typed, Phase, Holding, Complete
<1>7. ASSUME TakeSlot(c) PROVE Work(c)
  BY <1>7 DEF TakeSlot, Work, Typed, Phase, Holding, Complete, Answer
<1>8. ASSUME Receive(c) PROVE Work(c)
  BY <1>8 DEF Receive, Work, Typed, Phase, Holding, Complete
<1>9. ASSUME Truncated(c) PROVE Work(c)
  <2>1. phase[c] = "receiving" /\ Abandon(c)
    BY <1>9 DEF Truncated
  <2> QED BY <1>0, <2>1 DEF Abandon, Work, Typed, Phase, Holding, Complete
<1>10. ASSUME Cancelled(c) PROVE Work(c)
  <2>1. phase[c] = "receiving" /\ Abandon(c)
    BY <1>10 DEF Cancelled
  <2> QED BY <1>0, <2>1 DEF Abandon, Work, Typed, Phase, Holding, Complete
<1>11. ASSUME Received(c) PROVE Work(c)
  BY <1>11 DEF Received, Work, Typed, Phase, Holding, Complete
<1>12. ASSUME Publish(c) PROVE Work(c)
  <2> DEFINE file == [upload |-> c, pieces |-> got[c]]
  <2>1. c \in Upload /\ got[c] = Size /\ got[c] \in Nat
    BY <1>12 DEF Publish, Complete, Typed
  <2>2. file \in [upload : Upload, pieces : Nat] /\ file.upload = c /\ file.pieces = Size
    BY <2>1
  <2>3. library' = library \cup {file}
    BY <1>12 DEF Publish
  <2> HIDE DEF file
  <2>4. Published(c)'
    BY <2>2, <2>3 DEF Published
  <2> QED BY <1>0, <1>12, <2>2, <2>3, <2>4
          DEF Publish, Work, Typed, Phase, Holding, Complete
<1>13. ASSUME Invalid(c) PROVE Work(c)
  <2>1. phase[c] = "publishing" /\ Abandon(c)
    BY <1>13 DEF Invalid
  <2> QED BY <1>0, <2>1 DEF Abandon, Work, Typed, Phase, Holding, Complete
<1>14. ASSUME Respond(c) PROVE Work(c)
  <2>1. reply[c] \in Answer /\ (Delivered(c, reply[c]) \/ UNCHANGED answer)
    BY <1>14 DEF Respond, Typed
  <2>2. /\ answer' \in [Connection -> Answer]
        /\ \A d \in Connection \ {c} : answer'[d] = answer[d]
        /\ answer'[c] \in {answer[c], reply[c]}
    BY <2>1, AnswerFacts
  <2> QED BY <1>14, <2>2 DEF Respond, Work, Typed, Phase, Holding, Complete
<1>15. ASSUME Release(c) PROVE Work(c)
  <2>1. \A d \in Connection \ {c} : phase[d] \notin Holding
    BY <1>15 DEF Release, OneUpload, Holding
  <2> QED BY <1>15, <2>1 DEF Release, Work, Typed, Phase, Holding, Complete
<1>16. ASSUME Leave(c) PROVE Work(c)
  <2>1. End({c}) /\ phase[c] = "leaving" /\ UNCHANGED <<page, answer, slot, parts, library, application>>
    BY <1>16 DEF Leave
  <2>2. /\ phase' \in [Connection -> Phase]
        /\ link' \in [Connection -> {"open", "closed", "vanished"}]
        /\ token' \in [Connection -> BOOLEAN]
        /\ reply' \in [Connection -> Answer]
        /\ got' \in [Connection -> Nat]
        /\ \A d \in Connection \ {c} :
             phase'[d] = phase[d] /\ reply'[d] = reply[d] /\ got'[d] = got[d]
        /\ phase'[c] \in {"none", "over"} /\ reply'[c] = "none"
    BY <2>1, EndFacts
  <2> QED BY <2>1, <2>2 DEF Work, Typed, Holding, Complete
<1>17. ASSUME Connect(c) PROVE Work(c)
  BY <1>17 DEF Connect, Work, Typed, Phase, Holding, Complete
<1>18. ASSUME Vanish(c) PROVE Work(c)
  BY <1>18 DEF Vanish, Work, Typed, Phase, Holding, Complete, Working
<1>19. ASSUME DiskFails(c) PROVE Work(c)
  <2>1. phase[c] = "receiving" /\ Abandon(c)
    BY <1>19 DEF DiskFails
  <2> QED BY <1>0, <2>1 DEF Abandon, Work, Typed, Phase, Holding, Complete
<1> QED
  BY <1>1, <1>2, <1>3, <1>4, <1>5, <1>6, <1>7, <1>8, <1>9,
     <1>10, <1>11, <1>12, <1>13, <1>14, <1>15, <1>16, <1>17, <1>18, <1>19
  DEF ServerStep

LEMMA ServerKeeps ==
  ASSUME IInv, NEW c \in Connection,
         ServerStep(c) \/ Connect(c) \/ Vanish(c) \/ DiskFails(c)
  PROVE  IInv'
PROOF
BY ServerWorks, WorkKeeps

-----------------------------------------------------------------------------
(* The application *)

\* A step that ends the listener with all connections that are under way, and
\* leaves the slot to nobody, keeps the invariant.
LEMMA EndKeeps ==
  ASSUME IInv, NEW ended \in SUBSET Connection, End(ended),
         UNCHANGED <<queue, current, paired, answer, parts, library>>,
         \A c \in ended : phase[c] # "none", listening' = FALSE, accepting' = FALSE,
         \A c \in Connection \ ended : phase[c] \in {"none", "over"},
         \/ slot' = slot /\ (\A c \in ended : phase[c] \notin Holding) /\ app' = app
         \/ slot' = FALSE /\ (\A c \in Connection \ ended : phase[c] = "none") /\ app' = "down"
  PROVE  IInv'
PROOF
<1> USE DEF IInv
<1>1. /\ phase' \in [Connection -> Phase]
      /\ link' \in [Connection -> {"open", "closed", "vanished"}]
      /\ token' \in [Connection -> BOOLEAN]
      /\ reply' \in [Connection -> Answer]
      /\ got' \in [Connection -> Nat]
      /\ \A c \in Connection \ ended :
           phase'[c] = phase[c] /\ reply'[c] = reply[c] /\ got'[c] = got[c]
      /\ \A c \in ended : phase'[c] \in {"none", "over"} /\ reply'[c] = "none"
  BY EndFacts
<1>2. \A c \in ended \cap Upload : phase'[c] = "over"
  BY EndFacts
<1>3. Typed'
  BY <1>1 DEF Typed
<1>4. OneUpload'
  <2>1. CASE slot' = slot /\ \A c \in ended : phase[c] \notin Holding
    <3>1. \A c \in Connection : phase'[c] \in Holding <=> phase[c] \in Holding
      BY <1>1, <2>1 DEF Holding
    <3> QED BY <2>1, <3>1 DEF OneUpload
  <2>2. CASE slot' = FALSE /\ \A c \in Connection \ ended : phase[c] = "none"
    BY <1>1, <2>2 DEF OneUpload, Holding
  <2> QED BY <2>1, <2>2
<1>5. Resting'
  BY <1>1 DEF Resting
<1>6. Unsent'
  <2>1. \A p \in Page : \A i \in 1..MaxItems :
          phase[<<p, i>>] = "none" => phase'[<<p, i>>] = "none"
    BY <1>1 DEF Connection, Upload
  <2>2. \A p \in Page : \A i \in 1..Len(queue[p]) : i \in 1..MaxItems
    BY ItemAssumption DEF Typed
  <2>3. \A d : Published(d) => Published(d)'
    BY DEF Published
  <2> QED BY <2>1, <2>2, <2>3 DEF Unsent, Sound
<1>7. Complete'
  BY <1>1 DEF Complete
<1>8. Promised'
  BY <1>1 DEF Promised, Published
<1> QED BY <1>3, <1>4, <1>5, <1>6, <1>7, <1>8

\* A step that changes neither queues nor connections, and frees the slot or
\* ends the service only where no worker is left, keeps the invariant.
LEMMA IdleKeeps ==
  ASSUME IInv,
         UNCHANGED <<queue, current, phase, link, token, reply, answer, got, library>>,
         paired' \in [Page -> Pairing], parts' \in {parts, {}},
         app' \in {"foreground", "leaving", "rotating", "background"},
         accepting' \in BOOLEAN, accepting' => listening',
         \/ slot' = slot /\ listening' = listening /\ app' # "background"
         \/ /\ \A c \in Connection : phase[c] \in {"none", "over"}
            /\ slot' = FALSE /\ listening' \in BOOLEAN
            /\ app' = "background" => ~listening'
  PROVE  IInv'
PROOF
<1> USE DEF IInv
<1>1. Typed'
  BY DEF Typed
<1>2. OneUpload'
  <2>1. CASE slot' = slot
    BY <2>1 DEF OneUpload
  <2>2. CASE slot' = FALSE /\ \A c \in Connection : phase[c] \in {"none", "over"}
    BY <2>2 DEF OneUpload, Holding
  <2> QED BY <2>1, <2>2
<1>3. Resting'
  BY DEF Resting, Typed
<1>4. \A c \in Connection : Published(c)' <=> Published(c)
  BY DEF Published
<1>5. \A p \in Page, i \in 1..MaxItems : <<p, i>> \in Connection
  BY DEF Connection, Upload
<1>6. \A p \in Page : \A i \in 1..Len(queue[p]) :
        Sound(p, i, queue[p][i], phase[<<p, i>>])' <=> Sound(p, i, queue[p][i], phase[<<p, i>>])
  BY DEF Sound, Published
<1>7. Unsent'
  BY <1>6 DEF Unsent
<1>8. Complete'
  BY DEF Complete
<1>9. Promised'
  BY <1>4 DEF Promised
<1> QED BY <1>1, <1>2, <1>3, <1>7, <1>8, <1>9

\* Stops, starts and crashes keep the invariant.
LEMMA ApplicationKeeps ==
  ASSUME IInv, ApplicationStep
  PROVE  IInv'
PROOF
<1> USE DEF page, client, server
<1>1. ASSUME Stop("leaving") \/ Stop("rotating") PROVE IInv'
  <2>1. /\ app' \in {"leaving", "rotating"}
        /\ UNCHANGED <<queue, current, paired, phase, link, token, reply, answer,
                       got, slot, parts, library, listening, accepting>>
    BY <1>1 DEF Stop
  <2>2. paired' \in [Page -> Pairing] /\ accepting' \in BOOLEAN /\ (accepting' => listening')
    BY <2>1 DEF IInv, Typed, Resting
  <2> QED BY <2>1, <2>2, IdleKeeps
<1>2. ASSUME CloseListener PROVE IInv'
  <2> DEFINE ended == {c \in Connection : phase[c] = "backlog"}
  <2>1. /\ End(ended) /\ listening' = FALSE /\ slot' = slot /\ app' = app
        /\ accepting' = FALSE /\ Workers = {}
        /\ UNCHANGED <<queue, current, paired, answer, parts, library>>
    BY <1>2 DEF CloseListener, DropListener, IInv, Typed
  <2>2. \A c \in Connection \ ended : phase[c] \in {"none", "over"}
    BY <2>1 DEF Workers, Working, IInv, Typed, Phase
  <2>3. \A c \in ended : phase[c] # "none" /\ phase[c] \notin Holding
    BY DEF Holding
  <2> QED BY <2>1, <2>2, <2>3, EndKeeps
<1>3. ASSUME Joined PROVE IInv'
  <2>1. \A c \in Connection : phase[c] \in {"none", "over"}
    BY <1>3 DEF Joined, IInv, Resting
  <2>2. ~slot
    BY <2>1 DEF IInv, OneUpload, Holding
  <2>3. /\ UNCHANGED <<queue, current, phase, link, token, reply, answer, got, library>>
        /\ ~listening
        /\ \/ app' = "background" /\ UNCHANGED <<listening, accepting, parts, paired, slot>>
           \/ Start
    BY <1>3 DEF Joined
  <2>4. paired' \in [Page -> Pairing] /\ parts' \in {parts, {}} /\ slot' = FALSE
        /\ app' \in {"foreground", "background"} /\ listening' \in BOOLEAN
        /\ accepting' \in BOOLEAN /\ (accepting' => listening')
        /\ (app' = "background" => ~listening')
    <3>1. CASE app' = "background" /\ UNCHANGED <<listening, accepting, parts, paired, slot>>
      BY <2>2, <2>3, <3>1 DEF IInv, Typed, Resting
    <3>2. CASE Start
      BY <2>2, <3>2 DEF Start, IInv, Typed, Pairing
    <3> QED BY <2>3, <3>1, <3>2
  <2> QED BY <2>1, <2>3, <2>4, IdleKeeps
<1>4. ASSUME EnterForeground PROVE IInv'
  <2>1. /\ UNCHANGED <<queue, current, phase, link, token, reply, answer, got, library>>
        /\ app \in {"background", "down"} /\ Start
    BY <1>4 DEF EnterForeground
  <2>2. \A c \in Connection : phase[c] \in {"none", "over"}
    BY <2>1 DEF IInv, Resting
  <2>3. paired' \in [Page -> Pairing] /\ parts' \in {parts, {}} /\ slot' = FALSE
        /\ app' = "foreground" /\ listening' = TRUE /\ accepting' = TRUE
    BY <2>1 DEF Start, IInv, Typed, Pairing
  <2> QED BY <2>1, <2>2, <2>3, IdleKeeps
<1>5. ASSUME Crash PROVE IInv'
  <2> DEFINE ended == {c \in Connection : phase[c] # "none"}
  <2>1. /\ End(ended) /\ listening' = FALSE /\ slot' = FALSE /\ app' = "down"
        /\ accepting' = FALSE
        /\ UNCHANGED <<queue, current, paired, answer, parts, library>>
    BY <1>5 DEF Crash
  <2> QED BY <2>1, EndKeeps
<1>6. ASSUME LeaveLoop PROVE IInv'
  <2>1. /\ UNCHANGED <<queue, current, paired, phase, link, token, reply, answer,
                       got, slot, parts, library, app, listening>>
        /\ app \in {"foreground", "leaving", "rotating"} /\ accepting' = FALSE
    BY <1>6 DEF LeaveLoop, IInv, Typed, Resting
  <2>2. paired' \in [Page -> Pairing]
    BY <2>1 DEF IInv, Typed
  <2> QED BY <2>1, <2>2, IdleKeeps
<1> QED BY <1>1, <1>2, <1>3, <1>4, <1>5, <1>6 DEF ApplicationStep

-----------------------------------------------------------------------------
(* The theorems *)

\* pair() keeps the invariant.
LEMMA PairKeeps ==
  ASSUME IInv, NEW p \in Page, Pair(p)
  PROVE  IInv'
PROOF
<1>1. /\ UNCHANGED <<queue, current, phase, link, token, reply, answer, got, slot,
                     parts, library, app, listening, accepting>>
      /\ app = "foreground"
  BY DEF Pair, client, server, application
<1>2. paired' \in [Page -> Pairing] /\ accepting' \in BOOLEAN /\ (accepting' => listening')
  BY <1>1 DEF Pair, IInv, Typed, Pairing, Resting
<1> QED BY <1>1, <1>2, IdleKeeps

\* The invariant holds initially.
LEMMA InitHolds == Init => IInv
PROOF
<1> SUFFICES ASSUME Init PROVE IInv
  OBVIOUS
<1> USE DEF Init
<1>1. Typed
  <2>1. <<>> \in Seq(Item) /\ Len(<<>>) = 0
    OBVIOUS
  <2>2. queue \in [Page -> Seq(Item)]
        /\ \A p \in Page : Len(queue[p]) <= MaxItems /\ current[p] \in 0..Len(queue[p])
    BY <2>1, ItemAssumption
  <2> QED BY <2>2 DEF Typed, Phase, Answer, Pairing
<1>2. OneUpload /\ Resting /\ Complete /\ Promised
  BY DEF OneUpload, Holding, Resting, Complete, Promised
<1>3. Unsent
  <2>1. \A p \in Page, i \in 1..MaxItems : <<p, i>> \in Connection
    BY DEF Connection, Upload
  <2> QED BY <2>1 DEF Unsent
<1> QED BY <1>1, <1>2, <1>3 DEF IInv

\* Every step keeps the invariant.
LEMMA StepKeeps == IInv /\ [Next]_vars => IInv'
PROOF
<1> SUFFICES ASSUME IInv, [Next]_vars PROVE IInv'
  OBVIOUS
<1>1. ASSUME NEW p \in Page, PageStep(p) PROVE IInv'
  BY <1>1, PageTurns, TurnKeeps
<1>2. ASSUME NEW p \in Page, UserStep(p) PROVE IInv'
  BY <1>2, UserTurns, TurnKeeps, PairKeeps
<1>3. ASSUME NEW c \in Connection,
             ServerStep(c) \/ Connect(c) \/ Vanish(c) \/ DiskFails(c)
      PROVE  IInv'
  BY <1>3, ServerKeeps
<1>4. CASE UNCHANGED vars
  <2> USE <1>4 DEF vars
  <2>1. IInv => Typed' /\ OneUpload' /\ Resting'
    BY DEF IInv, Typed, OneUpload, Resting
  <2>2. IInv => Unsent' /\ Complete' /\ Promised'
    BY DEF IInv, Unsent, Sound, Published, Complete, Promised
  <2> QED BY <2>1, <2>2 DEF IInv
<1> QED BY <1>1, <1>2, <1>3, <1>4, ApplicationKeeps DEF Next

\* The inductive invariant holds throughout.
THEOREM Invariant == Spec => []IInv
PROOF
BY InitHolds, StepKeeps, PTL DEF Spec

\* However pages, connections, stops and crashes interleave, active_upload is
\* up exactly while a worker is between the check of its headers and its
\* answer, and no second worker is (upload, ActiveUploadGuard).
THEOREM AtMostOneUpload == Spec => []OneUpload
PROOF
<1>1. IInv => OneUpload
  BY DEF IInv
<1> QED BY <1>1, Invariant, PTL

\* Whatever was aborted, lost or stopped: a published file is complete, and a
\* page shows as saved only what is published (receive, upload, send).
THEOREM SavedUploadsAreWhole == Spec => []SavedIsWhole
PROOF
<1>1. IInv => SavedIsWhole
  <2> SUFFICES ASSUME IInv PROVE SavedIsWhole
    OBVIOUS
  <2>1. \A file \in library : file.pieces = Size
    BY DEF IInv, Complete
  <2>2. \A p \in Page : \A i \in DOMAIN queue[p] :
          queue[p][i].status = "saved" => Published(<<p, i>>)
    BY QueueFacts DEF Sound
  <2> QED BY <2>1, <2>2 DEF SavedIsWhole, Published
<1> QED BY <1>1, Invariant, PTL
-----------------------------------------------------------------------------
(* What holds beside IInv: it says that a page touches no worker, that a   *)
(* worker that receives is an upload's, and that a server starts where all *)
(* workers are gone.                                                       *)

Counted == IsFiniteSet(Workers) /\ ConnectionsCounted

Bounded ==
  /\ \A c \in Connection : got[c] <= Size
  /\ active <= MaxConnections
  /\ faults \in 0..MaxFaults

\* What stays of part files and workers where no worker moves.
LEMMA Unmoved ==
  ASSUME IInv,
         \A c \in Connection :
           phase'[c] = phase[c] \/ (phase[c] \notin Working /\ phase'[c] \notin Working)
  PROVE  /\ Workers' = Workers
         /\ {c \in Upload : phase'[c] \in {"receiving", "publishing"}}
              = {c \in Upload : phase[c] \in {"receiving", "publishing"}}
PROOF
<1>1. \A c \in Connection : phase'[c] \in Working <=> phase[c] \in Working
  OBVIOUS
<1>2. \A c \in Upload : phase'[c] \in {"receiving", "publishing"}
                          <=> phase[c] \in {"receiving", "publishing"}
  BY DEF Working, Connection
<1> QED BY <1>1, <1>2 DEF Workers

LEMMA TurnServes ==
  ASSUME IInv, NEW p \in Page, Turn(p), UNCHANGED <<active, faults>>
  PROVE  /\ PartsAreLive => PartsAreLive'
         /\ Counted => Counted'
         /\ Bounded => Bounded'
PROOF
<1>1. \A c \in Connection :
        phase'[c] = phase[c] \/ (phase[c] \notin Working /\ phase'[c] \notin Working)
  BY DEF Turn, Moves, Working
<1>2. parts' = parts /\ app' = app /\ got' = got
  BY DEF Turn
<1> QED BY <1>1, <1>2, Unmoved DEF PartsAreLive, Counted, ConnectionsCounted, Bounded

LEMMA PageServes ==
  ASSUME IInv, NEW p \in Page, PageStep(p) \/ UserStep(p)
  PROVE  /\ PartsAreLive => PartsAreLive'
         /\ Counted => Counted'
         /\ Bounded => Bounded'
PROOF
<1>1. UNCHANGED <<active, faults>>
  BY DEF PageStep, UserStep, Converted, ConversionFails, Loaded, NetworkError, Enqueue,
         CancelWaiting, CancelUploading, Pair, server
<1>2. CASE Turn(p)
  BY <1>1, <1>2, TurnServes
<1>3. CASE Pair(p)
  <2>1. UNCHANGED <<phase, parts, app, got>>
    BY <1>3 DEF Pair, server, application
  <2> QED BY <1>1, <2>1, Unmoved DEF PartsAreLive, Counted, ConnectionsCounted, Bounded
<1> QED BY <1>2, <1>3, PageTurns, UserTurns
-----------------------------------------------------------------------------
(* Part files *)

LEMMA ServerKeepsParts ==
  ASSUME IInv, PartsAreLive, NEW c \in Connection,
         ServerStep(c) \/ Connect(c) \/ Vanish(c) \/ DiskFails(c)
  PROVE  PartsAreLive'
PROOF
<1> USE DEF application, server
<1>0. phase \in [Connection -> Phase] /\ parts \subseteq Upload /\ Upload \subseteq Connection
      /\ (phase[c] \in {"receiving", "publishing"} => c \in Upload)
      /\ parts' \subseteq Upload
  BY ServerKeeps DEF IInv, Typed, Complete, Connection
<1> SUFFICES /\ app' = app
             /\ \A d \in Connection \ {c} : phase'[d] = phase[d] /\ (d \in parts' <=> d \in parts)
             /\ app # "down" =>
                  (c \in parts' <=> c \in Upload /\ phase'[c] \in {"receiving", "publishing"})
  BY <1>0 DEF PartsAreLive
<1>1. app # "down" =>
        (c \in parts <=> c \in Upload /\ phase[c] \in {"receiving", "publishing"})
  BY DEF PartsAreLive
<1>2. CASE RejectBusy(c) \/ Leave(c)
  <2>1. End({c}) /\ parts' = parts /\ app' = app /\ phase[c] \in {"backlog", "leaving"}
    BY <1>2 DEF RejectBusy, Leave
  <2> QED BY <1>0, <1>1, <2>1, EndFacts
<1>3. CASE Truncated(c) \/ Cancelled(c) \/ Invalid(c) \/ DiskFails(c)
  <2>1. Abandon(c)
    BY <1>3 DEF Truncated, Cancelled, Invalid, DiskFails
  <2> QED BY <1>0, <2>1 DEF Abandon
<1>4. CASE AnswerOther(c) \/ RefuseUpload(c)
  <2>1. phase[c] = "head" /\ \E code \in Answer : Decline(c, code)
    BY <1>4 DEF AnswerOther, RefuseUpload, Answer
  <2> QED BY <1>0, <1>1, <2>1 DEF Decline
<1>5. CASE TakeSlot(c)
  BY <1>0, <1>1, <1>5 DEF TakeSlot
<1>6. CASE Publish(c)
  BY <1>0, <1>1, <1>6 DEF Publish
<1>7. CASE Accept(c) \/ BeginSession(c) \/ EndSession(c) \/ Respond(c) \/ Release(c) \/ Connect(c)
  BY <1>0, <1>1, <1>7 DEF Accept, BeginSession, EndSession, Respond, Release, Connect
<1>8. CASE Receive(c) \/ Received(c) \/ Vanish(c)
  BY <1>0, <1>1, <1>8 DEF Receive, Received, Vanish
<1> QED BY <1>2, <1>3, <1>4, <1>5, <1>6, <1>7, <1>8 DEF ServerStep

LEMMA ApplicationKeepsParts ==
  ASSUME IInv, PartsAreLive, ApplicationStep
  PROVE  PartsAreLive'
PROOF
<1> USE DEF server
<1>1. CASE Stop("leaving") \/ Stop("rotating") \/ LeaveLoop
  BY <1>1 DEF Stop, LeaveLoop, PartsAreLive
<1>2. CASE CloseListener
  <2> DEFINE ended == {c \in Connection : phase[c] = "backlog"}
  <2>1. End(ended) /\ parts' = parts /\ app' = app
    BY <1>2 DEF CloseListener, DropListener
  <2>2. \A c \in Connection :
          phase'[c] = phase[c] \/ (phase[c] \notin Working /\ phase'[c] \notin Working)
    BY <2>1, EndFacts DEF Working
  <2> QED BY <2>1, <2>2, Unmoved DEF PartsAreLive
<1>3. CASE Joined
  <2>1. ~listening /\ phase' = phase /\ app # "down"
    BY <1>3 DEF Joined, Stopping
  <2>2. {c \in Upload : phase[c] \in {"receiving", "publishing"}} = {}
    BY <2>1 DEF IInv, Resting, Connection
  <2>3. parts' = parts \/ parts' = {}
    BY <1>3 DEF Joined, Start
  <2> QED BY <2>1, <2>2, <2>3 DEF PartsAreLive
<1>4. CASE EnterForeground
  <2>1. phase' = phase /\ parts' = {} /\ app \in {"background", "down"}
    BY <1>4 DEF EnterForeground, Start
  <2>2. \A c \in Upload : phase[c] \in {"none", "over"}
    BY <2>1 DEF IInv, Resting, Connection
  <2> QED BY <2>1, <2>2 DEF PartsAreLive
<1>5. CASE Crash
  BY <1>5 DEF Crash, PartsAreLive
<1> QED BY <1>1, <1>2, <1>3, <1>4, <1>5 DEF ApplicationStep
-----------------------------------------------------------------------------
(* The count of workers *)

LEMMA ServerCounts ==
  ASSUME IInv, Counted, NEW c \in Connection,
         ServerStep(c) \/ Connect(c) \/ Vanish(c) \/ DiskFails(c)
  PROVE  Counted'
PROOF
<1> USE DEF server
<1>0. phase \in [Connection -> Phase]
  BY DEF IInv, Typed
<1>1. CASE Accept(c)
  <2>1. Workers' = Workers \cup {c} /\ c \notin Workers /\ active' = active + 1
    BY <1>0, <1>1 DEF Accept, Workers, Working
  <2> QED BY <2>1, FS_AddElement DEF Counted, ConnectionsCounted
<1>2. CASE Leave(c)
  <2>1. End({c}) /\ phase[c] = "leaving" /\ active' = active - 1
    BY <1>2 DEF Leave
  <2>2. Workers' = Workers \ {c} /\ c \in Workers
    BY <2>1, EndFacts DEF Workers, Working
  <2> QED BY <2>1, <2>2, FS_RemoveElement DEF Counted, ConnectionsCounted
<1>3. ASSUME Workers' = Workers, active' = active
      PROVE  Counted'
  BY <1>3 DEF Counted, ConnectionsCounted
<1>4. CASE RejectBusy(c)
  <2>1. End({c}) /\ phase[c] = "backlog" /\ active' = active
    BY <1>4 DEF RejectBusy
  <2> QED BY <1>3, <2>1, EndFacts DEF Workers, Working
<1>5. CASE Truncated(c) \/ Cancelled(c) \/ Invalid(c) \/ DiskFails(c)
  <2>1. Abandon(c) /\ phase[c] \in {"receiving", "publishing"}
    BY <1>5 DEF Truncated, Cancelled, Invalid, DiskFails
  <2> QED BY <1>0, <1>3, <2>1 DEF Abandon, Workers, Working
<1>6. CASE AnswerOther(c) \/ RefuseUpload(c)
  <2>1. phase[c] = "head" /\ \E code \in Answer : Decline(c, code)
    BY <1>6 DEF AnswerOther, RefuseUpload, Answer
  <2> QED BY <1>0, <1>3, <2>1 DEF Decline, Workers, Working
<1>7. CASE TakeSlot(c) \/ Publish(c)
  BY <1>0, <1>3, <1>7 DEF TakeSlot, Publish, Workers, Working
<1>8. CASE BeginSession(c) \/ EndSession(c) \/ Respond(c) \/ Release(c) \/ Connect(c)
  BY <1>0, <1>3, <1>8 DEF BeginSession, EndSession, Respond, Release, Connect, Workers, Working
<1>9. CASE Receive(c) \/ Received(c) \/ Vanish(c)
  BY <1>0, <1>3, <1>9 DEF Receive, Received, Vanish, Workers, Working
<1> QED BY <1>1, <1>2, <1>4, <1>5, <1>6, <1>7, <1>8, <1>9 DEF ServerStep

LEMMA ApplicationCounts ==
  ASSUME IInv, Counted, ApplicationStep
  PROVE  Counted'
PROOF
<1> USE DEF server
<1>1. CASE Stop("leaving") \/ Stop("rotating") \/ LeaveLoop
  BY <1>1 DEF Stop, LeaveLoop, Counted, ConnectionsCounted, Workers
<1>2. CASE CloseListener
  <2> DEFINE ended == {c \in Connection : phase[c] = "backlog"}
  <2>1. End(ended) /\ active' = active
    BY <1>2 DEF CloseListener, DropListener
  <2>2. \A c \in Connection :
          phase'[c] = phase[c] \/ (phase[c] \notin Working /\ phase'[c] \notin Working)
    BY <2>1, EndFacts DEF Working
  <2> QED BY <2>1, <2>2, Unmoved DEF Counted, ConnectionsCounted
<1>3. ASSUME Workers' = {}, active' = 0
      PROVE  Counted'
  BY <1>3, FS_EmptySet DEF Counted, ConnectionsCounted
<1>4. CASE Joined
  <2>1. Workers = {} /\ Workers' = {} /\ active' \in {0, active}
    BY <1>4 DEF Joined, Start, IInv, Resting, Workers, Working
  <2>2. active = 0
    BY <2>1, FS_EmptySet DEF Counted, ConnectionsCounted
  <2> QED BY <1>3, <2>1, <2>2
<1>5. CASE EnterForeground
  <2>1. phase' = phase /\ active' = 0 /\ app \in {"background", "down"}
    BY <1>5 DEF EnterForeground, Start
  <2>2. Workers' = {}
    BY <2>1 DEF IInv, Resting, Workers, Working
  <2> QED BY <1>3, <2>1, <2>2
<1>6. CASE Crash
  <2> DEFINE ended == {c \in Connection : phase[c] # "none"}
  <2>1. End(ended) /\ active' = 0
    BY <1>6 DEF Crash
  <2>2. \A c \in Connection : phase'[c] \in {"none", "over"}
    BY <2>1, EndFacts
  <2> QED BY <1>3, <2>1, <2>2 DEF Workers, Working
<1> QED BY <1>1, <1>2, <1>4, <1>5, <1>6 DEF ApplicationStep

\* No counter leaves its bounds.
LEMMA StepBounded ==
  ASSUME IInv, Counted, Bounded, [Next]_vars
  PROVE  Bounded'
PROOF
<1> USE DEF server, Bounded
<1>0. \A c \in Connection : got[c] \in Nat
  BY DEF IInv, Typed
<1>1. ASSUME NEW p \in Page, PageStep(p) \/ UserStep(p) PROVE Bounded'
  BY <1>1, PageServes
<1>2. ASSUME NEW c \in Connection,
             ServerStep(c) \/ Connect(c) \/ Vanish(c) \/ DiskFails(c)
      PROVE  Bounded'
  <2>1. active \in Nat
    BY FS_CardinalityType DEF Counted, ConnectionsCounted
  <2>2. CASE Accept(c)
    BY <1>0, <2>1, <2>2, LimitAssumption DEF Accept
  <2>3. CASE Receive(c)
    BY <1>0, <2>3, SizeAssumption DEF Receive, IInv, Typed
  <2>4. CASE RejectBusy(c) \/ Leave(c)
    <3>1. End({c}) /\ active' \in {active, active - 1} /\ faults' = faults
      BY <2>4 DEF RejectBusy, Leave
    <3>2. \A d \in Connection : got'[d] \in {0, got[d]}
      BY <1>0, <3>1 DEF End
    <3> QED BY <1>0, <2>1, <3>1, <3>2, SizeAssumption, LimitAssumption
  <2>5. CASE Truncated(c) \/ Cancelled(c) \/ Invalid(c) \/ DiskFails(c)
    <3>1. got' = got /\ active' = active
      BY <2>5 DEF Truncated, Cancelled, Invalid, DiskFails, Abandon
    <3>2. faults' \in 0..MaxFaults
      BY <2>5, LimitAssumption DEF Truncated, Cancelled, Invalid, DiskFails, Fault
    <3> QED BY <3>1, <3>2
  <2>6. CASE AnswerOther(c) \/ RefuseUpload(c)
    BY <2>6 DEF AnswerOther, RefuseUpload, Decline
  <2>7. CASE \/ BeginSession(c) \/ EndSession(c) \/ Respond(c) \/ Release(c) \/ Connect(c)
             \/ TakeSlot(c) \/ Publish(c) \/ Received(c) \/ Vanish(c)
    BY <2>7 DEF BeginSession, EndSession, Respond, Release, Connect, TakeSlot, Publish,
                Received, Vanish
  <2> QED BY <1>2, <2>2, <2>3, <2>4, <2>5, <2>6, <2>7 DEF ServerStep
<1>3. CASE ApplicationStep
  <2>1. faults' \in 0..MaxFaults
    BY <1>3, LimitAssumption
    DEF ApplicationStep, Stop, LeaveLoop, CloseListener, DropListener, Joined, EnterForeground, Crash, Fault
  <2>2. active' \in {0, active} /\ 0 <= MaxConnections
    BY <1>3, LimitAssumption
    DEF ApplicationStep, Stop, LeaveLoop, CloseListener, DropListener, Joined, EnterForeground, Crash, Start
  <2>3. got' = got \/ \E ended \in SUBSET Connection : End(ended)
    BY <1>3 DEF ApplicationStep, Stop, LeaveLoop, CloseListener, DropListener, Joined, EnterForeground, Crash
  <2>4. \A c \in Connection : got'[c] \in {0, got[c]}
    BY <2>3 DEF End
  <2> QED BY <1>0, <2>1, <2>2, <2>4, SizeAssumption
<1>4. CASE UNCHANGED vars
  BY <1>4 DEF vars
<1> QED BY <1>1, <1>2, <1>3, <1>4 DEF Next
-----------------------------------------------------------------------------
(* One request *)

OneOf(p) ==
  \A i \in 1..Len(queue[p]) : queue[p][i].status = "uploading" => current[p] = i

NoneOn(items) == \A i \in 1..Len(items) : items[i].status # "uploading"

\* Where nothing is on its way, run() sends one item at most.
LEMMA ContinueOne ==
  ASSUME IInv, NEW p \in Page, NEW items \in Seq(Item), NoneOn(items), Continue(p, items)
  PROVE  OneOf(p)'
PROOF
<1>1. p \in DOMAIN queue /\ p \in DOMAIN current
  BY DEF IInv, Typed
<1>2. CASE queue' = [queue EXCEPT ![p] = items]
  BY <1>1, <1>2 DEF OneOf, NoneOn
<1>3. ASSUME NEW i \in Waiting(items),
             queue' = [queue EXCEPT ![p] = [items EXCEPT ![i].status = "uploading"]],
             current' = [current EXCEPT ![p] = i]
      PROVE  OneOf(p)'
  <2> DEFINE changed == [items EXCEPT ![i].status = "uploading"]
  <2>1. i \in 1..Len(items) /\ "uploading" \in Status
    BY DEF Waiting, Status
  <2>2. changed = [items EXCEPT ![i].status = "uploading"]
    OBVIOUS
  <2>3. queue'[p] = changed /\ current'[p] = i
    BY <1>1, <1>3
  <2> HIDE DEF changed
  <2>4. Len(changed) = Len(items) /\ \A j \in 1..Len(items) : j # i => changed[j] = items[j]
    BY <2>1, <2>2, StatusSet
  <2> QED BY <2>3, <2>4 DEF OneOf, NoneOn
<1>4. \/ queue' = [queue EXCEPT ![p] = items]
      \/ \E i \in Waiting(items) :
           /\ current' = [current EXCEPT ![p] = i]
           /\ queue' = [queue EXCEPT ![p] = [items EXCEPT ![i].status = "uploading"]]
  BY DEF Continue
<1> QED BY <1>2, <1>3, <1>4

\* The item run() awaits gets a result.
LEMMA SettleOne ==
  ASSUME IInv, NEW p \in Page, OneOf(p), NEW i \in 1..Len(queue[p]), NEW s \in Status,
         current[p] = i, s # "uploading", Continue(p, Settled(p, i, s))
  PROVE  OneOf(p)'
PROOF
<1> DEFINE items == Settled(p, i, s)
<1>2. Continue(p, items)
  OBVIOUS
<1> HIDE DEF items
<1>3. /\ items \in Seq(Item) /\ Len(items) = Len(queue[p]) /\ items[i].status = s
      /\ \A j \in 1..Len(queue[p]) : j # i => items[j] = queue[p][j]
  BY SettledQueue DEF items
<1>4. NoneOn(items)
  BY <1>3 DEF OneOf, NoneOn
<1> QED BY <1>2, <1>3, <1>4, ContinueOne

LEMMA UserKeepsOne ==
  ASSUME IInv, NEW p \in Page, OneOf(p), UserStep(p)
  PROVE  OneOf(p)'
PROOF
<1> USE QueueFacts
<1>1. ASSUME NEW kind \in Kind, Enqueue(p, kind) PROVE OneOf(p)'
  <2> DEFINE item == [kind |-> kind, status |-> "waiting", cancelled |-> FALSE]
             items == Append(queue[p], item)
  <2>1. item \in Item /\ item.status = "waiting"
    BY DEF Item, Status
  <2>2. \/ current[p] = 0 /\ Continue(p, items)
        \/ queue' = [queue EXCEPT ![p] = items] /\ current' = current
    BY <1>1 DEF Enqueue
  <2> HIDE DEF item
  <2>3. /\ items \in Seq(Item) /\ Len(items) = Len(queue[p]) + 1
        /\ items[Len(queue[p]) + 1] = item
        /\ \A j \in 1..Len(queue[p]) : items[j] = queue[p][j]
    BY <2>1
  <2> HIDE DEF items
  <2>4. \A j \in 1..Len(items) : items[j].status = "uploading" =>
          j \in 1..Len(queue[p]) /\ queue[p][j].status = "uploading"
    <3> TAKE j \in 1..Len(items)
    <3>1. Len(queue[p]) \in Nat
      OBVIOUS
    <3>2. CASE j = Len(queue[p]) + 1
      <4>1. items[j].status = "waiting"
        BY <2>1, <2>3, <3>2
      <4> QED BY <4>1
    <3>3. CASE j # Len(queue[p]) + 1
      <4>1. j \in 1..Len(queue[p])
        BY <2>3, <3>1, <3>3
      <4> QED BY <2>3, <4>1
    <3> QED BY <3>2, <3>3
  <2>5. CASE current[p] = 0 /\ Continue(p, items)
    <3>1. NoneOn(items)
      BY <2>4, <2>5 DEF OneOf, NoneOn
    <3> QED BY <2>3, <2>5, <3>1, ContinueOne
  <2>6. CASE queue' = [queue EXCEPT ![p] = items] /\ current' = current
    <3>1. queue'[p] = items
      BY <2>6 DEF IInv, Typed
    <3> QED BY <2>4, <2>6, <3>1 DEF OneOf
  <2> QED BY <2>2, <2>5, <2>6
<1>2. ASSUME NEW i \in DOMAIN queue[p], CancelWaiting(p, i) PROVE OneOf(p)'
  <2> DEFINE item == [queue[p][i] EXCEPT !.cancelled = TRUE, !.status = "cancelled"]
  <2>1. item.status = "cancelled"
    BY DEF Item
  <2>2. queue' = [queue EXCEPT ![p] = [queue[p] EXCEPT ![i] = item]] /\ current' = current
    BY <1>2 DEF CancelWaiting
  <2> HIDE DEF item
  <2>3. /\ Len(queue'[p]) = Len(queue[p]) /\ queue'[p][i] = item
        /\ \A j \in 1..Len(queue[p]) : j # i => queue'[p][j] = queue[p][j]
    BY <2>2 DEF IInv, Typed
  <2> QED BY <2>1, <2>2, <2>3 DEF OneOf
<1>3. ASSUME NEW i \in DOMAIN queue[p], CancelUploading(p, i) PROVE OneOf(p)'
  <2> DEFINE item == [queue[p][i] EXCEPT !.cancelled = TRUE, !.status = "cancelled"]
             items == [queue[p] EXCEPT ![i].cancelled = TRUE, ![i].status = "cancelled"]
  <2>1. item \in Item /\ item.status = "cancelled"
    <3>1. queue[p][i] \in Item
      OBVIOUS
    <3> QED BY <3>1 DEF Item, Status
  <2>2. items = [queue[p] EXCEPT ![i] = item]
    OBVIOUS
  <2>3. Continue(p, items) /\ queue[p][i].status = "uploading"
    BY <1>3 DEF CancelUploading
  <2> HIDE DEF item, items
  <2>4. /\ items \in Seq(Item) /\ Len(items) = Len(queue[p]) /\ items[i] = item
        /\ \A j \in 1..Len(queue[p]) : j # i => items[j] = queue[p][j]
    BY <2>1, <2>2
  <2>5. NoneOn(items)
    BY <2>1, <2>3, <2>4 DEF OneOf, NoneOn
  <2> QED BY <2>3, <2>4, <2>5, ContinueOne
<1>4. CASE Pair(p)
  BY <1>4 DEF Pair, OneOf
<1> QED BY <1>1, <1>2, <1>3, <1>4 DEF UserStep

LEMMA PageKeepsOne ==
  ASSUME IInv, NEW p \in Page, OneOf(p), PageStep(p)
  PROVE  OneOf(p)'
PROOF
<1> USE QueueFacts
<1> DEFINE i == current[p]
<1>0. "failed" \in Status /\ "uploading" \in Status
  BY DEF Status
<1>1. Converting(p) => i \in 1..Len(queue[p]) /\ NoneOn(queue[p])
  BY DEF Converting, OneOf, NoneOn
<1>2. Uploading(p) => i \in 1..Len(queue[p])
  BY DEF Uploading
<1>3. CASE Converted(p)
  <2>1. CASE queue[p][i].cancelled
    BY <1>1, <1>3, <2>1, ContinueOne DEF Converted
  <2>2. CASE ~queue[p][i].cancelled
    <3> DEFINE changed == [queue[p] EXCEPT ![i].status = "uploading"]
    <3>1. queue' = [queue EXCEPT ![p] = changed] /\ current' = current
      <4>1. queue' = [queue EXCEPT ![p][current[p]].status = "uploading"] /\ current' = current
        BY <1>3, <2>2 DEF Converted
      <4> QED BY <4>1, <1>1, <1>3 DEF Converted, IInv, Typed
    <3>2. changed = [queue[p] EXCEPT ![i].status = "uploading"] /\ queue[p] \in Seq(Item)
          /\ i \in 1..Len(queue[p])
      BY <1>1, <1>3 DEF Converted
    <3> HIDE DEF changed, i
    <3>3. Len(changed) = Len(queue[p])
          /\ \A j \in 1..Len(queue[p]) : j # i => changed[j] = queue[p][j]
      BY <1>0, <3>2, StatusSet
    <3>4. queue'[p] = changed
      BY <3>1 DEF IInv, Typed
    <3>5. NoneOn(queue[p])
      BY <1>1, <1>3 DEF Converted
    <3> QED BY <3>1, <3>3, <3>4, <3>5 DEF OneOf, NoneOn, i
  <2> QED BY <2>1, <2>2
<1>4. CASE ConversionFails(p)
  <2>1. CASE queue[p][i].cancelled
    BY <1>1, <1>4, <2>1, ContinueOne DEF ConversionFails
  <2>2. CASE ~queue[p][i].cancelled
    BY <1>0, <1>1, <1>4, <2>2, SettleOne DEF ConversionFails
  <2> QED BY <2>1, <2>2
<1>5. CASE Loaded(p)
  <2>1. <<p, i>> \in Connection
    BY <1>2, <1>5 DEF Loaded
  <2>2. answer[<<p, i>>] \in Status \ {"uploading"}
    BY <1>5, <2>1 DEF Loaded, IInv, Typed, Answer, Status
  <2> QED BY <1>2, <1>5, <2>2, SettleOne DEF Loaded
<1>6. CASE NetworkError(p)
  BY <1>0, <1>2, <1>6, SettleOne DEF NetworkError
<1> QED BY <1>3, <1>4, <1>5, <1>6 DEF PageStep

LEMMA StepKeepsOne ==
  ASSUME IInv, \A p \in Page : OneOf(p), [Next]_vars
  PROVE  \A p \in Page : OneOf(p)'
PROOF
<1>1. ASSUME NEW q \in Page, PageStep(q) \/ UserStep(q)
      PROVE  \A p \in Page : OneOf(p)'
  <2>1. OneOf(q)'
    BY <1>1, PageKeepsOne, UserKeepsOne
  <2>2. \A p \in Page \ {q} : queue'[p] = queue[p] /\ current'[p] = current[p]
    <3>1. Turn(q) \/ Pair(q)
      BY <1>1, PageTurns, UserTurns
    <3> QED BY <3>1 DEF Turn, Moves, Pair
  <2> QED BY <2>1, <2>2 DEF OneOf
<1>2. ASSUME UNCHANGED <<queue, current>>
      PROVE  \A p \in Page : OneOf(p)'
  BY <1>2 DEF OneOf
<1>3. ASSUME NEW c \in Connection,
             ServerStep(c) \/ Connect(c) \/ Vanish(c) \/ DiskFails(c)
      PROVE  UNCHANGED <<queue, current>>
  BY <1>3 DEF ServerStep, Connect, Vanish, DiskFails, page, Accept, RejectBusy, AnswerOther,
              BeginSession, EndSession, RefuseUpload, TakeSlot, Receive, Truncated, Cancelled,
              Received, Publish, Invalid, Respond, Release, Leave, Decline, Abandon
<1>4. ASSUME ApplicationStep
      PROVE  UNCHANGED <<queue, current>>
  BY <1>4 DEF ApplicationStep, page, Stop, LeaveLoop, CloseListener, DropListener, Joined,
              EnterForeground, Crash
<1>5. CASE UNCHANGED vars
  BY <1>2, <1>5 DEF vars
<1> QED BY <1>1, <1>2, <1>3, <1>4, <1>5 DEF Next
-----------------------------------------------------------------------------
(* Cancelled items *)

Home(p) ==
  \A i \in 1..Len(queue[p]) :
    queue[p][i].cancelled /\ phase[<<p, i>>] = "none" => phase'[<<p, i>>] = "none"

\* run() sends nothing that was cancelled.
LEMMA ContinueHome ==
  ASSUME IInv, NEW p \in Page, NEW items \in Seq(Item), Continue(p, items),
         \A i \in 1..Len(queue[p]) : queue[p][i].cancelled => items[i].cancelled
  PROVE  Home(p)
PROOF
<1>1. CASE phase' = phase
  BY <1>1 DEF Home
<1>2. ASSUME NEW i \in Waiting(items), Request(p, i)
      PROVE  Home(p)
  <2>1. ~items[i].cancelled
    BY DEF Waiting
  <2>2. phase' = phase \/ \E x : phase' = [phase EXCEPT ![<<p, i>>] = x]
    BY <1>2 DEF Request
  <2>3. \A j \in 1..Len(queue[p]) : j # i => phase'[<<p, j>>] = phase[<<p, j>>]
    BY <2>2, QueueFacts DEF IInv, Typed
  <2> QED BY <2>1, <2>3 DEF Home
<1> QED BY <1>1, <1>2 DEF Continue

LEMMA SettledHome ==
  ASSUME IInv, NEW p \in Page, NEW i \in 1..Len(queue[p]), NEW s \in Status,
         Continue(p, Settled(p, i, s))
  PROVE  Home(p)
PROOF
<1> DEFINE items == Settled(p, i, s)
<1>1. items = [queue[p] EXCEPT ![i].status = s] /\ queue[p] \in Seq(Item)
  BY QueueFacts DEF Settled
<1>2. Continue(p, items)
  OBVIOUS
<1> HIDE DEF items
<1>3. /\ items \in Seq(Item) /\ items[i].cancelled = queue[p][i].cancelled
      /\ \A j \in 1..Len(queue[p]) : j # i => items[j] = queue[p][j]
  BY <1>1, StatusSet
<1> QED BY <1>2, <1>3, ContinueHome

LEMMA PageHome ==
  ASSUME IInv, NEW p \in Page, PageStep(p) \/ UserStep(p)
  PROVE  Home(p)
PROOF
<1> USE QueueFacts
<1> DEFINE n == current[p]
<1>0. "failed" \in Status
  BY DEF Status
<1>1. ASSUME NEW i \in 1..Len(queue[p]), NEW s \in Status, Continue(p, Settled(p, i, s))
      PROVE  Home(p)
  BY <1>1, SettledHome
<1>2. ASSUME NEW kind \in Kind, Enqueue(p, kind) PROVE Home(p)
  <2> DEFINE item == [kind |-> kind, status |-> "waiting", cancelled |-> FALSE]
             items == Append(queue[p], item)
  <2>1. item \in Item
    BY DEF Item, Status
  <2>2. Continue(p, items) \/ phase' = phase
    BY <1>2 DEF Enqueue
  <2> HIDE DEF item
  <2>3. items \in Seq(Item) /\ \A j \in 1..Len(queue[p]) : items[j] = queue[p][j]
    BY <2>1
  <2> HIDE DEF items
  <2> QED BY <2>2, <2>3, ContinueHome DEF Home
<1>3. ASSUME NEW i \in DOMAIN queue[p], CancelUploading(p, i) PROVE Home(p)
  <2> DEFINE item == [queue[p][i] EXCEPT !.cancelled = TRUE, !.status = "cancelled"]
             items == [queue[p] EXCEPT ![i].cancelled = TRUE, ![i].status = "cancelled"]
  <2>1. item \in Item /\ item.cancelled
    <3>1. queue[p][i] \in Item
      OBVIOUS
    <3> QED BY <3>1 DEF Item, Status
  <2>2. items = [queue[p] EXCEPT ![i] = item]
    OBVIOUS
  <2>3. Continue(p, items)
    BY <1>3 DEF CancelUploading
  <2> HIDE DEF item, items
  <2>4. /\ items \in Seq(Item) /\ items[i] = item
        /\ \A j \in 1..Len(queue[p]) : j # i => items[j] = queue[p][j]
    BY <2>1, <2>2
  <2> QED BY <2>1, <2>3, <2>4, ContinueHome
<1>4. CASE (\E i \in DOMAIN queue[p] : CancelWaiting(p, i)) \/ Pair(p)
  BY <1>4 DEF CancelWaiting, Pair, server, Home
<1>5. CASE Converted(p)
  <2>1. CASE queue[p][n].cancelled
    BY <1>5, <2>1, ContinueHome DEF Converted
  <2>2. CASE ~queue[p][n].cancelled
    <3>1. phase' = phase \/ \E x : phase' = [phase EXCEPT ![<<p, n>>] = x]
      BY <1>5, <2>2 DEF Converted, Request
    <3>2. \A j \in 1..Len(queue[p]) : j # n => phase'[<<p, j>>] = phase[<<p, j>>]
      BY <3>1 DEF IInv, Typed
    <3> QED BY <2>2, <3>2 DEF Home
  <2> QED BY <2>1, <2>2
<1>6. CASE ConversionFails(p)
  <2>1. n \in 1..Len(queue[p])
    BY <1>6 DEF ConversionFails, Converting
  <2> QED BY <1>0, <1>1, <1>6, <2>1, ContinueHome DEF ConversionFails
<1>7. CASE Loaded(p)
  <2>1. n \in 1..Len(queue[p]) /\ <<p, n>> \in Connection
    BY <1>7 DEF Loaded, Uploading
  <2>2. answer[<<p, n>>] \in Status
    BY <1>7, <2>1 DEF Loaded, IInv, Typed, Answer, Status
  <2> QED BY <1>1, <1>7, <2>1, <2>2 DEF Loaded
<1>8. CASE NetworkError(p)
  <2>1. n \in 1..Len(queue[p])
    BY <1>8 DEF NetworkError, Uploading
  <2> QED BY <1>0, <1>1, <1>8, <2>1 DEF NetworkError
<1> QED BY <1>2, <1>3, <1>4, <1>5, <1>6, <1>7, <1>8 DEF PageStep, UserStep

LEMMA StepHome ==
  ASSUME IInv, [Next]_vars, NEW p \in Page
  PROVE  Home(p)
PROOF
<1>0. \A i \in 1..Len(queue[p]) : <<p, i>> \in Connection /\ <<p, i>> \notin Stranger
  <2>1. \A i \in 1..Len(queue[p]) : i \in 1..MaxItems
    BY QueueFacts, ItemAssumption
  <2> QED BY <2>1, QueueFacts, StrangerAssumption
<1>1. ASSUME NEW q \in Page, PageStep(q) \/ UserStep(q)
      PROVE  Home(p)
  <2>1. CASE q = p
    BY <1>1, <2>1, PageHome
  <2>2. CASE q # p
    <3>1. Turn(q) \/ Pair(q)
      BY <1>1, PageTurns, UserTurns
    <3>2. CASE Turn(q)
      BY <1>0, <2>2, <3>2 DEF Turn, Moves, Home
    <3>3. CASE Pair(q)
      BY <3>3 DEF Pair, server, Home
    <3> QED BY <3>1, <3>2, <3>3
  <2> QED BY <2>1, <2>2
<1>2. ASSUME NEW c \in Connection,
             ServerStep(c) \/ Connect(c) \/ Vanish(c) \/ DiskFails(c)
      PROVE  Home(p)
  <2>1. Work(c)
    BY <1>2, ServerWorks
  <2> QED BY <1>0, <2>1 DEF Work, Home
<1>3. ASSUME NEW ended \in SUBSET Connection, End(ended), \A c \in ended : phase[c] # "none"
      PROVE  Home(p)
  BY <1>0, <1>3, EndFacts DEF Home
<1>4. CASE ApplicationStep
  <2>1. CASE CloseListener
    <3> DEFINE ended == {c \in Connection : phase[c] = "backlog"}
    <3>1. End(ended) /\ \A c \in ended : phase[c] # "none"
      BY <2>1 DEF CloseListener, DropListener
    <3> QED BY <1>3, <3>1
  <2>2. CASE Crash
    <3> DEFINE ended == {c \in Connection : phase[c] # "none"}
    <3>1. End(ended) /\ \A c \in ended : phase[c] # "none"
      BY <2>2 DEF Crash
    <3> QED BY <1>3, <3>1
  <2>3. CASE Stop("leaving") \/ Stop("rotating") \/ LeaveLoop \/ Joined \/ EnterForeground
    BY <2>3 DEF Stop, LeaveLoop, Joined, EnterForeground, server, Home
  <2> QED BY <1>4, <2>1, <2>2, <2>3 DEF ApplicationStep
<1>5. CASE UNCHANGED vars
  BY <1>5 DEF vars, Home
<1> QED BY <1>1, <1>2, <1>4, <1>5 DEF Next
-----------------------------------------------------------------------------
(* The theorems *)

Service == Counted /\ Bounded /\ PartsAreLive /\ \A p \in Page : OneOf(p)

LEMMA InitServes == Init => Service
PROOF
<1> SUFFICES ASSUME Init PROVE Service
  OBVIOUS
<1>1. Workers = {}
  BY DEF Init, Workers, Working
<1>2. Counted
  BY <1>1, FS_EmptySet DEF Init, Counted, ConnectionsCounted
<1>3. Bounded
  BY SizeAssumption, LimitAssumption DEF Init, Bounded
<1>4. PartsAreLive
  BY DEF Init, PartsAreLive, Connection
<1>5. \A p \in Page : OneOf(p)
  BY DEF Init, OneOf
<1> QED BY <1>2, <1>3, <1>4, <1>5 DEF Service

LEMMA StepServes == IInv /\ Service /\ [Next]_vars => Service'
PROOF
<1> SUFFICES ASSUME IInv, Service, [Next]_vars PROVE Service'
  OBVIOUS
<1> USE DEF Service
<1>1. Bounded'
  BY StepBounded
<1>2. (\A p \in Page : OneOf(p))'
  BY StepKeepsOne
<1>3. Counted' /\ PartsAreLive'
  <2>1. CASE UNCHANGED vars
    BY <2>1 DEF vars, Counted, ConnectionsCounted, Workers, PartsAreLive
  <2> QED BY <2>1, PageServes, ServerKeepsParts, ServerCounts, ApplicationKeepsParts,
             ApplicationCounts DEF Next
<1> QED BY <1>1, <1>2, <1>3

LEMMA Serving == Spec => [](IInv /\ Service)
PROOF
BY Invariant, InitServes, StepServes, PTL DEF Spec

\* active_connections is the number of worker threads, for any number of
\* connections and whichever way each ends (serve, ConnectionGuard).
THEOREM WorkersCounted == Spec => []ConnectionsCounted
PROOF
<1>1. Service => ConnectionsCounted
  BY DEF Service, Counted
<1> QED BY <1>1, Serving, PTL

\* As long as the service runs, every part file has a worker that writes or
\* publishes it, on every path out of receive() and through every start.
THEOREM PartsHaveWorkers == Spec => []PartsAreLive
PROOF
<1>1. Service => PartsAreLive
  BY DEF Service
<1> QED BY <1>1, Serving, PTL

\* When stop() has returned in the background, no listener, worker, slot or part
\* file is left, wherever uploads and sessions were (ServerHandle::stop).
THEOREM BackgroundIsAlwaysQuiet == Spec => []BackgroundIsQuiet
PROOF
<1>1. IInv /\ Service => BackgroundIsQuiet
  <2> SUFFICES ASSUME IInv, Service, app = "background"
               PROVE  ~listening /\ ~slot /\ Workers = {} /\ parts = {}
    BY DEF BackgroundIsQuiet
  <2>1. ~listening /\ \A c \in Connection : phase[c] \in {"none", "over"}
    BY DEF IInv, Resting
  <2>2. ~slot
    BY <2>1 DEF IInv, OneUpload, Holding
  <2>3. Workers = {}
    BY <2>1 DEF Workers, Working
  <2>4. parts = {}
    BY <2>1 DEF Service, PartsAreLive, Connection
  <2> QED BY <2>1, <2>2, <2>3, <2>4
<1> QED BY <1>1, Serving, PTL

\* Of a page's items at most one is on its way, and it is the one run() awaits,
\* for queues of any length (enqueue, cancel, run).
THEOREM OneRequestAPage == Spec => []OneRequest
PROOF
<1>1. IInv /\ Service => OneRequest
  <2> SUFFICES ASSUME IInv, Service, NEW p \in Page, NEW i \in DOMAIN queue[p],
                      queue[p][i].status = "uploading"
               PROVE  current[p] = i
    BY DEF OneRequest
  <2> QED BY QueueFacts DEF Service, OneOf
<1> QED BY <1>1, Serving, PTL

\* All values keep to their types, and no counter leaves its bounds: in
\* particular there are never more than MAX_CONNECTIONS workers.
THEOREM ServiceTyping == Spec => []TypeOK
PROOF
<1>1. IInv /\ Service => TypeOK
  <2> SUFFICES ASSUME IInv, Service PROVE TypeOK
    OBVIOUS
  <2>1. Typed
    BY DEF IInv
  <2>2. current \in [Page -> 0..MaxItems]
    BY <2>1, ItemAssumption DEF Typed
  <2>3. got \in [Connection -> 0..Size]
    BY <2>1, SizeAssumption DEF Typed, Service, Bounded
  <2>4. active \in 0..MaxConnections /\ faults \in 0..MaxFaults
    BY FS_CardinalityType, LimitAssumption DEF Service, Bounded, Counted, ConnectionsCounted
  <2>5. library \subseteq [upload : Upload, pieces : 0..Size]
    BY <2>1, SizeAssumption DEF Typed, IInv, Complete
  <2> QED BY <2>1, <2>2, <2>3, <2>4, <2>5 DEF Typed, TypeOK
<1> QED BY <1>1, Serving, PTL

\* However late cancel() comes, even while wallpaperPng() runs: an item it reached
\* before the request went out is never sent (cancel, run).
THEOREM CancelledNeverSent == Spec => CancelledStaysHome
PROOF
<1> DEFINE Stays == \A p \in Page : \A i \in DOMAIN queue[p] :
                      queue[p][i].cancelled /\ phase[<<p, i>>] = "none"
                        => phase'[<<p, i>>] = "none"
<1>1. IInv /\ [Next]_vars => [Stays]_vars
  <2> SUFFICES ASSUME IInv, [Next]_vars PROVE Stays
    OBVIOUS
  <2> QED BY StepHome, QueueFacts DEF Home
<1>2. (Spec => [][Stays]_vars)
  BY <1>1, Invariant, PTL DEF Spec
<1> QED BY <1>2 DEF CancelledStaysHome
=============================================================================
