--------------------------- MODULE UploadService ---------------------------
(***************************************************************************)
(* The upload service: browser pages with their queues (web/app.js), the   *)
(* HTTP server with its connections and its single upload slot             *)
(* (server/mod.rs), the reception of a body into a part file               *)
(* (upload/mod.rs), and the application that starts and stops the server   *)
(* (app.rs).                                                               *)
(*                                                                         *)
(* Abstractions.  A page sends an item at most once, so the connection of  *)
(* an upload is named after its item.  A body has Size pieces.  What makes *)
(* a file unacceptable (its length, name or format) and what makes the     *)
(* disk fail are choices.  The publication of a received body is one step  *)
(* (DeviceStore has its steps).  Strangers stand for every other           *)
(* connection: a page fetched, a status polled, headers that never end, a  *)
(* peer's session.                                                         *)
(***************************************************************************)
EXTENDS Naturals, FiniteSets, Sequences

CONSTANTS Page,            \* browser pages
          Stranger,        \* connections that upload nothing
          MaxItems,        \* bound on the items a page queues
          Size,            \* pieces of a body
          MaxConnections,  \* MAX_CONNECTIONS
          MaxFaults        \* bound on stops, crashes and errors of the disk

ASSUME SizeAssumption == Size \in Nat \ {0}
ASSUME ItemAssumption == MaxItems \in Nat
ASSUME LimitAssumption == MaxConnections \in Nat \ {0} /\ MaxFaults \in Nat
ASSUME StrangerAssumption == Stranger \cap (Page \X (1..MaxItems)) = {}

Upload == Page \X (1..MaxItems)
Connection == Upload \cup Stranger

Kind == {"book", "wallpaper"}
Status == {"waiting", "uploading", "saved", "busy", "failed", "cancelled"}
Item == [kind : Kind, status : Status, cancelled : BOOLEAN]
Answer == {"none", "saved", "busy", "failed"}
Pairing == {"never", "valid", "stale"}
Phase == {"none", "backlog", "head", "session", "receiving", "publishing",
          "answering", "answered", "leaving", "over"}

VARIABLES
  queue,      \* per page, the items of state.queue
  current,    \* per page, the item run() awaits; 0: run() is not running
  paired,     \* per page, state.token: none, the server's bearer, one before
  phase,      \* per connection, where its worker is
  link,       \* per connection, its client's end; "open", "closed", "vanished"
  token,      \* per connection, whether it carries a valid token
  reply,      \* per connection, the answer its worker has decided on
  answer,     \* per connection, the answer its client has read
  got,        \* per connection, pieces of the body written to the part file
  slot,       \* active_upload
  active,     \* active_connections
  parts,      \* part files on disk
  library,    \* files published: the upload and the pieces it had
  app,        \* the application's state
  listening,  \* whether serve() holds its listener, so that the port is open
  accepting,  \* whether serve() is in its loop
  faults

page == <<queue, current, paired>>
client == <<link, token, answer>>
server == <<phase, reply, got, slot, active, parts, library>>
application == <<app, listening, accepting>>
vars == <<queue, current, paired, phase, link, token, reply, answer, got,
          slot, active, parts, library, app, listening, accepting, faults>>

Init ==
  /\ queue = [p \in Page |-> <<>>]
  /\ current = [p \in Page |-> 0]
  /\ paired = [p \in Page |-> "never"]
  /\ phase = [c \in Connection |-> "none"]
  /\ link = [c \in Connection |-> "open"]
  /\ token = [c \in Connection |-> FALSE]
  /\ reply = [c \in Connection |-> "none"]
  /\ answer = [c \in Connection |-> "none"]
  /\ got = [c \in Connection |-> 0]
  /\ slot = FALSE
  /\ active = 0
  /\ parts = {}
  /\ library = {}
  /\ app = "foreground"
  /\ listening = TRUE
  /\ accepting = TRUE
  /\ faults = 0

\* Connections that end, and with them all their workers keep.
End(ended) ==
  /\ phase' = [c \in Connection |-> IF c \notin ended THEN phase[c]
                                     ELSE IF c \in Stranger THEN "none" ELSE "over"]
  /\ link' = [c \in Connection |-> IF c \in ended THEN "open" ELSE link[c]]
  /\ token' = [c \in Connection |-> c \notin ended /\ token[c]]
  /\ reply' = [c \in Connection |-> IF c \in ended THEN "none" ELSE reply[c]]
  /\ got' = [c \in Connection |-> IF c \in ended THEN 0 ELSE got[c]]

Working == {"head", "session", "receiving", "publishing", "answering",
            "answered", "leaving"}
Workers == {c \in Connection : phase[c] \in Working}
Stopping == app \in {"leaving", "rotating"}

\* A failure from outside, of which there are at most MaxFaults.
Fault == faults < MaxFaults /\ faults' = faults + 1

-----------------------------------------------------------------------------
(* The page.  JavaScript runs one callback at a time to its next await. *)

Waiting(items) ==
  {i \in DOMAIN items : items[i].status = "waiting" /\ ~items[i].cancelled}

\* send(): the request goes out, or is refused where nobody listens.  The
\* kernel takes it as long as the listener exists, accepted or not.
Request(p, i) ==
  LET c == <<p, i>> IN
  /\ IF listening
       THEN /\ phase' = [phase EXCEPT ![c] = "backlog"]
            /\ token' = [token EXCEPT ![c] = (paired[p] = "valid")]
       ELSE /\ phase' = [phase EXCEPT ![c] = "over"]
            /\ UNCHANGED token

\* run() goes on to the next waiting item of the queue, items.  It begins
\* with the conversion of a wallpaper and with the request of a book.
Continue(p, items) ==
  \/ /\ Waiting(items) = {}
     /\ queue' = [queue EXCEPT ![p] = items]
     /\ current' = [current EXCEPT ![p] = 0]
     /\ UNCHANGED <<phase, token>>
  \/ \E i \in Waiting(items) :
       /\ \A j \in Waiting(items) : i <= j
       /\ current' = [current EXCEPT ![p] = i]
       /\ IF items[i].kind = "wallpaper"
            THEN /\ queue' = [queue EXCEPT ![p] = items]
                 /\ UNCHANGED <<phase, token>>
            ELSE /\ queue' = [queue EXCEPT ![p] =
                               [items EXCEPT ![i].status = "uploading"]]
                 /\ Request(p, i)

Settled(p, i, status) == [queue[p] EXCEPT ![i].status = status]

\* Fault: enqueue() starts the next item though run() is at work.
EnqueueRunning(p, kind) ==
  /\ Len(queue[p]) < MaxItems
  /\ Continue(p, Append(queue[p], [kind |-> kind, status |-> "waiting",
                                   cancelled |-> FALSE]))
  /\ UNCHANGED <<paired, link, answer, reply, got, slot, active, parts,
                 library, application, faults>>

\* enqueue(), which calls run(): it does nothing while it is running.
Enqueue(p, kind) ==
  LET item == [kind |-> kind, status |-> "waiting", cancelled |-> FALSE]
      items == Append(queue[p], item)
  IN /\ Len(queue[p]) < MaxItems
     /\ IF current[p] = 0
          THEN Continue(p, items)
          ELSE /\ queue' = [queue EXCEPT ![p] = items]
               /\ UNCHANGED <<current, phase, token>>
     /\ UNCHANGED <<paired, link, answer, reply, got, slot, active, parts,
                    library, application, faults>>

\* cancel() of an item that is not on its way, or whose image is converted.
CancelWaiting(p, i) ==
  /\ queue[p][i].status = "waiting"
  /\ queue' = [queue EXCEPT ![p][i].cancelled = TRUE,
                            ![p][i].status = "cancelled"]
  /\ UNCHANGED <<current, paired, client, server, application, faults>>

\* cancel() of the item under way: its request is aborted, and run() goes on.
CancelUploading(p, i) ==
  /\ queue[p][i].status = "uploading"
  /\ link' = [link EXCEPT ![<<p, i>>] = IF phase[<<p, i>>] = "over" THEN @ ELSE "closed"]
  /\ Continue(p, [queue[p] EXCEPT ![i].cancelled = TRUE,
                                  ![i].status = "cancelled"])
  /\ UNCHANGED <<paired, answer, reply, got, slot, active, parts, library,
                 application, faults>>

Converting(p) == current[p] # 0 /\ queue[p][current[p]].status # "uploading"

\* Fault: the item is not looked at again after the conversion.
ConvertedUnchecked(p) ==
  /\ Converting(p)
  /\ queue' = [queue EXCEPT ![p][current[p]].status = "uploading"]
  /\ Request(p, current[p])
  /\ UNCHANGED <<current, paired, link, answer, reply, got, slot, active,
                 parts, library, application, faults>>

\* wallpaperPng() is done: the item is sent unless it was cancelled meanwhile.
Converted(p) ==
  /\ Converting(p)
  /\ IF queue[p][current[p]].cancelled
       THEN Continue(p, queue[p])
       ELSE /\ queue' = [queue EXCEPT ![p][current[p]].status = "uploading"]
            /\ Request(p, current[p])
            /\ UNCHANGED current
  /\ UNCHANGED <<paired, link, answer, reply, got, slot, active, parts,
                 library, application, faults>>

\* wallpaperPng() throws: the error is shown unless the item was cancelled.
ConversionFails(p) ==
  /\ Converting(p)
  /\ LET i == current[p] IN
     Continue(p, IF queue[p][i].cancelled THEN queue[p]
                 ELSE Settled(p, i, "failed"))
  /\ UNCHANGED <<paired, link, answer, reply, got, slot, active, parts,
                 library, application, faults>>

Uploading(p) == current[p] # 0 /\ queue[p][current[p]].status = "uploading"

\* onload: the answer decides what is shown.
Loaded(p) ==
  LET i == current[p] IN
  /\ Uploading(p)
  /\ answer[<<p, i>>] # "none"
  /\ Continue(p, Settled(p, i, answer[<<p, i>>]))
  /\ answer' = [answer EXCEPT ![<<p, i>>] = "none"]
  /\ UNCHANGED <<paired, link, reply, got, slot, active, parts,
                 library, application, faults>>

\* Fault: run() ends at the first error of the network and stays "running".
NetworkErrorStuck(p) ==
  LET i == current[p]
      c == <<p, i>>
  IN /\ Uploading(p)
     /\ answer[c] = "none"
     /\ phase[c] \in {"leaving", "over"} \/ link[c] = "vanished"
     /\ queue' = [queue EXCEPT ![p] = Settled(p, i, "failed")]
     /\ UNCHANGED <<current, paired, client, server, application, faults>>

\* onerror: the connection is refused, reset, ended without an answer, or dead.
NetworkError(p) ==
  LET i == current[p]
      c == <<p, i>>
  IN /\ Uploading(p)
     /\ answer[c] = "none"
     /\ phase[c] \in {"leaving", "over"} \/ link[c] = "vanished"
     /\ Continue(p, Settled(p, i, "failed"))
     /\ UNCHANGED <<paired, link, answer, reply, got, slot, active, parts,
                    library, application, faults>>

\* pair(): the page gets the bearer of the running server.  The form is
\* hidden then, and stays so when the server is replaced.
Pair(p) ==
  /\ app = "foreground" /\ accepting /\ paired[p] = "never"
  /\ paired' = [paired EXCEPT ![p] = "valid"]
  /\ UNCHANGED <<queue, current, client, server, application, faults>>

\* A stranger connects, again and again.
Connect(c) ==
  /\ c \in Stranger /\ listening /\ phase[c] = "none"
  /\ phase' = [phase EXCEPT ![c] = "backlog"]
  /\ UNCHANGED <<page, client, reply, got, slot, active, parts, library,
                 application, faults>>

\* The network or the machine of a page is gone, and nothing says so.  Once
\* the answer is written this makes no difference to the server any more.
Vanish(c) ==
  /\ c \in Upload /\ link[c] = "open"
  /\ phase[c] \in {"backlog", "head", "receiving", "publishing", "answering"}
  /\ link' = [link EXCEPT ![c] = "vanished"]
  /\ UNCHANGED <<page, token, answer, server, application, faults>>

-----------------------------------------------------------------------------
(* The server: serve() accepts, one thread per connection does the rest. *)

\* response() reaches the page, which waits for it.
Delivered(c, code) ==
  /\ c \in Upload /\ link[c] = "open"
  /\ answer' = [answer EXCEPT ![c] = code]

\* serve() accepts a connection and spawns its worker.
Accept(c) ==
  /\ accepting /\ phase[c] = "backlog" /\ active < MaxConnections
  /\ phase' = [phase EXCEPT ![c] = "head"]
  /\ active' = active + 1
  /\ UNCHANGED <<page, client, reply, got, slot, parts, library, application,
                 faults>>

\* Fault: a connection turned away is counted as one that ended.
RejectBusyCounted(c) ==
  /\ accepting /\ phase[c] = "backlog" /\ active >= MaxConnections
  /\ End({c})
  /\ active' = active - 1
  /\ UNCHANGED <<page, answer, slot, parts, library, application, faults>>

\* serve() turns a connection away with 429.  The answer may be lost, since
\* the connection is closed with unread data.
RejectBusy(c) ==
  /\ accepting /\ phase[c] = "backlog" /\ active >= MaxConnections
  /\ End({c})
  /\ Delivered(c, "failed") \/ UNCHANGED answer
  /\ UNCHANGED <<page, slot, active, parts, library, application, faults>>

\* The worker settles on an answer without taking the slot.
Decline(c, code) ==
  /\ phase' = [phase EXCEPT ![c] = "leaving"]
  /\ reply' = [reply EXCEPT ![c] = code]
  /\ Delivered(c, code) \/ UNCHANGED answer
  /\ UNCHANGED <<page, link, token, got, slot, active, parts, library,
                 application, faults>>

\* The first bytes do not come within 250 ms or the head within 5 s, the
\* stream ends, the server stops, the bearer is not valid, or a stranger's
\* request is answered.
AnswerOther(c) ==
  /\ phase[c] = "head"
  /\ Decline(c, "failed")

\* A peer's connection is handed to PeerRuntime::accept, and ends in time.
BeginSession(c) ==
  /\ phase[c] = "head" /\ c \in Stranger
  /\ phase' = [phase EXCEPT ![c] = "session"]
  /\ UNCHANGED <<page, client, reply, got, slot, active, parts, library,
                 application, faults>>

EndSession(c) ==
  /\ phase[c] = "session"
  /\ phase' = [phase EXCEPT ![c] = "leaving"]
  /\ UNCHANGED <<page, client, reply, got, slot, active, parts, library,
                 application, faults>>

\* upload(): the slot is held by another worker, 409.
RefuseUpload(c) ==
  /\ phase[c] = "head" /\ c \in Upload /\ token[c] /\ slot
  /\ Decline(c, "busy")

\* Fault: the slot is taken without compare_exchange.
TakeSlotUnchecked(c) ==
  /\ phase[c] = "head" /\ c \in Upload /\ token[c]
  /\ slot' = TRUE
  /\ \/ /\ phase' = [phase EXCEPT ![c] = "receiving"]
        /\ parts' = parts \cup {c}
        /\ UNCHANGED reply
     \/ /\ phase' = [phase EXCEPT ![c] = "answering"]
        /\ reply' = [reply EXCEPT ![c] = "failed"]
        /\ UNCHANGED parts
  /\ UNCHANGED <<page, client, got, active, library, application, faults>>

\* upload() takes the slot, receive() checks length and name and opens the
\* part file; or it declines with the slot held.
TakeSlot(c) ==
  /\ phase[c] = "head" /\ c \in Upload /\ token[c] /\ ~slot
  /\ slot' = TRUE
  /\ \/ /\ phase' = [phase EXCEPT ![c] = "receiving"]
        /\ parts' = parts \cup {c}
        /\ UNCHANGED reply
     \/ /\ phase' = [phase EXCEPT ![c] = "answering"]
        /\ reply' = [reply EXCEPT ![c] = "failed"]
        /\ UNCHANGED parts
  /\ UNCHANGED <<page, client, got, active, library, application, faults>>

\* receive() ends in an error and removes the part file.
Abandon(c) ==
  /\ phase' = [phase EXCEPT ![c] = "answering"]
  /\ reply' = [reply EXCEPT ![c] = "failed"]
  /\ parts' = parts \ {c}
  /\ UNCHANGED <<page, client, got, slot, active, library, application>>

\* receive_to_temp writes a piece.  What an aborted request had sent may
\* still be read, and so may a piece when the stop flag is set right after
\* the loop has looked at it.
Receive(c) ==
  /\ phase[c] = "receiving" /\ got[c] < Size /\ link[c] # "vanished"
  /\ got' = [got EXCEPT ![c] = @ + 1]
  /\ UNCHANGED <<page, client, phase, reply, slot, active, parts, library,
                 application, faults>>

\* Fault: the end of the stream ends the body.
TruncatedAccepted(c) ==
  /\ phase[c] = "receiving" /\ got[c] < Size /\ link[c] = "closed"
  /\ phase' = [phase EXCEPT ![c] = "publishing"]
  /\ UNCHANGED <<page, client, reply, got, slot, active, parts, library,
                 application, faults>>

\* receive_to_temp: the stream ends early.
Truncated(c) ==
  /\ phase[c] = "receiving" /\ got[c] < Size /\ link[c] = "closed"
  /\ Abandon(c)
  /\ UNCHANGED faults

\* Fault: the stop flag is looked at only after a read that brought data.
CancelledWithData(c) ==
  /\ phase[c] = "receiving" /\ got[c] < Size /\ Stopping
  /\ link[c] # "vanished"
  /\ Abandon(c)
  /\ UNCHANGED faults

\* receive_to_temp: a read returns after 250 ms at the latest, and the stop
\* flag is looked at.
Cancelled(c) ==
  /\ phase[c] = "receiving" /\ got[c] < Size /\ Stopping
  /\ Abandon(c)
  /\ UNCHANGED faults

\* receive_to_temp: the body is complete and synced.
Received(c) ==
  /\ phase[c] = "receiving" /\ got[c] = Size
  /\ phase' = [phase EXCEPT ![c] = "publishing"]
  /\ UNCHANGED <<page, client, reply, got, slot, active, parts, library,
                 application, faults>>

\* The validated part file is renamed into the library.
Publish(c) ==
  /\ phase[c] = "publishing"
  /\ phase' = [phase EXCEPT ![c] = "answering"]
  /\ reply' = [reply EXCEPT ![c] = "saved"]
  /\ parts' = parts \ {c}
  /\ library' = library \cup {[upload |-> c, pieces |-> got[c]]}
  /\ UNCHANGED <<page, client, got, slot, active, application, faults>>

\* Fault: receive() returns early and leaves the part file behind.
InvalidKept(c) ==
  /\ phase[c] = "publishing"
  /\ phase' = [phase EXCEPT ![c] = "answering"]
  /\ reply' = [reply EXCEPT ![c] = "failed"]
  /\ UNCHANGED <<page, client, got, slot, active, parts, library, application,
                 faults>>

\* The file is not of its format, or it cannot be published.
Invalid(c) ==
  /\ phase[c] = "publishing"
  /\ Abandon(c)
  /\ UNCHANGED faults

\* A write to the part file fails.
DiskFails(c) ==
  /\ Fault
  /\ phase[c] = "receiving"
  /\ Abandon(c)

\* upload() writes its answer with the slot still held.  A client that is
\* gone does not get it; to one that is still sending it may be lost.
Respond(c) ==
  /\ phase[c] = "answering"
  /\ phase' = [phase EXCEPT ![c] = "answered"]
  /\ \/ Delivered(c, reply[c])
     \/ (link[c] # "open" \/ got[c] < Size) /\ UNCHANGED answer
  /\ UNCHANGED <<page, link, token, reply, got, slot, active, parts, library,
                 application, faults>>

\* Fault: the slot is given back only after an upload that was saved.
ReleaseSaved(c) ==
  /\ phase[c] = "answered"
  /\ phase' = [phase EXCEPT ![c] = "leaving"]
  /\ slot' = (reply[c] # "saved")
  /\ UNCHANGED <<page, client, reply, got, active, parts, library,
                 application, faults>>

\* ActiveUploadGuard is dropped.
Release(c) ==
  /\ phase[c] = "answered"
  /\ phase' = [phase EXCEPT ![c] = "leaving"]
  /\ slot' = FALSE
  /\ UNCHANGED <<page, client, reply, got, active, parts, library,
                 application, faults>>

\* ConnectionGuard is dropped, the thread ends.
Leave(c) ==
  /\ phase[c] = "leaving"
  /\ End({c})
  /\ active' = active - 1
  /\ UNCHANGED <<page, answer, slot, parts, library, application, faults>>

-----------------------------------------------------------------------------
(* The application *)

\* leave_foreground or rotate_server calls ServerHandle::stop.
Stop(next) ==
  /\ Fault
  /\ app = "foreground"
  /\ app' = next
  /\ UNCHANGED <<page, client, server, listening, accepting>>

\* serve() leaves its loop, for the stop flag or, at any time, for an error of
\* accept.  The flag is not set in the second case.
LeaveLoop ==
  /\ accepting
  /\ accepting' = FALSE
  /\ UNCHANGED <<page, client, server, app, listening, faults>>

\* The end of serve() drops the listener, and its backlog is reset.
DropListener ==
  /\ listening /\ ~accepting
  /\ listening' = FALSE
  /\ End({c \in Connection : phase[c] = "backlog"})
  /\ UNCHANGED <<page, answer, slot, active, parts, library, app, accepting,
                 faults>>

\* serve() comes to its end once it has joined every worker.
CloseListener == Workers = {} /\ DropListener

\* A new server starts: UploadRegistry::managed removes part files, new
\* credentials make the pages' tokens worthless.
Start ==
  /\ app' = "foreground"
  /\ listening' = TRUE
  /\ accepting' = TRUE
  /\ parts' = {}
  /\ paired' = [p \in Page |-> IF paired[p] = "valid" THEN "stale" ELSE paired[p]]
  /\ slot' = FALSE
  /\ active' = 0

\* stop() has joined serve().
Joined ==
  /\ Stopping /\ ~listening
  /\ \/ app = "leaving" /\ app' = "background"
        /\ UNCHANGED <<listening, accepting, parts, paired, slot, active>>
     \/ app = "rotating" /\ Start
  /\ UNCHANGED <<queue, current, client, phase, reply, got, library, faults>>

\* enter_foreground, after a pause or a crash.
EnterForeground ==
  /\ app \in {"background", "down"}
  /\ Start
  /\ UNCHANGED <<queue, current, client, phase, reply, got, library, faults>>

\* The process dies; its connections are reset, part files stay.
Crash ==
  /\ Fault
  /\ app \in {"foreground", "leaving", "rotating"}
  /\ app' = "down"
  /\ listening' = FALSE
  /\ accepting' = FALSE
  /\ End({c \in Connection : phase[c] # "none"})
  /\ slot' = FALSE
  /\ active' = 0
  /\ UNCHANGED <<page, answer, parts, library>>

-----------------------------------------------------------------------------
PageStep(p) ==
  Converted(p) \/ ConversionFails(p) \/ Loaded(p) \/ NetworkError(p)

UserStep(p) ==
  \/ \E kind \in Kind : Enqueue(p, kind)
  \/ \E i \in DOMAIN queue[p] : CancelWaiting(p, i) \/ CancelUploading(p, i)
  \/ Pair(p)

ServerStep(c) ==
  \/ Accept(c) \/ RejectBusy(c)
  \/ AnswerOther(c) \/ BeginSession(c) \/ EndSession(c)
  \/ RefuseUpload(c) \/ TakeSlot(c)
  \/ Receive(c) \/ Truncated(c) \/ Cancelled(c) \/ Received(c)
  \/ Publish(c) \/ Invalid(c)
  \/ Respond(c) \/ Release(c) \/ Leave(c)

ApplicationStep ==
  \/ Stop("leaving") \/ Stop("rotating")
  \/ LeaveLoop \/ CloseListener \/ Joined
  \/ EnterForeground \/ Crash

Next ==
  \/ \E p \in Page : PageStep(p) \/ UserStep(p)
  \/ \E c \in Connection :
       ServerStep(c) \/ Connect(c) \/ Vanish(c) \/ DiskFails(c)
  \/ ApplicationStep

Spec == Init /\ [][Next]_vars

\* Browser and threads run on.  Users, strangers and failures need not: a loop
\* that is left for an error of accept is no part of this.
Fairness ==
  /\ \A p \in Page : WF_vars(PageStep(p))
  /\ \A c \in Connection : WF_vars(ServerStep(c))
  /\ WF_vars(Stopping /\ LeaveLoop) /\ WF_vars(CloseListener) /\ WF_vars(Joined)

FairSpec == Spec /\ Fairness

-----------------------------------------------------------------------------
TypeOK ==
  /\ queue \in [Page -> Seq(Item)]
  /\ \A p \in Page : Len(queue[p]) <= MaxItems /\ current[p] \in 0..Len(queue[p])
  /\ current \in [Page -> 0..MaxItems]
  /\ paired \in [Page -> Pairing]
  /\ phase \in [Connection -> Phase]
  /\ link \in [Connection -> {"open", "closed", "vanished"}]
  /\ token \in [Connection -> BOOLEAN]
  /\ reply \in [Connection -> Answer]
  /\ answer \in [Connection -> Answer]
  /\ got \in [Connection -> 0..Size]
  /\ slot \in BOOLEAN
  /\ active \in 0..MaxConnections
  /\ parts \subseteq Upload
  /\ library \subseteq [upload : Upload, pieces : 0..Size]
  /\ app \in {"foreground", "leaving", "rotating", "background", "down"}
  /\ listening \in BOOLEAN
  /\ accepting \in BOOLEAN
  /\ faults \in 0..MaxFaults

Holding == {"receiving", "publishing", "answering", "answered"}

\* The flag active_upload is up exactly while one upload is under way, from
\* the check of its headers to its answer, and there is never a second one.
OneUpload ==
  /\ slot <=> \E c \in Connection : phase[c] \in Holding
  /\ \A c, d \in Connection :
       phase[c] \in Holding /\ phase[d] \in Holding => c = d

\* active_connections counts the worker threads, whichever way each ends, so
\* that the limit neither wears down nor lets more through.
ConnectionsCounted == active = Cardinality(Workers)

\* While the service runs, every part file is being written or published by
\* a worker.  What a crash leaves, the next start sweeps.
PartsAreLive ==
  app # "down" => parts = {c \in Upload : phase[c] \in {"receiving", "publishing"}}

\* README: in the background the port is closed.  Nothing is left of the
\* server: no thread, no part file, no slot taken.
BackgroundIsQuiet ==
  app = "background" => ~listening /\ ~slot /\ Workers = {} /\ parts = {}

\* Only complete bodies are published, and what a page shows as saved is in
\* the library, whatever was aborted, lost or stopped.
SavedIsWhole ==
  /\ \A file \in library : file.pieces = Size
  /\ \A p \in Page : \A i \in DOMAIN queue[p] :
       queue[p][i].status = "saved" =>
         \E file \in library : file.upload = <<p, i>>

\* A page has one request under way, and it is the one run() awaits, however
\* enqueueing, cancelling and answers interleave.
OneRequest ==
  \A p \in Page : \A i \in DOMAIN queue[p] :
    queue[p][i].status = "uploading" => current[p] = i

\* An item that is cancelled before its request goes out never goes out, not
\* even if that happens while its image is being converted.
CancelledStaysHome ==
  [][\A p \in Page : \A i \in DOMAIN queue[p] :
       queue[p][i].cancelled /\ phase[<<p, i>>] = "none"
         => phase'[<<p, i>>] = "none"]_vars

\* ServerHandle::stop returns, though clients have vanished in the middle of
\* a body and peers are in the middle of a session.
StopFinishes == Stopping ~> ~Stopping

\* The slot is given back, unless it is held for a client that has vanished:
\* the loop of receive_to_temp waits for such a client until the server stops.
SlotGivenBack ==
  slot ~> (~slot \/ \E c \in Upload : phase[c] = "receiving" /\ link[c] = "vanished")

Unsettled(p) ==
  \E i \in DOMAIN queue[p] : queue[p][i].status \in {"waiting", "uploading"}

\* The one request that nothing ends: serve() has left its loop for an error
\* of accept, without the stop flag, and joins a worker that waits for the body
\* of a vanished client.  The port stays open with nobody accepting, and send()
\* has no timeout.
Unserved(p) ==
  /\ listening /\ ~accepting /\ app = "foreground"
  /\ current[p] # 0 /\ phase[<<p, current[p]>>] = "backlog"
  /\ \E c \in Upload : phase[c] = "receiving" /\ link[c] = "vanished"

\* A page gets through its queue: whatever becomes of the server and the
\* network, every item ends with a result on the screen.  Only a request that
\* is Unserved waits on, and it too no longer than until the server is stopped.
EveryItemSettles ==
  \A p \in Page : Unsettled(p) ~> (~Unsettled(p) \/ Unserved(p))

\* README: a browser uploads books and wallpapers in batches.  A lone page,
\* which sends one item after the other and cancels none, is never told that
\* a file is being uploaded already.
BatchNotRefused ==
  \A p \in Page :
    Page = {p} /\ (\A i \in DOMAIN queue[p] : ~queue[p][i].cancelled)
      => \A i \in DOMAIN queue[p] : queue[p][i].status # "busy"
=============================================================================
