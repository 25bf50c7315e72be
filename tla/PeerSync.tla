------------------------------ MODULE PeerSync ------------------------------
(***************************************************************************)
(* The synchronization of two devices (peer/mod.rs, peer/transfer.rs) over *)
(* the catalogs of all devices (catalog.rs), with everything else that     *)
(* touches the same files meanwhile: the user, other applications and the  *)
(* upload thread of the web server (upload/mod.rs).                        *)
(*                                                                         *)
(* A device takes part in at most one session.  The initiator and the      *)
(* acceptor scan their files, exchange snapshots, and the initiator then   *)
(* walks the union of the two in key order, pulling what the peer has      *)
(* newer and pushing what it has newer itself; the acceptor serves         *)
(* commands.  Either side may fail at any point: I/O error, 60 s timeout,  *)
(* a crash.  What a session holds in memory is lost, files and catalog     *)
(* stay.                                                                   *)
(*                                                                         *)
(* Abstractions.  Each key is the only object of its root, so a scan goes  *)
(* root by root, one transaction each.  Two contents of one object differ  *)
(* in size, so a scan misses no edit, and the mtime column of the catalog  *)
(* plays no part.  A local operation (scan of a root, commit of a file) is *)
(* one step; the trash is left out.                                        *)
(***************************************************************************)
EXTENDS Versions, Sequences

CONSTANTS Last,         \* the last key
          NoFile,       \* the path does not exist
          Nobody,       \* no peer
          MaxTime,      \* bound on the clocks and on the times of files
          MaxEdits      \* bound on the local edits of a behaviour

ASSUME KeyAssumption == Last \in Nat /\ Key = 1..Last
ASSUME NobodyAssumption == Nobody \notin Device
ASSUME BoundAssumption == MaxTime \in Nat /\ MaxEdits \in Nat

File == [content : Content, mtime : Nat]

ASSUME NoFileAssumption == NoFile \notin File

VARIABLES
  clock,      \* wall clock of each device, unsynchronized
  file,       \* what is on disk: [Device -> [Key -> File or NoFile]]
  catalog,    \* table "objects": [Device -> [Key -> ObjectRecord or NoRecord]]
  counter,    \* meta row "counter" of each device
  uploading,  \* key published by the upload thread and not yet recorded, or 0
  pc,         \* where the sync thread of the device is, "idle" outside a session
  role,       \* "none", "initiator" or "acceptor"
  partner,    \* the device at the other end
  at,         \* the next key to scan, then the next key to synchronize
  mine,       \* own snapshot
  theirs,     \* the snapshot received
  item,       \* the record being transferred
  net,        \* what is in flight from one device to another
  issued,     \* history: every record ever issued
  touched,    \* history: keys with local activity since they were last scanned
  edits       \* history: number of local edits, bounded by MaxEdits

disk == <<file, catalog, counter>>
session == <<pc, role, partner, at, mine, theirs, item>>
history == <<issued, touched, edits>>
vars == <<clock, file, catalog, counter, uploading, pc, role, partner, at, mine,
          theirs, item, net, issued, touched, edits>>

NoSnapshot == [k \in Key |-> NoRecord]

SessionState ==
  {"idle", "connect", "scan", "await_snapshot", "step", "serve",
   "await_put", "await_body", "await_resume", "await_applied", "await_done"}

Init ==
  /\ clock = [d \in Device |-> 0]
  /\ file = [d \in Device |-> [k \in Key |-> NoFile]]
  /\ catalog = [d \in Device |-> NoSnapshot]
  /\ counter = [d \in Device |-> 0]
  /\ uploading = [d \in Device |-> 0]
  /\ pc = [d \in Device |-> "idle"]
  /\ role = [d \in Device |-> "none"]
  /\ partner = [d \in Device |-> Nobody]
  /\ at = [d \in Device |-> 1]
  /\ mine = [d \in Device |-> NoSnapshot]
  /\ theirs = [d \in Device |-> NoSnapshot]
  /\ item = [d \in Device |-> NoRecord]
  /\ net = [c \in Device \X Device |-> <<>>]
  /\ issued = {}
  /\ touched = [d \in Device |-> {}]
  /\ edits = 0
-----------------------------------------------------------------------------
(* The catalog. *)

Later(a, b) == IF a > b THEN a ELSE b

\* next_version_in: the counter of the catalog goes up in the same transaction.
NextVersion(d, baseline) ==
  [wall |-> Later(clock[d], baseline), counter |-> counter[d] + 1, origin |-> d]

Recorded(d, k, c, deleted, baseline) ==
  [path |-> k, content |-> c, version |-> NextVersion(d, baseline), deleted |-> deleted]

\* Fault: the version is made outside the catalog and its counter not saved.
IssueUncounted(d, k, r) ==
  /\ catalog' = [catalog EXCEPT ![d][k] = r]
  /\ UNCHANGED counter
  /\ issued' = issued \cup {r}

\* Fault: the new record is announced and never stored.
IssueUnstored(d, k, r) ==
  /\ UNCHANGED catalog
  /\ counter' = [counter EXCEPT ![d] = @ + 1]
  /\ issued' = issued \cup {r}

\* A version was taken from the catalog and its record stored there.
Issue(d, k, r) ==
  /\ catalog' = [catalog EXCEPT ![d][k] = r]
  /\ counter' = [counter EXCEPT ![d] = @ + 1]
  /\ issued' = issued \cup {r}

(* Everything outside a session. *)

Tick(d) ==
  /\ clock[d] < MaxTime
  /\ clock' = [clock EXCEPT ![d] = @ + 1]
  /\ UNCHANGED <<disk, uploading, session, net, history>>

Touch(d, k) == touched' = [touched EXCEPT ![d] = @ \cup {k}]

Edit(d, k) ==
  /\ edits < MaxEdits
  /\ edits' = edits + 1
  /\ Touch(d, k)

\* The user or another application writes a file; a copied one keeps its time.
UserWrite(d, k, c, t) ==
  /\ Edit(d, k)
  /\ file' = [file EXCEPT ![d][k] = [content |-> c, mtime |-> t]]
  /\ UNCHANGED <<clock, catalog, counter, uploading, session, net, issued>>

UserDelete(d, k) ==
  /\ file[d][k] # NoFile
  /\ Edit(d, k)
  /\ file' = [file EXCEPT ![d][k] = NoFile]
  /\ UNCHANGED <<clock, catalog, counter, uploading, session, net, issued>>

\* publish_replacing: the upload is renamed over what was there.
UploadPublish(d, k, c) ==
  /\ uploading[d] = 0
  /\ Edit(d, k)
  /\ file' = [file EXCEPT ![d][k] = [content |-> c, mtime |-> clock[d]]]
  /\ uploading' = [uploading EXCEPT ![d] = k]
  /\ UNCHANGED <<clock, catalog, counter, session, net, issued>>

\* record_local_file: what the file holds by now gets a version of this moment.
UploadRecord(d) ==
  /\ uploading[d] # 0
  /\ LET k == uploading[d] IN
       IF file[d][k] = NoFile
         THEN UNCHANGED <<catalog, counter, issued, touched>>
         ELSE /\ Issue(d, k, Recorded(d, k, file[d][k].content, FALSE, clock[d]))
              /\ Touch(d, k)
  /\ uploading' = [uploading EXCEPT ![d] = 0]
  /\ UNCHANGED <<clock, file, session, net, edits>>
-----------------------------------------------------------------------------
(* Messages and the connection. *)

\* The messages whose records are in S.
MessageOver(S) ==
       [type : {"Snapshot"}, records : [Key -> S \cup {NoRecord}]]
  \cup [type : {"Get"}, key : Key]
  \cup [type : {"PutStart"}, record : S]
  \cup [type : {"Body"}, content : Content]
  \cup [type : {"Resume", "Applied", "Done"}]

Message == MessageOver(ObjectRecord)

Snapshot(records) == [type |-> "Snapshot", records |-> records]
Get(k) == [type |-> "Get", key |-> k]
PutStart(r) == [type |-> "PutStart", record |-> r]
Body(c) == [type |-> "Body", content |-> c]
Resume == [type |-> "Resume"]
Applied == [type |-> "Applied"]
Done == [type |-> "Done"]

Inbox(d) == net[<<partner[d], d>>]
Receives(d, type) == Inbox(d) # <<>> /\ Head(Inbox(d)).type = type
Received(d) == Head(Inbox(d))

Send(d, m) == net' = [net EXCEPT ![<<d, partner[d]>>] = Append(@, m)]
Consume(d) == net' = [net EXCEPT ![<<partner[d], d>>] = Tail(@)]
Reply(d, m) == net' = [net EXCEPT ![<<partner[d], d>>] = Tail(@),
                                  ![<<d, partner[d]>>] = Append(@, m)]
\* What was sent can still be read by the other end, if it is there, or is lost
\* with the connection: a commit need not be followed by its "Applied".
Hangup(d) ==
  \E left \in {net[<<d, partner[d]>>], <<>>} :
    net' = [net EXCEPT ![<<partner[d], d>>] = <<>>,
                       ![<<d, partner[d]>>] = IF partner[partner[d]] = d
                                              THEN left ELSE <<>>]

Goto(d, state) == pc' = [pc EXCEPT ![d] = state]

\* The session of d is over: its guard, channel and plan are dropped.
End(d) ==
  /\ Goto(d, "idle")
  /\ role' = [role EXCEPT ![d] = "none"]
  /\ partner' = [partner EXCEPT ![d] = Nobody]
  /\ at' = [at EXCEPT ![d] = 1]
  /\ mine' = [mine EXCEPT ![d] = NoSnapshot]
  /\ theirs' = [theirs EXCEPT ![d] = NoSnapshot]
  /\ item' = [item EXCEPT ![d] = NoRecord]

(* Opening a session. *)

Begin(d, p) ==
  /\ p # d
  /\ pc[d] = "idle"
  /\ Goto(d, "connect")
  /\ role' = [role EXCEPT ![d] = "initiator"]
  /\ partner' = [partner EXCEPT ![d] = p]
  /\ UNCHANGED <<clock, disk, uploading, at, mine, theirs, item, net, history>>

Connecting(p, d) == pc[p] = "connect" /\ partner[p] = d

\* Both sides are through the handshake, the hellos and the scope.
Accept(d, p) ==
  /\ Connecting(p, d)
  /\ pc[d] = "idle"
  /\ pc' = [pc EXCEPT ![d] = "await_snapshot", ![p] = "scan"]
  /\ role' = [role EXCEPT ![d] = "acceptor"]
  /\ partner' = [partner EXCEPT ![d] = p]
  /\ net' = [net EXCEPT ![<<p, d>>] = <<>>, ![<<d, p>>] = <<>>]
  /\ UNCHANGED <<clock, disk, uploading, at, mine, theirs, item, history>>

\* Fault: the new connection is kept waiting.
RefuseSilently(d, p) ==
  /\ Connecting(p, d)
  /\ pc[d] # "idle"
  /\ UNCHANGED vars

\* Busy: the flag "active" of d is taken, so it closes the new connection.
Refuse(d, p) ==
  /\ Connecting(p, d)
  /\ pc[d] # "idle"
  /\ End(p)
  /\ UNCHANGED <<clock, disk, uploading, net, history>>

(* Snapshots. *)

\* The scan of one root: what became of the row of its only object.
ScanRoot(d) ==
  /\ pc[d] = "scan"
  /\ at[d] \in Key
  /\ LET k == at[d]
         f == file[d][k]
         r == catalog[d][k]
     IN /\ \/ /\ IF f = NoFile THEN ~Live(r) ELSE Live(r) /\ r.content = f.content
              /\ mine' = [mine EXCEPT ![d][k] = r]
              /\ UNCHANGED <<catalog, counter, issued>>
           \/ /\ f # NoFile
              /\ ~(Live(r) /\ r.content = f.content)
              /\ Issue(d, k, Recorded(d, k, f.content, FALSE, f.mtime))
              /\ mine' = [mine EXCEPT ![d][k] = Recorded(d, k, f.content, FALSE, f.mtime)]
           \/ /\ f = NoFile
              /\ Live(r)
              /\ Issue(d, k, Recorded(d, k, r.content, TRUE, clock[d]))
              /\ mine' = [mine EXCEPT ![d][k] = Recorded(d, k, r.content, TRUE, clock[d])]
        /\ touched' = [touched EXCEPT ![d] = @ \ {k}]
        /\ at' = [at EXCEPT ![d] = k + 1]
  /\ UNCHANGED <<clock, file, uploading, pc, role, partner, theirs, item, net, edits>>

SendSnapshot(d) ==
  /\ pc[d] = "scan"
  /\ at[d] = Last + 1
  /\ Send(d, Snapshot(mine[d]))
  /\ at' = [at EXCEPT ![d] = 1]
  /\ Goto(d, IF role[d] = "initiator" THEN "await_snapshot" ELSE "serve")
  /\ UNCHANGED <<clock, disk, uploading, role, partner, mine, theirs, item, history>>

ReceiveSnapshot(d) ==
  /\ pc[d] = "await_snapshot"
  /\ Receives(d, "Snapshot")
  /\ theirs' = [theirs EXCEPT ![d] = Received(d).records]
  /\ Consume(d)
  /\ Goto(d, IF role[d] = "initiator" THEN "step" ELSE "scan")
  /\ UNCHANGED <<clock, disk, uploading, role, partner, at, mine, item, history>>

(* Storage. *)

\* Fault: a received file is recorded as a local change.
CommitRestamped(d, r) ==
  /\ file' = [file EXCEPT ![d][r.path] = [content |-> r.content, mtime |-> clock[d]]]
  /\ catalog' = [catalog EXCEPT ![d][r.path] =
                   [r EXCEPT !.version = NextVersion(d, clock[d])]]
  /\ UNCHANGED counter

\* commit: the received file replaces what is there, whatever that is by now.
Commit(d, r) ==
  /\ file' = [file EXCEPT ![d][r.path] = [content |-> r.content, mtime |-> clock[d]]]
  /\ catalog' = [catalog EXCEPT ![d][r.path] = r]
  /\ UNCHANGED counter

ApplyTombstone(d, r) ==
  /\ file' = [file EXCEPT ![d][r.path] = NoFile]
  /\ catalog' = [catalog EXCEPT ![d][r.path] = r]
  /\ UNCHANGED counter

\* Back to where the transfer of one object was started from.
Proceed(d) ==
  /\ item' = [item EXCEPT ![d] = NoRecord]
  /\ IF role[d] = "initiator"
       THEN /\ Goto(d, "step")
            /\ at' = [at EXCEPT ![d] = @ + 1]
       ELSE /\ Goto(d, "serve")
            /\ UNCHANGED at
  /\ UNCHANGED <<role, partner, mine, theirs>>
(* What a handler cannot go on with. *)

\* serve_commands: no live row for the object asked for.
MissingObject(d) ==
  /\ pc[d] = "serve"
  /\ Receives(d, "Get")
  /\ ~Live(catalog[d][Received(d).key])

\* pull: the record offered is not the one the snapshot announced.
Unannounced(d) ==
  /\ pc[d] = "await_put"
  /\ Receives(d, "PutStart")
  /\ Received(d).record # item[d]

\* open_local: the file is no longer there.
SourceGone(d) ==
  /\ pc[d] = "await_resume"
  /\ Receives(d, "Resume")
  /\ file[d][item[d].path] = NoFile

\* commit: what arrived has not the size or not the hash of the record.
WrongContent(d) ==
  /\ pc[d] = "await_body"
  /\ Receives(d, "Body")
  /\ Received(d).content # item[d].content

Mismatch(d) == MissingObject(d) \/ Unannounced(d) \/ SourceGone(d) \/ WrongContent(d)

(* The initiator walks the union of the two snapshots. *)

AtWinner(d, side) ==
  /\ pc[d] = "step"
  /\ at[d] \in Key
  /\ Winner(mine[d][at[d]], theirs[d][at[d]]) = side

StepEqual(d) ==
  /\ AtWinner(d, "equal")
  /\ at' = [at EXCEPT ![d] = @ + 1]
  /\ UNCHANGED <<clock, disk, uploading, pc, role, partner, mine, theirs, item,
                 net, history>>

StepDeleteHere(d) ==
  /\ AtWinner(d, "remote")
  /\ theirs[d][at[d]].deleted
  /\ ApplyTombstone(d, theirs[d][at[d]])
  /\ at' = [at EXCEPT ![d] = @ + 1]
  /\ UNCHANGED <<clock, uploading, pc, role, partner, mine, theirs, item, net, history>>

StepPull(d) ==
  /\ AtWinner(d, "remote")
  /\ ~theirs[d][at[d]].deleted
  /\ Send(d, Get(at[d]))
  /\ item' = [item EXCEPT ![d] = theirs[d][at[d]]]
  /\ Goto(d, "await_put")
  /\ UNCHANGED <<clock, disk, uploading, role, partner, at, mine, theirs, history>>

\* Fault: the sender of a tombstone does not wait for "Applied".
StepPushUnconfirmed(d) ==
  /\ AtWinner(d, "local")
  /\ LET r == mine[d][at[d]] IN
       /\ Send(d, PutStart(r))
       /\ IF r.deleted
            THEN /\ at' = [at EXCEPT ![d] = @ + 1]
                 /\ UNCHANGED <<item, pc>>
            ELSE /\ item' = [item EXCEPT ![d] = r]
                 /\ Goto(d, "await_resume")
                 /\ UNCHANGED at
  /\ UNCHANGED <<clock, disk, uploading, role, partner, mine, theirs, history>>

\* Fault: a push moves on to the next object before it is confirmed.
StepPushAdvancing(d) ==
  /\ AtWinner(d, "local")
  /\ LET r == mine[d][at[d]] IN
       /\ Send(d, PutStart(r))
       /\ item' = [item EXCEPT ![d] = r]
       /\ Goto(d, IF r.deleted THEN "await_applied" ELSE "await_resume")
  /\ at' = [at EXCEPT ![d] = @ + 1]
  /\ UNCHANGED <<clock, disk, uploading, role, partner, mine, theirs, history>>

StepPush(d) ==
  /\ AtWinner(d, "local")
  /\ LET r == mine[d][at[d]] IN
       /\ Send(d, PutStart(r))
       /\ item' = [item EXCEPT ![d] = r]
       /\ Goto(d, IF r.deleted THEN "await_applied" ELSE "await_resume")
  /\ UNCHANGED <<clock, disk, uploading, role, partner, at, mine, theirs, history>>

StepDone(d) ==
  /\ pc[d] = "step"
  /\ at[d] = Last + 1
  /\ Send(d, Done)
  /\ Goto(d, "await_done")
  /\ UNCHANGED <<clock, disk, uploading, role, partner, at, mine, theirs, item, history>>

(* The acceptor serves. *)

ServeGet(d) ==
  /\ pc[d] = "serve"
  /\ Receives(d, "Get")
  /\ ~MissingObject(d)
  /\ LET r == catalog[d][Received(d).key] IN
       /\ Reply(d, PutStart(r))
       /\ item' = [item EXCEPT ![d] = r]
  /\ Goto(d, "await_resume")
  /\ UNCHANGED <<clock, disk, uploading, role, partner, at, mine, theirs, history>>

ServeTombstone(d) ==
  /\ pc[d] = "serve"
  /\ Receives(d, "PutStart")
  /\ Received(d).record.deleted
  /\ ApplyTombstone(d, Received(d).record)
  /\ Reply(d, Applied)
  /\ UNCHANGED <<clock, uploading, session, history>>

ServePut(d) ==
  /\ pc[d] = "serve"
  /\ Receives(d, "PutStart")
  /\ ~Received(d).record.deleted
  /\ item' = [item EXCEPT ![d] = Received(d).record]
  /\ Reply(d, Resume)
  /\ Goto(d, "await_body")
  /\ UNCHANGED <<clock, disk, uploading, role, partner, at, mine, theirs, history>>

ServeDone(d) ==
  /\ pc[d] = "serve"
  /\ Receives(d, "Done")
  /\ Reply(d, Done)
  /\ End(d)
  /\ UNCHANGED <<clock, disk, uploading, history>>

(* The transfer of one file, the same code in both roles. *)

\* pull: the record offered is the one the snapshot announced.
AwaitPut(d) ==
  /\ pc[d] = "await_put"
  /\ Receives(d, "PutStart")
  /\ ~Unannounced(d)
  /\ Reply(d, Resume)
  /\ Goto(d, "await_body")
  /\ UNCHANGED <<clock, disk, uploading, role, partner, at, mine, theirs, item, history>>

\* send_file_body reads the file as it is by now.
SendBody(d) ==
  /\ pc[d] = "await_resume"
  /\ Receives(d, "Resume")
  /\ ~SourceGone(d)
  /\ Reply(d, Body(file[d][item[d].path].content))
  /\ Goto(d, "await_applied")
  /\ UNCHANGED <<clock, disk, uploading, role, partner, at, mine, theirs, item, history>>

\* receive_file ends: size and hash are those of the record.
ReceiveBody(d) ==
  /\ pc[d] = "await_body"
  /\ Receives(d, "Body")
  /\ ~WrongContent(d)
  /\ Commit(d, item[d])
  /\ Reply(d, Applied)
  /\ Proceed(d)
  /\ UNCHANGED <<clock, uploading, history>>

ReceiveApplied(d) ==
  /\ pc[d] = "await_applied"
  /\ Receives(d, "Applied")
  /\ Consume(d)
  /\ Proceed(d)
  /\ UNCHANGED <<clock, disk, uploading, history>>

ReceiveDone(d) ==
  /\ pc[d] = "await_done"
  /\ Receives(d, "Done")
  /\ Consume(d)
  /\ End(d)
  /\ UNCHANGED <<clock, disk, uploading, history>>

(* How else a session ends. *)

Abort(d) ==
  /\ End(d)
  /\ Hangup(d)
  /\ UNCHANGED <<clock, disk, uploading, history>>

\* The error is returned to the caller, which drops the channel.
Reject(d) == Mismatch(d) /\ Abort(d)

\* An I/O error, a timeout or a crash, at any point of a session.
Fail(d) == pc[d] # "idle" /\ Abort(d)

\* d and its partner are the two ends of one connection.
Paired(d) ==
  /\ partner[d] # Nobody
  /\ partner[partner[d]] = d
  /\ {pc[d], pc[partner[d]]} \cap {"idle", "connect"} = {}

\* Nothing is coming: the other end has left and the stream holds no more.
Deserted(d) ==
  /\ pc[d] \in {"await_snapshot", "serve", "await_put", "await_body",
                "await_resume", "await_applied", "await_done"}
  /\ Inbox(d) = <<>>
  /\ ~Paired(d)

Timeout(d) == Deserted(d) /\ Fail(d)
-----------------------------------------------------------------------------
LocalStep(d) ==
  \/ Tick(d)
  \/ \E k \in Key, c \in Content : \E t \in 0..MaxTime : UserWrite(d, k, c, t)
  \/ \E k \in Key : UserDelete(d, k)
  \/ \E k \in Key, c \in Content : UploadPublish(d, k, c)
  \/ UploadRecord(d)

InitiatorStep(d) ==
  \/ StepEqual(d)
  \/ StepDeleteHere(d)
  \/ StepPull(d)
  \/ StepPush(d)
  \/ StepDone(d)
  \/ AwaitPut(d)
  \/ ReceiveDone(d)

AcceptorStep(d) ==
  \/ ServeGet(d)
  \/ ServeTombstone(d)
  \/ ServePut(d)
  \/ ServeDone(d)

SharedStep(d) ==
  \/ ScanRoot(d)
  \/ SendSnapshot(d)
  \/ ReceiveSnapshot(d)
  \/ SendBody(d)
  \/ ReceiveBody(d)
  \/ ReceiveApplied(d)
  \/ Reject(d)

SessionStep(d) == InitiatorStep(d) \/ AcceptorStep(d) \/ SharedStep(d)

Answer(d, p) == Accept(d, p) \/ Refuse(d, p)

Next ==
  \E d \in Device :
    \/ LocalStep(d)
    \/ SessionStep(d)
    \/ \E p \in Device : Begin(d, p) \/ Answer(d, p)
    \/ Fail(d)

Spec == Init /\ [][Next]_vars

\* The worker and server threads keep running; a stream whose other end is gone
\* reports it, at the latest after the timeout of 60 s.
Fairness ==
  \A d \in Device :
    /\ WF_vars(SessionStep(d))
    /\ WF_vars(Timeout(d))
    /\ \A p \in Device : WF_vars(Answer(d, p))

FairSpec == Spec /\ Fairness
-----------------------------------------------------------------------------
(* Properties. *)

TypeOK ==
  /\ clock \in [Device -> Nat]
  /\ file \in [Device -> [Key -> File \cup {NoFile}]]
  /\ catalog \in [Device -> [Key -> ObjectRecord \cup {NoRecord}]]
  /\ counter \in [Device -> Nat]
  /\ uploading \in [Device -> Key \cup {0}]
  /\ pc \in [Device -> SessionState]
  /\ role \in [Device -> {"none", "initiator", "acceptor"}]
  /\ partner \in [Device -> Device \cup {Nobody}]
  /\ at \in [Device -> 1..(Last + 1)]
  /\ mine \in [Device -> [Key -> ObjectRecord \cup {NoRecord}]]
  /\ theirs \in [Device -> [Key -> ObjectRecord \cup {NoRecord}]]
  /\ item \in [Device -> ObjectRecord \cup {NoRecord}]
  /\ net \in [Device \X Device -> Seq(Message)]
  /\ issued \subseteq ObjectRecord
  /\ touched \in [Device -> SUBSET Key]
  /\ edits \in Nat

\* Two records with the same version are the same record, wherever they are: in
\* a catalog, a snapshot or a transfer.  winner() relies on it when it takes
\* equal versions for equal objects and transfers nothing (summary.rs:23).
Rows(d) ==
  {r \in {catalog[d][k] : k \in Key} \cup {mine[d][k] : k \in Key}
         \cup {theirs[d][k] : k \in Key} \cup {item[d]} : r # NoRecord}

VersionDeterminesObject ==
  \A d, e \in Device : \A r \in Rows(d), s \in Rows(e) :
    r.version = s.version => r = s

\* The row of an object that nobody but the sessions touched since its scan
\* says what is on disk.
DescribesDisk(d, k) ==
  IF file[d][k] = NoFile
    THEN ~Live(catalog[d][k])
    ELSE Live(catalog[d][k]) /\ catalog[d][k].content = file[d][k].content

Untouched(d, k) == k \notin touched[d]

\* While the initiator walks the snapshots, both devices already agree on every
\* object it is through with, row and file, deletions included, unless somebody
\* edited the object meanwhile.  At "await_done" that is every object.
SessionAgrees ==
  \A i \in Device :
    Paired(i) /\ role[i] = "initiator" /\ pc[i] \notin {"scan", "await_snapshot"} =>
      \A k \in 1..(at[i] - 1) :
        LET a == partner[i] IN
          Untouched(i, k) /\ Untouched(a, k) =>
            /\ catalog[i][k] = catalog[a][k]
            /\ DescribesDisk(i, k)
            /\ DescribesDisk(a, k)

\* Whoever waits for a message finds a message it knows what to do with: the two
\* ends never drift apart in the protocol, whatever fails or is edited.
Expected(d) ==
  CASE pc[d] = "await_snapshot" -> {"Snapshot"}
    [] pc[d] = "serve" -> {"Get", "PutStart", "Done"}
    [] pc[d] = "await_put" -> {"PutStart"}
    [] pc[d] = "await_body" -> {"Body"}
    [] pc[d] = "await_resume" -> {"Resume"}
    [] pc[d] = "await_applied" -> {"Applied"}
    [] pc[d] = "await_done" -> {"Done"}
    [] OTHER -> {}

NoUnexpectedMessage ==
  \A d \in Device :
    pc[d] \notin {"idle", "connect"} /\ Inbox(d) # <<>> =>
      Head(Inbox(d)).type \in Expected(d)

\* A session never replaces a row by an older one, provided the object was not
\* edited on this device since the session scanned it.
Adopts(d, k) ==
  catalog'[d][k] # catalog[d][k] /\ catalog'[d][k] \in issued

Regresses(d, k) ==
  /\ Adopts(d, k)
  /\ catalog[d][k] # NoRecord
  /\ ~Newer(catalog'[d][k].version, catalog[d][k].version)

SyncNeverRegresses ==
  [][\A d \in Device, k \in Key : Untouched(d, k) => ~Regresses(d, k)]_vars

\* Between two devices that stay connected, a session is broken off by a
\* mismatch (a missing object, an unannounced version, a wrong hash) only
\* when somebody edits files during the session.
OnlyEditsMismatch ==
  \A d \in Device :
    Paired(d) /\ Mismatch(d) => touched[d] \cup touched[partner[d]] # {}

\* The tombstone of a deletion is newer than the version of the file deleted
\* (asserted in catalog/tests.rs:32), otherwise the next session undoes it.
TombstoneIsNewer ==
  [][\A d \in Device, k \in Key :
       Live(catalog[d][k]) /\ counter'[d] # counter[d] /\
       catalog'[d][k] # catalog[d][k] /\ catalog'[d][k].deleted =>
         Newer(catalog'[d][k].version, catalog[d][k].version)]_vars

\* The catalogs behave like the abstract store: every row was issued once, under
\* a stamp of its own, by a device that had the object.
Store == INSTANCE ReplicatedStore WITH store <- catalog

ImplementsStore == Store!StoreSpec

\* A session ends: no device is left busy for ever by a peer that vanished.
SessionEnds == \A d \in Device : pc[d] # "idle" ~> pc[d] = "idle"
=============================================================================
