---------------------------- MODULE FileTransfer ----------------------------
(***************************************************************************)
(* The transfer of one file from a sender to a receiver in as many         *)
(* sessions as it takes (peer/transfer.rs, peer/storage.rs).  The body     *)
(* goes in chunks, each acknowledged with the offset reached.  What has    *)
(* arrived stays in a part file named after the version of the record, and *)
(* the next session resumes at its length, while the sender's file may     *)
(* have been edited in between or under way.                               *)
(*                                                                         *)
(* Abstractions.  A content is a sequence of blocks and equal to its hash. *)
(* A session transfers this object only, and its scan sees every edit      *)
(* (DeviceStore has what scans miss).  Publishing the verified part file   *)
(* is one step (DeviceStore has its steps).                                *)
(***************************************************************************)
EXTENDS Naturals, Sequences

CONSTANTS Content,      \* what the file can hold
          Valid,        \* the contents validate_format accepts
          Chunk,        \* blocks in a message, CHUNK_BYTES
          NoContent,    \* no file at a path
          MaxEdits,     \* bound on the edits of the sender's file
          MaxFailures   \* bound on the sessions that are broken off from outside

\* The blocks of files, and what a part file or a message can hold of them.
Blocks == UNION {{c[i] : i \in 1..Len(c)} : c \in Content}
Piece == Seq(Blocks)

ASSUME ContentAssumption == Content \subseteq Piece
ASSUME NoContentAssumption == NoContent \notin Piece
ASSUME ValidAssumption == Valid \subseteq Content
ASSUME ChunkAssumption == Chunk \in Nat \ {0}
ASSUME BoundAssumption == MaxEdits \in Nat /\ MaxFailures \in Nat

Version == 0..MaxEdits
Record == [version : Version, content : Content]
Size(record) == Len(record.content)

VARIABLES
  source,      \* the sender's file
  row,         \* the record of the sender's catalog
  part,        \* the receiver's part files: [Version -> blocks or NoContent]
  installed,   \* the record the receiver has stored, or NoContent
  here,        \* what is at the receiver's path, or NoContent
  spc, rpc,    \* where sender and receiver are
  handle,      \* content behind the sender's open file
  sent,        \* offset of the sender
  record,      \* the record offered in this session
  toReceiver, toSender,
  edits, failures,
  spoiled      \* history: versions read while the file was not what was scanned

sender == <<spc, handle, sent>>
stable == <<source, row, edits, failures>>
vars == <<source, row, part, installed, here, spc, rpc, handle, sent, record,
          toReceiver, toSender, edits, failures, spoiled>>

Init ==
  /\ source \in Content
  /\ row = [version |-> 0, content |-> source]
  /\ part = [v \in Version |-> NoContent]
  /\ installed = NoContent
  /\ here = NoContent
  /\ spc = "idle"
  /\ rpc = "idle"
  /\ handle = NoContent
  /\ sent = 0
  /\ record = row
  /\ toReceiver = <<>>
  /\ toSender = <<>>
  /\ edits = 0
  /\ failures = 0
  /\ spoiled = {}

PutStart == [type |-> "PutStart"]
Resume(offset) == [type |-> "Resume", offset |-> offset]
Data(blocks) == [type |-> "Data", blocks |-> blocks]
DataAck(offset) == [type |-> "DataAck", offset |-> offset]
FileEnd == [type |-> "FileEnd"]
Applied == [type |-> "Applied"]

Least(a, b) == IF a < b THEN a ELSE b
Gets(inbox, type) == inbox # <<>> /\ Head(inbox).type = type
-----------------------------------------------------------------------------
(* The user edits the sender's file: in place, which an open file sees, or *)
(* by renaming another one over it, which it does not.                     *)

Edit(c, inPlace) ==
  /\ edits < MaxEdits
  /\ edits' = edits + 1
  /\ c # source
  /\ source' = c
  /\ handle' = IF inPlace /\ spc = "sending" THEN c ELSE handle
  /\ spoiled' = IF spc = "idle" THEN spoiled ELSE spoiled \cup {record.version}
  /\ UNCHANGED <<row, part, installed, here, spc, rpc, sent, record, toReceiver,
                 toSender, failures>>
-----------------------------------------------------------------------------
\* A session scans the sender's file and finds the receiver's row to be older.
Start ==
  LET scanned == IF row.content = source THEN row
                 ELSE [version |-> row.version + 1, content |-> source]
  IN /\ spc = "idle"
     /\ rpc = "idle"
     /\ scanned # installed
     /\ row' = scanned
     /\ record' = scanned
     /\ toReceiver' = <<PutStart>>
     /\ toSender' = <<>>
     /\ spc' = "await_resume"
     /\ rpc' = "serve"
     /\ UNCHANGED <<source, part, installed, here, handle, sent, edits, failures, spoiled>>

(* The receiver: receive_file. *)

Reply(m) == toReceiver' = Tail(toReceiver) /\ toSender' = Append(toSender, m)

\* begin_receive: a part file longer than the record is emptied.
BeginReceive ==
  /\ rpc = "serve"
  /\ Gets(toReceiver, "PutStart")
  /\ LET stored == IF part[record.version] = NoContent THEN <<>> ELSE part[record.version]
         kept == IF Len(stored) <= Size(record) THEN stored ELSE <<>>
     IN /\ part' = [part EXCEPT ![record.version] = kept]
        /\ Reply(Resume(Len(kept)))
  /\ rpc' = "receiving"
  /\ UNCHANGED <<stable, installed, here, sender, record, spoiled>>

Arrived == part[record.version]

Overflows == Len(Arrived) + Len(Head(toReceiver).blocks) > Size(record)

\* Fault: the acknowledgement counts the bytes of the chunk alone.
WriteChunkUncounted ==
  /\ rpc = "receiving"
  /\ Gets(toReceiver, "Data")
  /\ ~Overflows
  /\ LET longer == Arrived \o Head(toReceiver).blocks
     IN /\ part' = [part EXCEPT ![record.version] = longer]
        /\ Reply(DataAck(Len(Head(toReceiver).blocks)))
  /\ UNCHANGED <<stable, installed, here, sender, rpc, record, spoiled>>

\* write_chunk and the acknowledgement of the offset it reaches.
WriteChunk ==
  /\ rpc = "receiving"
  /\ Gets(toReceiver, "Data")
  /\ ~Overflows
  /\ LET longer == Arrived \o Head(toReceiver).blocks
     IN /\ part' = [part EXCEPT ![record.version] = longer]
        /\ Reply(DataAck(Len(longer)))
  /\ UNCHANGED <<stable, installed, here, sender, rpc, record, spoiled>>

HangUp == rpc' = "idle" /\ toReceiver' = <<>>

\* More arrives than the record announced; the part file keeps what it has.
RejectChunk ==
  /\ rpc = "receiving"
  /\ Gets(toReceiver, "Data")
  /\ Overflows
  /\ HangUp
  /\ UNCHANGED <<stable, part, installed, here, sender, record, toSender, spoiled>>

Ended == rpc = "receiving" /\ Gets(toReceiver, "FileEnd")

\* commit: less has arrived than announced.
CommitShort ==
  /\ Ended
  /\ Len(Arrived) # Size(record)
  /\ HangUp
  /\ UNCHANGED <<stable, part, installed, here, sender, record, toSender, spoiled>>

\* Fault: the part file stays for the next session.
CommitMismatchKeeping ==
  /\ Ended
  /\ Len(Arrived) = Size(record)
  /\ Arrived # record.content
  /\ HangUp
  /\ UNCHANGED <<stable, part, installed, here, sender, record, toSender, spoiled>>

\* commit: the size is right and the hash is not, the part file is removed.
CommitMismatch ==
  /\ Ended
  /\ Len(Arrived) = Size(record)
  /\ Arrived # record.content
  /\ part' = [part EXCEPT ![record.version] = NoContent]
  /\ HangUp
  /\ UNCHANGED <<stable, installed, here, sender, record, toSender, spoiled>>

\* commit: the format is checked after the hash, and the part file stays.
CommitInvalid ==
  /\ Ended
  /\ Arrived = record.content
  /\ Arrived \notin Valid
  /\ HangUp
  /\ UNCHANGED <<stable, part, installed, here, sender, record, toSender, spoiled>>

\* Fault: the hash is not compared.
CommitUnverified ==
  /\ Ended
  /\ Len(Arrived) = Size(record)
  /\ here' = Arrived
  /\ installed' = record
  /\ part' = [part EXCEPT ![record.version] = NoContent]
  /\ Reply(Applied)
  /\ rpc' = "idle"
  /\ UNCHANGED <<stable, sender, record, spoiled>>

\* commit: the part file becomes the file.
Commit ==
  /\ Ended
  /\ Arrived = record.content
  /\ Arrived \in Valid
  /\ here' = Arrived
  /\ installed' = record
  /\ part' = [part EXCEPT ![record.version] = NoContent]
  /\ Reply(Applied)
  /\ rpc' = "idle"
  /\ UNCHANGED <<stable, sender, record, spoiled>>

(* The sender: send_file_body. *)

\* Fault: a short read counts as a full buffer.
SendNextFull(from, offset) ==
  LET end == Least(offset + Chunk, Len(from))
  IN IF offset < Len(from)
       THEN /\ toReceiver' = Append(toReceiver, Data(SubSeq(from, offset + 1, end)))
            /\ sent' = offset + Chunk
            /\ spc' = "sending"
       ELSE /\ toReceiver' = Append(toReceiver, FileEnd)
            /\ sent' = offset
            /\ spc' = "await_applied"

SendNext(from, offset) ==
  LET end == Least(offset + Chunk, Len(from))
  IN IF offset < Len(from)
       THEN /\ toReceiver' = Append(toReceiver, Data(SubSeq(from, offset + 1, end)))
            /\ sent' = end
            /\ spc' = "sending"
       ELSE /\ toReceiver' = Append(toReceiver, FileEnd)
            /\ sent' = offset
            /\ spc' = "await_applied"

\* Fault: a resumed transfer starts over.
SendFromStart ==
  /\ spc = "await_resume"
  /\ Gets(toSender, "Resume")
  /\ Head(toSender).offset <= Size(record)
  /\ toSender' = Tail(toSender)
  /\ handle' = source
  /\ SendNext(source, 0)
  /\ UNCHANGED <<stable, part, installed, here, rpc, record, spoiled>>

\* The file is opened as it is by now and read from the offset on.
SendFromOffset ==
  /\ spc = "await_resume"
  /\ Gets(toSender, "Resume")
  /\ Head(toSender).offset <= Size(record)
  /\ toSender' = Tail(toSender)
  /\ handle' = source
  /\ SendNext(source, Head(toSender).offset)
  /\ UNCHANGED <<stable, part, installed, here, rpc, record, spoiled>>

SendMore ==
  /\ spc = "sending"
  /\ Gets(toSender, "DataAck")
  /\ Head(toSender).offset = sent
  /\ toSender' = Tail(toSender)
  /\ SendNext(handle, sent)
  /\ UNCHANGED <<stable, part, installed, here, rpc, handle, record, spoiled>>

StopSending ==
  /\ spc' = "idle"
  /\ handle' = NoContent
  /\ sent' = 0
  /\ toSender' = <<>>

Confirmed ==
  /\ spc = "await_applied"
  /\ Gets(toSender, "Applied")
  /\ StopSending
  /\ UNCHANGED <<stable, part, installed, here, rpc, record, toReceiver, spoiled>>
-----------------------------------------------------------------------------
(* How a session is broken off.  What was sent may still arrive. *)

SenderFails ==
  /\ failures < MaxFailures
  /\ failures' = failures + 1
  /\ spc # "idle"
  /\ StopSending
  /\ UNCHANGED <<source, row, edits, part, installed, here, rpc, record, toReceiver,
                 spoiled>>

\* A crash of the receiver may cost what it had not synced of the part file.
ReceiverFails ==
  /\ failures < MaxFailures
  /\ failures' = failures + 1
  /\ rpc # "idle"
  /\ HangUp
  /\ \E n \in 0..(IF rpc = "receiving" THEN Len(Arrived) ELSE 0) :
       part' = IF rpc = "receiving"
                 THEN [part EXCEPT ![record.version] = SubSeq(@, 1, n)]
                 ELSE part
  /\ UNCHANGED <<source, row, edits, installed, here, sender, record, toSender, spoiled>>

\* The other end is gone and everything it sent has been read.
SenderDeserted ==
  /\ spc # "idle"
  /\ rpc = "idle"
  /\ toSender = <<>>
  /\ StopSending
  /\ UNCHANGED <<stable, part, installed, here, rpc, record, toReceiver, spoiled>>

ReceiverDeserted ==
  /\ rpc # "idle"
  /\ spc = "idle"
  /\ toReceiver = <<>>
  /\ HangUp
  /\ UNCHANGED <<stable, part, installed, here, sender, record, toSender, spoiled>>
-----------------------------------------------------------------------------
SenderStep == SendFromOffset \/ SendMore \/ Confirmed \/ SenderDeserted

ReceiverStep ==
  \/ BeginReceive
  \/ WriteChunk
  \/ RejectChunk
  \/ CommitShort
  \/ CommitMismatch
  \/ CommitInvalid
  \/ Commit
  \/ ReceiverDeserted

Next ==
  \/ \E c \in Content, inPlace \in BOOLEAN : Edit(c, inPlace)
  \/ Start
  \/ SenderStep
  \/ ReceiverStep
  \/ SenderFails
  \/ ReceiverFails

Spec == Init /\ [][Next]_vars

\* Both threads keep running, and the user goes on starting sessions while the
\* devices differ.
Fairness == WF_vars(SenderStep) /\ WF_vars(ReceiverStep) /\ WF_vars(Start)

FairSpec == Spec /\ Fairness
-----------------------------------------------------------------------------
(* Properties. *)

MessageToReceiver ==
  [type : {"PutStart", "FileEnd"}] \cup [type : {"Data"}, blocks : Piece]
MessageToSender ==
  [type : {"Applied"}] \cup [type : {"Resume", "DataAck"}, offset : Nat]

TypeOK ==
  /\ source \in Content
  /\ row \in Record
  /\ part \in [Version -> Piece \cup {NoContent}]
  /\ installed \in Record \cup {NoContent}
  /\ here \in Piece \cup {NoContent}
  /\ spc \in {"idle", "await_resume", "sending", "await_applied"}
  /\ rpc \in {"idle", "serve", "receiving"}
  /\ handle \in Content \cup {NoContent}
  /\ \E c \in Content : sent \in 0..Len(c)
  /\ record \in Record
  /\ toReceiver \in Seq(MessageToReceiver)
  /\ toSender \in Seq(MessageToSender)
  /\ edits \in 0..MaxEdits
  /\ failures \in 0..MaxFailures
  /\ spoiled \subseteq Version

\* What the receiver has under a version is the content of that version, never a
\* mixture of what the sender's file held at different times.
InstalledAsRecorded ==
  installed # NoContent => here = installed.content

\* The offsets of the two ends agree whenever they meet: the sender is never told
\* an offset that breaks the session off.
OffsetsAgree ==
  /\ Gets(toSender, "Resume") => Head(toSender).offset <= Size(record)
  /\ spc = "sending" /\ Gets(toSender, "DataAck") => Head(toSender).offset = sent

\* What a part file holds is a prefix of the record's content, through all
\* resumptions and crashes, unless the sender's file was edited while it was
\* being sent under that version.
IsPrefix(p, c) == Len(p) <= Len(c) /\ p = SubSeq(c, 1, Len(p))

PartIsPrefix ==
  \A v \in Version \ spoiled :
    part[v] # NoContent /\ v = record.version => IsPrefix(part[v], record.content)

\* Once edits and failures are over, the file arrives: no part file, however it
\* came about, can make sessions fail for ever.  Only a file the receiver does not
\* accept (a broken PNG) does, and it stops every object after it as well.
Arrives == <>[](here = source \/ source \notin Valid)
=============================================================================
