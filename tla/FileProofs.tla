----------------------------- MODULE FileProofs -----------------------------
(***************************************************************************)
(* For every set of contents, chunk size and number of edits and failures: *)
(* the ends of a transfer never disagree about an offset, what a part file *)
(* holds is a prefix of the record unless the sender's file was edited     *)
(* under way, and what is installed is what its record says.               *)
(*                                                                         *)
(* While both ends are in a session there is at most one message between   *)
(* them, and which one follows from where they are (Conversation).  A      *)
(* chunk continues what has arrived, and with it a prefix of the content   *)
(* that was scanned, as long as nobody edits the file (Honest).  A version *)
(* is new when its record is offered first, so that no part file of other  *)
(* content waits under its name (Latest).                                  *)
(***************************************************************************)
EXTENDS FileTransfer, SequenceTheorems, TLAPS

Unspoiled == record.version \notin spoiled

\* The one message under way is a chunk.
Offered(b) ==
  /\ toReceiver = <<Data(b)>>
  /\ Unspoiled => IsPrefix(Arrived \o b, record.content)

Latest ==
  /\ record = row
  /\ row.version <= edits
  /\ source # row.content => row.version < edits
  /\ \A v \in Version : v > row.version => part[v] = NoContent

Conversation ==
  /\ rpc = "serve" =>
       toReceiver = <<PutStart>> /\ toSender = <<>> /\ spc \in {"idle", "await_resume"}
  /\ rpc = "receiving" =>
       /\ Arrived # NoContent
       /\ Len(Arrived) <= Size(record)
       /\ toReceiver \in {<<>>, <<FileEnd>>} \/ \E b \in Piece : Offered(b)
  /\ spc = "await_resume" /\ rpc = "receiving" =>
       toReceiver = <<>> /\ toSender = <<Resume(Len(Arrived))>>
  /\ spc = "sending" /\ rpc = "receiving" =>
       \/ toReceiver = <<>> /\ toSender = <<DataAck(sent)>> /\ Len(Arrived) = sent
       \/ /\ toSender = <<>>
          /\ \E b \in Piece : Offered(b) /\ Len(Arrived) + Len(b) = sent
  /\ spc = "await_applied" /\ rpc = "receiving" =>
       toReceiver = <<FileEnd>> /\ toSender = <<>>
  /\ rpc = "idle" =>
       /\ spc = "await_resume" =>
            toSender = <<>> \/ \E n \in Nat : toSender = <<Resume(n)>>
       /\ spc = "sending" => toSender \in {<<>>, <<DataAck(sent)>>}
       /\ spc = "await_applied" => toSender \in {<<>>, <<Applied>>}

Honest ==
  /\ spc = "sending" => handle \in Content
  /\ spc # "idle" /\ Unspoiled => source = record.content
  /\ spc = "sending" /\ Unspoiled => handle = record.content
  /\ Unspoiled /\ Arrived # NoContent => IsPrefix(Arrived, record.content)

ResumesWithin == Gets(toSender, "Resume") => Head(toSender).offset <= Size(record)

IInv ==
  TypeOK /\ Latest /\ Conversation /\ Honest /\ ResumesWithin /\ InstalledAsRecorded
-----------------------------------------------------------------------------
(* Sequences *)

LEMMA OneMessage ==
  ASSUME NEW m
  PROVE  /\ <<m>> # <<>> /\ Head(<<m>>) = m /\ Tail(<<m>>) = <<>>
         /\ Append(<<>>, m) = <<m>>
PROOF
  OBVIOUS

LEMMA AppendHead ==
  ASSUME NEW S, NEW s \in Seq(S), NEW m \in S
  PROVE  /\ Append(s, m) \in Seq(S)
         /\ s # <<>> => Head(Append(s, m)) = Head(s)
         /\ s = <<>> => Head(Append(s, m)) = m
PROOF
  OBVIOUS

\* The start of a prefix is a prefix.
LEMMA PrefixOfPrefix ==
  ASSUME NEW S, NEW c \in Seq(S), NEW p \in Seq(S), NEW n \in 0..Len(p)
  PROVE  /\ SubSeq(p, 1, n) \in Seq(S) /\ Len(SubSeq(p, 1, n)) = n
         /\ IsPrefix(p, c) => IsPrefix(SubSeq(p, 1, n), c)
PROOF
<1>1. SubSeq(p, 1, n) \in Seq(S) /\ Len(SubSeq(p, 1, n)) = n
  OBVIOUS
<1>2. ASSUME IsPrefix(p, c)
      PROVE  SubSeq(p, 1, n) = SubSeq(c, 1, n)
  <2>1. Len(p) <= Len(c) /\ \A i \in 1..Len(p) : p[i] = c[i]
    BY <1>2 DEF IsPrefix
  <2> QED BY <2>1
<1> QED BY <1>1, <1>2 DEF IsPrefix

\* What is read at the offset of a prefix continues it.
LEMMA PrefixGrows ==
  ASSUME NEW S, NEW c \in Seq(S), NEW p \in Seq(S), NEW e \in Len(p)..Len(c),
         IsPrefix(p, c)
  PROVE  IsPrefix(p \o SubSeq(c, Len(p) + 1, e), c)
PROOF
<1>1. 1 \in 1..Len(c) + 1 /\ Len(p) \in 1 - 1..Len(c) /\ e \in 0..Len(c)
  BY DEF IsPrefix
<1>2. Len(SubSeq(c, 1, e)) = e
  BY <1>1
<1>3. SubSeq(c, 1, Len(p)) \o SubSeq(c, Len(p) + 1, e) = SubSeq(c, 1, e)
  BY <1>1, ConcatAdjacentSubSeq
<1>4. p \o SubSeq(c, Len(p) + 1, e) = SubSeq(c, 1, e)
  <2> DEFINE rest == SubSeq(c, Len(p) + 1, e)
             start == SubSeq(c, 1, Len(p))
  <2>1. p = start
    BY DEF IsPrefix
  <2>2. start \o rest = SubSeq(c, 1, e)
    BY <1>3
  <2> HIDE DEF start, rest
  <2>3. p \o rest = SubSeq(c, 1, e)
    BY <2>1, <2>2
  <2> QED BY <2>3 DEF rest
<1>5. \A q : q = SubSeq(c, 1, e) => IsPrefix(q, c)
  BY <1>1, <1>2 DEF IsPrefix
<1> QED BY <1>4, <1>5, Zenon

LEMMA Messages ==
  /\ PutStart \in MessageToReceiver /\ FileEnd \in MessageToReceiver
  /\ \A b \in Piece : Data(b) \in MessageToReceiver
  /\ Applied \in MessageToSender
  /\ \A n \in Nat : Resume(n) \in MessageToSender /\ DataAck(n) \in MessageToSender
PROOF
  BY DEF PutStart, FileEnd, Data, Applied, Resume, DataAck, MessageToReceiver,
         MessageToSender

LEMMA Contents ==
  ASSUME IInv
  PROVE  /\ record.content \in Piece /\ record.content \in Content
         /\ record.version \in Version
         /\ Size(record) \in Nat
         /\ Arrived \in Piece \cup {NoContent}
         /\ source \in Piece
PROOF
  BY ContentAssumption DEF IInv, TypeOK, Record, Arrived, Size, Piece
-----------------------------------------------------------------------------
(* The user and the start of a session *)

LEMMA InitInv == Init => IInv
PROOF
<1> SUFFICES ASSUME Init PROVE IInv
  OBVIOUS
<1>1. row \in Record /\ source \in Content /\ 0 \in Version
  BY BoundAssumption DEF Init, Record, Version
<1>2. TypeOK
  BY <1>1, BoundAssumption DEF Init, TypeOK, Version
<1>3. Latest /\ Honest
  BY <1>1 DEF Init, Latest, Honest, Arrived, Version
<1>4. Conversation /\ ResumesWithin /\ InstalledAsRecorded
  BY DEF Init, Conversation, ResumesWithin, Gets, InstalledAsRecorded
<1> QED BY <1>2, <1>3, <1>4 DEF IInv

LEMMA EditKeeps ==
  ASSUME IInv, NEW c \in Content, NEW inPlace \in BOOLEAN, Edit(c, inPlace)
  PROVE  IInv'
PROOF
<1> USE DEF IInv, Edit
<1>1. edits \in Nat /\ edits' \in 0..MaxEdits /\ row.version \in Nat
  BY BoundAssumption DEF TypeOK, Record, Version
<1>2. TypeOK'
  BY <1>1, Contents DEF TypeOK
<1>3. Latest'
  BY <1>1 DEF Latest
<1>4. Arrived' = Arrived /\ (Unspoiled' => Unspoiled /\ spc = "idle")
  BY Contents DEF Arrived, Unspoiled
<1>5. Conversation'
  <2>1. \A b : Offered(b) => Offered(b)'
    BY <1>4 DEF Offered, IsPrefix
  <2> QED BY <1>4, <2>1 DEF Conversation, Size
<1>6. Honest'
  BY <1>4 DEF Honest, IsPrefix
<1>7. ResumesWithin' /\ InstalledAsRecorded'
  BY DEF ResumesWithin, InstalledAsRecorded, Size, Gets
<1> QED BY <1>2, <1>3, <1>5, <1>6, <1>7

LEMMA StartKeeps ==
  ASSUME IInv, Start
  PROVE  IInv'
PROOF
<1> USE DEF IInv, Start
<1>1. /\ row \in Record /\ row.version \in Version /\ row.content \in Content
      /\ source \in Content
  BY DEF TypeOK, Record
<1>2. row' = record' /\ row'.content = source
      /\ \/ row' = row
         \/ row'.version = row.version + 1 /\ row.version < edits
  BY <1>1 DEF Latest
<1>3. row' \in Record /\ row'.version \in Version /\ row'.version <= edits
  BY <1>1, BoundAssumption DEF Latest, TypeOK, Record, Version
<1>4. <<PutStart>> \in Seq(MessageToReceiver) /\ <<>> \in Seq(MessageToSender)
  BY Messages
<1>5. TypeOK'
  BY <1>2, <1>3, <1>4 DEF TypeOK
<1>6. Latest'
  <2>1. \A v \in Version : v > row'.version => v > row.version
    BY <1>1, <1>2, <1>3 DEF Version
  <2> QED BY <1>2, <1>3, <2>1 DEF Latest
<1>7. Conversation'
  BY DEF Conversation
<1>8. Honest'
  <2>1. CASE row' = row
    BY <1>2, <2>1 DEF Latest, Honest, Arrived, Unspoiled, IsPrefix
  <2>2. CASE row'.version = row.version + 1
    <3>1. part'[row'.version] = NoContent
      BY <1>1, <1>3, <2>2 DEF Latest, Version
    <3> QED BY <1>2, <3>1 DEF Honest, Arrived, Unspoiled
  <2> QED BY <1>2, <2>1, <2>2
<1>9. ResumesWithin' /\ InstalledAsRecorded'
  BY DEF ResumesWithin, InstalledAsRecorded, Gets
<1> QED BY <1>5, <1>6, <1>7, <1>8, <1>9
-----------------------------------------------------------------------------
(* The receiver *)

\* What the reader of the one message under way leaves and answers.
LEMMA Answered ==
  ASSUME IInv, NEW m \in MessageToSender, toReceiver # <<>>, Reply(m)
  PROVE  /\ toReceiver' \in Seq(MessageToReceiver) /\ toSender' \in Seq(MessageToSender)
         /\ rpc # "idle" => toReceiver' = <<>>
         /\ toSender = <<>> => toSender' = <<m>>
         /\ toSender # <<>> => Head(toSender') = Head(toSender)
PROOF
<1>1. toReceiver \in Seq(MessageToReceiver) /\ toSender \in Seq(MessageToSender)
  BY DEF IInv, TypeOK
<1>2. ASSUME rpc # "idle"
      PROVE  \E x : toReceiver = <<x>>
  <2>1. rpc \in {"serve", "receiving"}
    BY <1>2 DEF IInv, TypeOK
  <2>2. \/ toReceiver = <<PutStart>> \/ toReceiver = <<FileEnd>>
        \/ \E b \in Piece : toReceiver = <<Data(b)>>
    BY <2>1 DEF IInv, Conversation, Offered
  <2>3. CASE toReceiver = <<PutStart>>
    BY <2>3
  <2>4. CASE toReceiver = <<FileEnd>>
    BY <2>4
  <2>5. CASE \E b \in Piece : toReceiver = <<Data(b)>>
    BY <2>5
  <2> QED BY <2>2, <2>3, <2>4, <2>5
<1>3. ASSUME rpc # "idle"
      PROVE  Tail(toReceiver) = <<>>
  <2>1. PICK x : toReceiver = <<x>>
    BY <1>2, <1>3
  <2> QED BY <2>1, OneMessage
<1>4. Tail(toReceiver) \in Seq(MessageToReceiver)
  BY <1>1
<1>5. /\ Append(toSender, m) \in Seq(MessageToSender)
      /\ toSender = <<>> => Append(toSender, m) = <<m>>
      /\ toSender # <<>> => Head(Append(toSender, m)) = Head(toSender)
  <2>1. CASE toSender = <<>>
    <3>1. \A s : s = <<>> => Append(s, m) = <<m>>
      BY OneMessage
    <3> QED BY <1>1, <2>1, <3>1, AppendHead
  <2>2. CASE toSender # <<>>
    BY <1>1, <2>2, AppendHead
  <2> QED BY <2>1, <2>2
<1> QED BY <1>3, <1>4, <1>5 DEF Reply

LEMMA BeginReceiveKeeps ==
  ASSUME IInv, BeginReceive
  PROVE  IInv'
PROOF
<1> USE DEF IInv
<1> DEFINE stored == IF part[record.version] = NoContent THEN <<>> ELSE part[record.version]
           kept == IF Len(stored) <= Size(record) THEN stored ELSE <<>>
<1>1. /\ kept \in Piece /\ Len(kept) \in Nat /\ Len(kept) <= Size(record)
      /\ Unspoiled => IsPrefix(kept, record.content)
  BY Contents DEF Arrived, Piece, Honest, IsPrefix
<1>2. /\ part' = [part EXCEPT ![record.version] = kept] /\ Reply(Resume(Len(kept)))
      /\ rpc = "serve" /\ rpc' = "receiving"
      /\ UNCHANGED <<source, row, edits, failures, installed, here, spc, handle, sent,
                     record, spoiled>>
  BY DEF BeginReceive, stable, sender
<1> HIDE DEF kept
<1>3. Arrived' = kept /\ Unspoiled' = Unspoiled
  BY <1>2, Contents DEF Arrived, Unspoiled, TypeOK
<1>4. toReceiver' = <<>> /\ toSender' = <<Resume(Len(kept))>>
  BY <1>1, <1>2, Messages, Answered, OneMessage DEF Conversation
<1>5. TypeOK'
  BY <1>1, <1>2, Messages, Answered, OneMessage, Contents DEF TypeOK, Conversation
<1>6. Latest'
  BY <1>2, Contents DEF Latest, TypeOK, Version
<1>7. Conversation'
  BY <1>1, <1>2, <1>3, <1>4, NoContentAssumption DEF Conversation, Size
<1>8. Honest'
  BY <1>1, <1>2, <1>3 DEF Honest, IsPrefix
<1>9. ResumesWithin' /\ InstalledAsRecorded'
  BY <1>1, <1>2, <1>4, OneMessage DEF ResumesWithin, InstalledAsRecorded, Size, Resume
<1> QED BY <1>5, <1>6, <1>7, <1>8, <1>9

LEMMA WriteChunkKeeps ==
  ASSUME IInv, WriteChunk
  PROVE  IInv'
PROOF
<1> USE DEF IInv
<1>1. PICK b \in Piece : Offered(b)
  BY DEF WriteChunk, Gets, Conversation, FileEnd
<1>2. toReceiver # <<>> /\ Head(toReceiver).blocks = b
  BY <1>1 DEF Offered, Data
<1> DEFINE longer == Arrived \o b
<1>3. /\ Arrived \in Piece /\ Arrived # NoContent /\ longer \in Piece
      /\ Len(longer) = Len(Arrived) + Len(b) /\ Len(longer) \in Nat
  BY Contents DEF WriteChunk, Conversation, Piece
<1>4. /\ part' = [part EXCEPT ![record.version] = longer] /\ Reply(DataAck(Len(longer)))
      /\ rpc = "receiving" /\ rpc' = "receiving"
      /\ UNCHANGED <<source, row, edits, failures, installed, here, spc, handle, sent,
                     record, spoiled>>
  BY <1>2 DEF WriteChunk, stable, sender
<1>0. Len(longer) <= Size(record)
  BY <1>2, <1>3, Contents DEF WriteChunk, Overflows
<1>5. Unspoiled => IsPrefix(longer, record.content)
  BY <1>1 DEF Offered
<1> HIDE DEF longer
<1>6. Arrived' = longer /\ Unspoiled' = Unspoiled
  BY <1>4, Contents DEF Arrived, Unspoiled, TypeOK
<1>7. DataAck(Len(longer)) \in MessageToSender
  BY <1>3, Messages
<1>8. /\ toReceiver' = <<>>
      /\ toReceiver' \in Seq(MessageToReceiver) /\ toSender' \in Seq(MessageToSender)
      /\ toSender = <<>> => toSender' = <<DataAck(Len(longer))>>
      /\ toSender # <<>> => Head(toSender') = Head(toSender)
  BY <1>2, <1>4, <1>7, Answered
<1>9. TypeOK'
  BY <1>3, <1>4, <1>8, Contents DEF TypeOK
<1>10. Latest'
  BY <1>4, Contents DEF Latest, TypeOK, Version
<1>11. Conversation'
  <2>1. spc = "sending" => toSender = <<>> /\ Len(longer) = sent
    BY <1>1, <1>2, <1>3, <1>4 DEF Conversation, Offered, Data
  <2>2. spc \notin {"await_resume", "await_applied"}
    BY <1>1, <1>4 DEF Conversation, Offered, Data, FileEnd
  <2> QED BY <1>0, <1>3, <1>4, <1>6, <1>8, <2>1, <2>2, NoContentAssumption DEF Conversation, Size
<1>12. Honest'
  BY <1>4, <1>5, <1>6 DEF Honest, IsPrefix
<1>13. ResumesWithin' /\ InstalledAsRecorded'
  <2>1. Gets(toSender', "Resume") => toSender # <<>> /\ Head(toSender') = Head(toSender)
    BY <1>8, OneMessage DEF Gets, DataAck
  <2> QED BY <1>4, <2>1 DEF ResumesWithin, InstalledAsRecorded, Size, Gets
<1> QED BY <1>9, <1>10, <1>11, <1>12, <1>13

\* A receiver that hangs up leaves at most less in the part file.
LEMMA HangUpKeeps ==
  ASSUME IInv, HangUp,
         UNCHANGED <<source, row, edits, installed, here, sender, record, toSender, spoiled>>,
         failures' \in 0..MaxFailures,
         NEW left \in Piece \cup {NoContent},
         part' = [part EXCEPT ![record.version] = left],
         left # NoContent /\ Unspoiled => IsPrefix(left, record.content)
  PROVE  IInv'
PROOF
<1> USE DEF IInv, HangUp, sender
<1>1. Arrived' = left /\ Unspoiled' = Unspoiled
  BY Contents DEF Arrived, Unspoiled, TypeOK
<1>2. TypeOK'
  BY Contents DEF TypeOK
<1>3. Latest'
  BY Contents DEF Latest, TypeOK, Version
<1>4. Conversation'
  <2>1. rpc = "receiving" => Len(Arrived) \in Nat
    BY Contents DEF Conversation, Piece
  <2>2. rpc \in {"idle", "serve", "receiving"}
    BY DEF TypeOK
  <2> QED BY <2>1, <2>2 DEF Conversation, Offered
<1>5. Honest'
  BY <1>1 DEF Honest, IsPrefix
<1>6. ResumesWithin' /\ InstalledAsRecorded'
  BY DEF ResumesWithin, InstalledAsRecorded, Size, Gets
<1> QED BY <1>2, <1>3, <1>4, <1>5, <1>6

LEMMA HangingUpKeeps ==
  ASSUME IInv,
         RejectChunk \/ CommitShort \/ CommitInvalid \/ ReceiverDeserted \/ CommitMismatch
  PROVE  IInv'
PROOF
<1>1. failures \in 0..MaxFailures
  BY DEF IInv, TypeOK
<1>2. Arrived # NoContent /\ Unspoiled => IsPrefix(Arrived, record.content)
  BY DEF IInv, Honest
<1>3. part = [part EXCEPT ![record.version] = Arrived]
  BY Contents DEF IInv, TypeOK, Arrived
<1>4. CASE RejectChunk \/ CommitShort \/ CommitInvalid \/ ReceiverDeserted
  <2>1. /\ HangUp /\ part' = part /\ failures' = failures
        /\ UNCHANGED <<source, row, edits, installed, here, sender, record, toSender, spoiled>>
    BY <1>4 DEF RejectChunk, CommitShort, CommitInvalid, ReceiverDeserted, stable
  <2> QED BY <1>1, <1>2, <1>3, <2>1, Contents, HangUpKeeps
<1>5. CASE CommitMismatch
  <2>1. /\ HangUp /\ part' = [part EXCEPT ![record.version] = NoContent] /\ failures' = failures
        /\ UNCHANGED <<source, row, edits, installed, here, sender, record, toSender, spoiled>>
    BY <1>5 DEF CommitMismatch, stable
  <2> QED BY <1>1, <2>1, Contents, HangUpKeeps
<1> QED BY <1>4, <1>5

LEMMA ReceiverFailsKeeps ==
  ASSUME IInv, ReceiverFails
  PROVE  IInv'
PROOF
<1>1. /\ HangUp /\ failures' \in 0..MaxFailures
      /\ UNCHANGED <<source, row, edits, installed, here, sender, record, toSender, spoiled>>
  BY BoundAssumption DEF ReceiverFails, IInv, TypeOK
<1>2. Arrived # NoContent /\ Unspoiled => IsPrefix(Arrived, record.content)
  BY DEF IInv, Honest
<1>3. CASE rpc = "receiving"
  <2>1. Arrived \in Piece /\ Arrived # NoContent /\ record.content \in Piece
    BY <1>3, Contents DEF IInv, Conversation
  <2>2. PICK n \in 0..Len(Arrived) :
               part' = [part EXCEPT ![record.version] = SubSeq(Arrived, 1, n)]
    BY <1>3 DEF ReceiverFails, Arrived
  <2>3. /\ SubSeq(Arrived, 1, n) \in Piece
        /\ Unspoiled => IsPrefix(SubSeq(Arrived, 1, n), record.content)
    BY <1>2, <2>1, PrefixOfPrefix DEF Piece
  <2> QED BY <1>1, <2>2, <2>3, HangUpKeeps
<1>4. CASE rpc # "receiving"
  <2>1. part' = [part EXCEPT ![record.version] = Arrived]
    BY <1>4, Contents DEF ReceiverFails, IInv, TypeOK, Arrived
  <2> QED BY <1>1, <1>2, <2>1, Contents, HangUpKeeps
<1> QED BY <1>3, <1>4

LEMMA CommitKeeps ==
  ASSUME IInv, Commit
  PROVE  IInv'
PROOF
<1> USE DEF IInv
<1>1. /\ rpc = "receiving" /\ toReceiver = <<FileEnd>>
      /\ Arrived = record.content /\ Reply(Applied)
      /\ here' = Arrived /\ installed' = record /\ rpc' = "idle"
      /\ part' = [part EXCEPT ![record.version] = NoContent]
      /\ UNCHANGED <<source, row, edits, failures, spc, handle, sent, record, spoiled>>
  BY DEF Commit, Ended, Gets, Conversation, Offered, Data, stable, sender
<1>2. /\ toReceiver' = <<>>
      /\ toReceiver' \in Seq(MessageToReceiver) /\ toSender' \in Seq(MessageToSender)
      /\ toSender = <<>> => toSender' = <<Applied>>
      /\ toSender # <<>> => Head(toSender') = Head(toSender)
  BY <1>1, Answered, Messages
<1>3. TypeOK'
  BY <1>1, <1>2, Contents DEF TypeOK
<1>4. Latest'
  BY <1>1, Contents DEF Latest, TypeOK, Version
<1>5. Conversation'
  <2>1. spc \notin {"await_resume", "sending"}
    BY <1>1 DEF Conversation, Offered, Data, FileEnd
  <2> QED BY <1>1, <1>2, <2>1 DEF Conversation
<1>6. Honest'
  <2>1. Arrived' = NoContent /\ Unspoiled' = Unspoiled
    BY <1>1, Contents DEF TypeOK, Arrived, Unspoiled
  <2> QED BY <1>1, <2>1 DEF Honest
<1>7. ResumesWithin' /\ InstalledAsRecorded'
  <2>1. Gets(toSender', "Resume") => toSender # <<>> /\ Head(toSender') = Head(toSender)
    BY <1>2, OneMessage DEF Gets, Applied
  <2> QED BY <1>1, <2>1 DEF ResumesWithin, InstalledAsRecorded, Size, Gets
<1> QED BY <1>3, <1>4, <1>5, <1>6, <1>7
-----------------------------------------------------------------------------
(* The sender *)

LEMMA StopKeeps ==
  ASSUME IInv, StopSending, failures' \in 0..MaxFailures,
         UNCHANGED <<source, row, edits, part, installed, here, rpc, record, toReceiver,
                     spoiled>>
  PROVE  IInv'
PROOF
<1> USE DEF IInv, StopSending
<1>1. source \in Content /\ 0 \in 0..Len(source)
  BY Contents DEF TypeOK, Piece
<1>2. TypeOK'
  BY <1>1 DEF TypeOK
<1>3. Latest'
  BY DEF Latest
<1>4. Arrived' = Arrived /\ Unspoiled' = Unspoiled
  BY DEF Arrived, Unspoiled
<1>5. Conversation'
  BY <1>4 DEF Conversation, Offered, IsPrefix, Size
<1>6. Honest'
  BY <1>4 DEF Honest, IsPrefix
<1>7. ResumesWithin' /\ InstalledAsRecorded'
  BY DEF ResumesWithin, InstalledAsRecorded, Gets
<1> QED BY <1>2, <1>3, <1>5, <1>6, <1>7

LEMMA StoppingKeeps ==
  ASSUME IInv, Confirmed \/ SenderDeserted \/ SenderFails
  PROVE  IInv'
PROOF
<1>1. failures' \in 0..MaxFailures
  BY BoundAssumption DEF IInv, TypeOK, Confirmed, SenderDeserted, SenderFails, stable
<1>2. /\ StopSending
      /\ UNCHANGED <<source, row, edits, part, installed, here, rpc, record, toReceiver,
                     spoiled>>
  BY DEF Confirmed, SenderDeserted, SenderFails, stable
<1> QED BY <1>1, <1>2, StopKeeps

\* The sender goes on from an offset at which the receiver is as well, unless the
\* receiver is gone.
LEMMA SendNextKeeps ==
  ASSUME IInv, spc # "idle", rpc # "serve",
         NEW from \in Content, NEW offset \in Nat,
         rpc = "receiving" => toReceiver = <<>> /\ Len(Arrived) = offset,
         \E c \in Content : offset \in 0..Len(c),
         Unspoiled => from = record.content,
         SendNext(from, offset), toSender' = <<>>, handle' = from,
         UNCHANGED <<stable, part, installed, here, rpc, record, spoiled>>
  PROVE  IInv'
PROOF
<1> USE DEF IInv, stable
<1> DEFINE end == Least(offset + Chunk, Len(from))
           next == SubSeq(from, offset + 1, end)
<1>1. from \in Piece /\ Len(from) \in Nat
  BY ContentAssumption DEF Piece
<1>2. ASSUME offset < Len(from)
      PROVE  /\ end \in offset..Len(from) /\ next \in Piece /\ Len(next) = end - offset
  BY <1>1, <1>2, ChunkAssumption DEF Least, Piece
<1>3. Arrived' = Arrived /\ Unspoiled' = Unspoiled
  BY DEF Arrived, Unspoiled
<1>4. ASSUME offset < Len(from), rpc = "receiving"
      PROVE  /\ Unspoiled => IsPrefix(Arrived \o next, record.content)
             /\ toReceiver' = <<Data(next)>>
  <2>1. Arrived \in Piece /\ Len(Arrived) = offset
    BY <1>4, Contents DEF Conversation
  <2>2. Unspoiled => IsPrefix(Arrived, from) /\ from = record.content
    BY <1>4 DEF Honest, Conversation
  <2>3. Unspoiled => IsPrefix(Arrived \o next, from)
    BY <1>1, <1>2, <1>4, <2>1, <2>2, PrefixGrows DEF Piece
  <2>4. toReceiver' = Append(<<>>, Data(next))
    BY <1>4 DEF SendNext
  <2> QED BY <2>2, <2>3, <2>4, OneMessage
<1>5. offset < Len(from) => spc' = "sending" /\ sent' = end
  BY DEF SendNext
<1>6. offset >= Len(from) => spc' = "await_applied" /\ sent' = offset
  BY <1>1 DEF SendNext
<1>7. offset >= Len(from) /\ rpc = "receiving" => toReceiver' = <<FileEnd>>
  BY <1>1, OneMessage DEF SendNext
<1>8. TypeOK'
  <2>1. \E c \in Content : sent' \in 0..Len(c)
    BY <1>1, <1>2, <1>5, <1>6
  <2>2. toReceiver \in Seq(MessageToReceiver)
    BY DEF TypeOK
  <2>3. toReceiver' \in Seq(MessageToReceiver)
    <3>1. CASE offset < Len(from)
      BY <1>2, <2>2, <3>1, Messages, AppendHead DEF SendNext
    <3>2. CASE ~(offset < Len(from))
      BY <2>2, <3>2, Messages, AppendHead DEF SendNext
    <3> QED BY <3>1, <3>2
  <2>4. spc' \in {"sending", "await_applied"}
    BY <1>1, <1>5, <1>6
  <2> QED BY <2>1, <2>3, <2>4 DEF TypeOK
<1>9. Latest'
  BY DEF Latest
<1> HIDE DEF next, end
<1>10. Conversation'
  <2>1. rpc \in {"idle", "receiving"}
    BY DEF TypeOK
  <2>2. ASSUME offset < Len(from), rpc = "receiving"
        PROVE  \E b \in Piece : Offered(b)' /\ Len(Arrived') + Len(b) = sent'
    BY <1>2, <1>3, <1>4, <1>5, <2>2 DEF Offered, IsPrefix
  <2>3. rpc = "receiving" => Arrived # NoContent /\ Len(Arrived) <= Size(record)
    BY DEF Conversation
  <2>4. CASE offset < Len(from)
    BY <1>3, <1>5, <2>1, <2>2, <2>3, <2>4 DEF Conversation, Size
  <2>5. CASE offset >= Len(from)
    BY <1>3, <1>6, <1>7, <2>1, <2>3, <2>5 DEF Conversation, Size
  <2> QED BY <1>1, <2>4, <2>5
<1>11. Honest'
  BY <1>3 DEF Honest, IsPrefix
<1>12. ResumesWithin' /\ InstalledAsRecorded'
  BY DEF ResumesWithin, InstalledAsRecorded, Gets
<1> QED BY <1>8, <1>9, <1>10, <1>11, <1>12

LEMMA SendFromOffsetKeeps ==
  ASSUME IInv, SendFromOffset
  PROVE  IInv'
PROOF
<1> DEFINE offset == Head(toSender).offset
<1>1. rpc # "serve"
  BY DEF IInv, Conversation, SendFromOffset, Gets
<1>2. PICK n \in Nat : toSender = <<Resume(n)>>
  <2>1. rpc = "receiving" => Len(Arrived) \in Nat
    BY Contents DEF IInv, Conversation, Piece
  <2>2. rpc \in {"receiving", "idle"}
    BY <1>1 DEF IInv, TypeOK
  <2> QED BY <2>1, <2>2 DEF IInv, Conversation, SendFromOffset, Gets
<1>3. offset = n /\ Tail(toSender) = <<>>
  BY <1>2, OneMessage DEF Resume
<1>4. offset <= Size(record) /\ \E c \in Content : offset \in 0..Len(c)
  BY <1>3, Contents DEF SendFromOffset, Size
<1>5. rpc = "receiving" => toReceiver = <<>> /\ Len(Arrived) = offset
  BY OneMessage DEF IInv, Conversation, SendFromOffset, Resume
<1>6. source \in Content /\ (Unspoiled => source = record.content)
  BY DEF IInv, TypeOK, Honest, SendFromOffset
<1>7. /\ spc # "idle" /\ SendNext(source, offset) /\ toSender' = <<>> /\ handle' = source
      /\ UNCHANGED <<stable, part, installed, here, rpc, record, spoiled>>
  BY <1>3 DEF SendFromOffset
<1> HIDE DEF offset
<1> QED BY <1>1, <1>3, <1>4, <1>5, <1>6, <1>7, SendNextKeeps

LEMMA SendMoreKeeps ==
  ASSUME IInv, SendMore
  PROVE  IInv'
PROOF
<1>1. rpc # "serve"
  BY DEF IInv, Conversation, SendMore
<1>2. toSender = <<DataAck(sent)>>
  <2>1. rpc \in {"receiving", "idle"}
    BY <1>1 DEF IInv, TypeOK
  <2> QED BY <2>1 DEF IInv, Conversation, SendMore, Gets
<1>3. Tail(toSender) = <<>>
  BY <1>2, OneMessage
<1>4. rpc = "receiving" => toReceiver = <<>> /\ Len(Arrived) = sent
  BY <1>2 DEF IInv, Conversation, SendMore
<1>5. /\ handle \in Content /\ (Unspoiled => handle = record.content)
      /\ sent \in Nat /\ \E c \in Content : sent \in 0..Len(c)
  BY DEF IInv, Honest, SendMore, TypeOK
<1>6. /\ spc # "idle" /\ SendNext(handle, sent) /\ toSender' = <<>> /\ handle' = handle
      /\ UNCHANGED <<stable, part, installed, here, rpc, record, spoiled>>
  BY <1>3 DEF SendMore
<1> QED BY <1>1, <1>4, <1>5, <1>6, SendNextKeeps
-----------------------------------------------------------------------------
LEMMA NextKeeps == IInv /\ [Next]_vars => IInv'
PROOF
<1> SUFFICES ASSUME IInv, [Next]_vars PROVE IInv'
  OBVIOUS
<1>1. CASE \E c \in Content, inPlace \in BOOLEAN : Edit(c, inPlace)
  BY <1>1, EditKeeps
<1>2. CASE Start
  BY <1>2, StartKeeps
<1>3. CASE SenderStep
  BY <1>3, SendFromOffsetKeeps, SendMoreKeeps, StoppingKeeps DEF SenderStep
<1>4. CASE ReceiverStep
  BY <1>4, BeginReceiveKeeps, WriteChunkKeeps, HangingUpKeeps, CommitKeeps DEF ReceiverStep
<1>5. CASE SenderFails
  BY <1>5, StoppingKeeps
<1>6. CASE ReceiverFails
  BY <1>6, ReceiverFailsKeeps
<1>7. CASE UNCHANGED vars
  <2>0. UNCHANGED <<source, row, edits, failures, part, installed, here, spc, rpc, sent,
                    handle, record, toReceiver, toSender, spoiled>>
    BY <1>7 DEF vars
  <2>1. TypeOK'
    BY <2>0 DEF IInv, TypeOK
  <2>2. Latest'
    BY <2>0 DEF IInv, Latest
  <2>3. Arrived' = Arrived /\ (Unspoiled' <=> Unspoiled) /\ Size(record)' = Size(record)
    BY <2>0 DEF Arrived, Unspoiled, Size
  <2>4. \A b \in Piece : Offered(b)' <=> Offered(b)
    BY <2>0, <2>3 DEF Offered, IsPrefix
  <2>5. Conversation'
    BY <2>0, <2>3, <2>4 DEF IInv, Conversation
  <2>6. Honest'
    BY <2>0, <2>3 DEF IInv, Honest, IsPrefix
  <2>7. ResumesWithin'
    BY <2>0, <2>3 DEF IInv, ResumesWithin, Gets
  <2>8. InstalledAsRecorded'
    BY <2>0 DEF IInv, InstalledAsRecorded
  <2> QED BY <2>1, <2>2, <2>5, <2>6, <2>7, <2>8 DEF IInv
<1> QED BY <1>1, <1>2, <1>3, <1>4, <1>5, <1>6, <1>7 DEF Next

LEMMA Invariance == Spec => []IInv
PROOF
  BY InitInv, NextKeeps, PTL DEF Spec

\* The values of the transfer keep to their types: what arrives is made of blocks
\* of the sender's contents, and the sender's offset lies within one of them.
THEOREM TransferTyping == Spec => []TypeOK
PROOF
<1>1. IInv => TypeOK
  BY DEF IInv
<1> QED BY <1>1, Invariance, PTL

\* send_file_body is never answered with an offset it breaks the session off for:
\* neither by begin_receive, whatever part file it found, nor by write_chunk.
THEOREM OffsetsAlwaysAgree == Spec => []OffsetsAgree
PROOF
<1>1. IInv => OffsetsAgree
  <2> SUFFICES ASSUME IInv PROVE OffsetsAgree
    OBVIOUS
  <2>1. ASSUME spc = "sending", Gets(toSender, "DataAck")
        PROVE  toSender = <<DataAck(sent)>>
    BY <2>1 DEF IInv, TypeOK, Conversation, Gets
  <2>2. Head(<<DataAck(sent)>>).offset = sent
    BY OneMessage DEF DataAck
  <2> QED BY <2>1, <2>2 DEF OffsetsAgree, IInv, ResumesWithin
<1> QED BY <1>1, Invariance, PTL

\* A part file that is resumed, cut by a crash or filled over several sessions
\* holds the start of the content its record was scanned with, as long as the
\* sender's file was not edited while it was read under that version.
THEOREM PartsAreAlwaysPrefixes == Spec => []PartIsPrefix
PROOF
<1>1. IInv => PartIsPrefix
  BY DEF IInv, Honest, Unspoiled, Arrived, PartIsPrefix
<1> QED BY <1>1, Invariance, PTL

\* commit installs under a version what the record of that version says, whatever
\* the sender's file became while it was transferred.
THEOREM AlwaysInstalledAsRecorded == Spec => []InstalledAsRecorded
PROOF
<1>1. IInv => InstalledAsRecorded
  BY DEF IInv
<1> QED BY <1>1, Invariance, PTL
=============================================================================
