--------------------------- MODULE PeerSyncProofs ---------------------------
(***************************************************************************)
(* What holds of PeerSync for any number of devices, keys and contents.    *)
(*                                                                         *)
(* The inductive invariant says where records come from: every record in a *)
(* catalog, a snapshot, a transfer or a message was issued once, by a      *)
(* device whose counter has not gone back since (Provenance, Stamps).  The *)
(* protocol adds only that a transfer under way has a record (Phases).     *)
(***************************************************************************)
EXTENDS PeerSync, SequenceTheorems, TLAPS

(* The order of versions and the symmetry of the winner, for every stamp. *)

LEMMA StampFields ==
  ASSUME NEW a \in VersionStamp
  PROVE  /\ a.wall \in Int /\ a.counter \in Int /\ a.origin \in Int
         /\ a = [wall |-> a.wall, counter |-> a.counter, origin |-> a.origin]
<1>1. a.wall \in Nat /\ a.counter \in Nat /\ a.origin \in Device
  BY DEF VersionStamp
<1>2. a = [wall |-> a.wall, counter |-> a.counter, origin |-> a.origin]
  BY DEF VersionStamp
<1>3. \A n : n \in Device => n \in Int
  BY DeviceAssumption DEF DeviceAssumption
<1> QED BY <1>1, <1>2, <1>3

\* Any two versions are equal or one is newer (VersionStamp::cmp is total).
THEOREM NewerTotal ==
  ASSUME NEW a \in VersionStamp, NEW b \in VersionStamp
  PROVE  a = b \/ Newer(a, b) \/ Newer(b, a)
<1>1. a.wall = b.wall /\ a.counter = b.counter /\ a.origin = b.origin => a = b
  BY StampFields
<1> QED BY <1>1, StampFields DEF Newer

\* Two versions are never each newer than the other, nor one newer than itself.
THEOREM NewerAsymmetric ==
  ASSUME NEW a \in VersionStamp, NEW b \in VersionStamp, Newer(a, b)
  PROVE  ~Newer(b, a) /\ a # b
<1>1. ~Newer(b, a)
  BY StampFields DEF Newer
<1>2. ~Newer(a, a)
  BY StampFields DEF Newer
<1> QED BY <1>1, <1>2

\* A chain of replacements by newer versions never comes back to an older one.
THEOREM NewerTransitive ==
  ASSUME NEW a \in VersionStamp, NEW b \in VersionStamp, NEW c \in VersionStamp,
         Newer(a, b), Newer(b, c)
  PROVE  Newer(a, c)
BY StampFields DEF Newer

\* Both ends of a session, each calling its own record "local" (plan.rs:80-107),
\* name the same winner.
THEOREM WinnerSymmetric ==
  ASSUME NEW a \in ObjectRecord \cup {NoRecord}, NEW b \in ObjectRecord \cup {NoRecord}
  PROVE  /\ Winner(a, b) = "local" <=> Winner(b, a) = "remote"
         /\ Winner(a, b) = "equal" <=> Winner(b, a) = "equal"
<1>1. CASE a = NoRecord \/ b = NoRecord
  BY <1>1 DEF Winner
<1>2. CASE a # NoRecord /\ b # NoRecord
  <2>1. a.version \in VersionStamp /\ b.version \in VersionStamp
    BY <1>2 DEF ObjectRecord
  <2>2. Newer(a.version, b.version) => ~Newer(b.version, a.version)
    BY <2>1, NewerAsymmetric
  <2> QED BY <1>2, <2>2 DEF Winner
<1> QED BY <1>1, <1>2

\* The winner is there: what is sent or received is a record.
THEOREM WinnerExists ==
  ASSUME NEW a, NEW b
  PROVE  /\ Winner(a, b) = "local" => a # NoRecord
         /\ Winner(a, b) = "remote" => b # NoRecord
BY DEF Winner
-----------------------------------------------------------------------------
Transfers == {"await_put", "await_body", "await_resume", "await_applied"}

Typed ==
  /\ clock \in [Device -> Nat]
  /\ file \in [Device -> [Key -> File \cup {NoFile}]]
  /\ counter \in [Device -> Nat]
  /\ uploading \in [Device -> Key \cup {0}]
  /\ pc \in [Device -> SessionState]
  /\ role \in [Device -> {"none", "initiator", "acceptor"}]
  /\ partner \in [Device -> Device \cup {Nobody}]
  /\ at \in [Device -> 1..(Last + 1)]
  /\ touched \in [Device -> SUBSET Key]
  /\ edits \in Nat

Phases ==
  \A d \in Device :
    /\ pc[d] # "idle" => partner[d] \in Device
    /\ pc[d] = "serve" => role[d] # "initiator"
    /\ pc[d] \in Transfers =>
         item[d] # NoRecord /\ (role[d] = "initiator" => at[d] \in Key)

Provenance ==
  /\ catalog \in [Device -> [Key -> issued \cup {NoRecord}]]
  /\ mine \in [Device -> [Key -> issued \cup {NoRecord}]]
  /\ theirs \in [Device -> [Key -> issued \cup {NoRecord}]]
  /\ item \in [Device -> issued \cup {NoRecord}]
  /\ net \in [Device \X Device -> Seq(MessageOver(issued))]

Stamps ==
  /\ issued \subseteq ObjectRecord
  /\ \A r \in issued : r.version.counter <= counter[r.version.origin]
  /\ \A r, s \in issued : r.version = s.version => r = s

IInv == Typed /\ Phases /\ Provenance /\ Stamps
-----------------------------------------------------------------------------
(* Records and messages. *)

LEMMA MessageMonotone ==
  ASSUME NEW S, NEW T, S \subseteq T
  PROVE  MessageOver(S) \subseteq MessageOver(T)
BY DEF MessageOver

LEMMA SeqMonotone ==
  ASSUME NEW S, NEW T, S \subseteq T
  PROVE  Seq(S) \subseteq Seq(T)
<1>1. SUFFICES ASSUME NEW q \in Seq(S) PROVE q \in Seq(T)
  OBVIOUS
<1>2. Len(q) \in Nat /\ q \in [1..Len(q) -> S]
  OBVIOUS
<1>3. q \in [1..Len(q) -> T]
  BY <1>2
<1> QED BY <1>2, <1>3, SeqDef

LEMMA NetMonotone ==
  ASSUME NEW S, NEW T, S \subseteq T,
         net \in [Device \X Device -> Seq(MessageOver(S))]
  PROVE  net \in [Device \X Device -> Seq(MessageOver(T))]
<1>1. Seq(MessageOver(S)) \subseteq Seq(MessageOver(T))
  BY MessageMonotone, SeqMonotone
<1> QED BY <1>1

\* A message that is there is well formed, record included.
LEMMA ReceivedWellFormed ==
  ASSUME NEW S, net \in [Device \X Device -> Seq(MessageOver(S))],
         NEW d \in Device, partner[d] \in Device, Inbox(d) # <<>>
  PROVE  /\ Received(d) \in MessageOver(S)
         /\ Received(d).type = "Snapshot" =>
              Received(d).records \in [Key -> S \cup {NoRecord}]
         /\ Received(d).type = "Get" => Received(d).key \in Key
         /\ Received(d).type = "PutStart" => Received(d).record \in S
         /\ Received(d).type = "Body" => Received(d).content \in Content
<1>1. Inbox(d) \in Seq(MessageOver(S))
  BY DEF Inbox
<1>2. Received(d) \in MessageOver(S)
  BY <1>1, HeadTailProperties DEF Received
<1> QED BY <1>2 DEF MessageOver

LEMMA MessagesWellFormed ==
  ASSUME NEW S
  PROVE  /\ \A r \in [Key -> S \cup {NoRecord}] : Snapshot(r) \in MessageOver(S)
         /\ \A k \in Key : Get(k) \in MessageOver(S)
         /\ \A r \in S : PutStart(r) \in MessageOver(S)
         /\ \A c \in Content : Body(c) \in MessageOver(S)
         /\ Resume \in MessageOver(S)
         /\ Applied \in MessageOver(S)
         /\ Done \in MessageOver(S)
BY DEF MessageOver, Snapshot, Get, PutStart, Body, Resume, Applied, Done

LEMMA SendKeepsNet ==
  ASSUME NEW S, net \in [Device \X Device -> Seq(MessageOver(S))],
         NEW d \in Device, partner[d] \in Device,
         NEW m \in MessageOver(S), Send(d, m)
  PROVE  net' \in [Device \X Device -> Seq(MessageOver(S))]
<1>1. Append(net[<<d, partner[d]>>], m) \in Seq(MessageOver(S))
  BY AppendProperties
<1> QED BY <1>1 DEF Send

LEMMA ConsumeKeepsNet ==
  ASSUME NEW S, net \in [Device \X Device -> Seq(MessageOver(S))],
         NEW d \in Device, Inbox(d) # <<>>, Consume(d)
  PROVE  net' \in [Device \X Device -> Seq(MessageOver(S))]
BY HeadTailProperties DEF Consume, Inbox

LEMMA ReplyKeepsNet ==
  ASSUME NEW S, net \in [Device \X Device -> Seq(MessageOver(S))],
         NEW d \in Device, partner[d] \in Device,
         NEW m \in MessageOver(S), Inbox(d) # <<>>, Reply(d, m)
  PROVE  net' \in [Device \X Device -> Seq(MessageOver(S))]
<1>1. Tail(net[<<partner[d], d>>]) \in Seq(MessageOver(S))
  BY HeadTailProperties DEF Inbox
<1>2. Append(net[<<d, partner[d]>>], m) \in Seq(MessageOver(S))
  BY AppendProperties
<1> QED BY <1>1, <1>2 DEF Reply

LEMMA HangupKeepsNet ==
  ASSUME NEW S, net \in [Device \X Device -> Seq(MessageOver(S))],
         NEW d \in Device, Hangup(d)
  PROVE  net' \in [Device \X Device -> Seq(MessageOver(S))]
<1>1. PICK left \in {net[<<d, partner[d]>>], <<>>} :
        net' = [net EXCEPT ![<<partner[d], d>>] = <<>>,
                           ![<<d, partner[d]>>] = IF partner[partner[d]] = d
                                                  THEN left ELSE <<>>]
  BY DEF Hangup
<1>2. CASE <<d, partner[d]>> \in Device \X Device
  <2>1. left \in Seq(MessageOver(S))
    BY <1>2, EmptySeq
  <2>2. QED
    BY <1>1, <2>1, EmptySeq
<1>3. CASE <<d, partner[d]>> \notin Device \X Device
  BY <1>1, <1>3, EmptySeq
<1>4. QED
  BY <1>2, <1>3
-----------------------------------------------------------------------------
(* Issuing a record. *)

\* A step that takes no version keeps the stamps.
LEMMA StampsKept ==
  Stamps /\ UNCHANGED <<issued, counter>> => Stamps'
BY DEF Stamps

\* A version never issued before: the counter of the device is ahead of all.
LEMMA IssueKeepsStamps ==
  ASSUME Stamps, counter \in [Device -> Nat], clock \in [Device -> Nat],
         NEW d \in Device, NEW k \in Key, NEW c \in Content, NEW del \in BOOLEAN,
         NEW base \in Nat, Issue(d, k, Recorded(d, k, c, del, base))
  PROVE  /\ Recorded(d, k, c, del, base) \in ObjectRecord
         /\ \A s \in issued : s.version # Recorded(d, k, c, del, base).version
         /\ Stamps'
<1> DEFINE r == Recorded(d, k, c, del, base)
<1>1. /\ r \in ObjectRecord
      /\ r.version.counter = counter[d] + 1
      /\ r.version.origin = d
  BY DEF Recorded, NextVersion, Later, ObjectRecord, VersionStamp
<1> HIDE DEF r
<1>2. issued' = issued \cup {r} /\ counter' = [counter EXCEPT ![d] = @ + 1]
  BY DEF Issue, r
<1>3. \A s \in issued : /\ s.version.origin \in Device
                        /\ s.version.counter \in Nat
  BY DEF Stamps, ObjectRecord, VersionStamp
<1>4. \A s \in issued : s.version # r.version
  BY <1>1, <1>3 DEF Stamps
<1>5. \A s \in issued' : s.version.counter <= counter'[s.version.origin]
  BY <1>1, <1>2, <1>3 DEF Stamps
<1>6. \A s, t \in issued' : s.version = t.version => s = t
  BY <1>2, <1>4 DEF Stamps
<1>7. issued' \subseteq ObjectRecord
  BY <1>1, <1>2 DEF Stamps
<1> QED BY <1>1, <1>4, <1>5, <1>6, <1>7 DEF Stamps, r

\* Issuing keeps the provenance of all that a step leaves where it was.
LEMMA IssueKeepsProvenance ==
  ASSUME Provenance, NEW d \in Device, NEW k \in Key, NEW r, Issue(d, k, r)
  PROVE  /\ catalog' \in [Device -> [Key -> issued' \cup {NoRecord}]]
         /\ theirs \in [Device -> [Key -> issued' \cup {NoRecord}]]
         /\ mine \in [Device -> [Key -> issued' \cup {NoRecord}]]
         /\ item \in [Device -> issued' \cup {NoRecord}]
         /\ net \in [Device \X Device -> Seq(MessageOver(issued'))]
         /\ r \in issued'
<1>1. issued \subseteq issued' /\ r \in issued'
  BY DEF Issue
<1>2. net \in [Device \X Device -> Seq(MessageOver(issued'))]
  BY <1>1, NetMonotone DEF Provenance
<1>3. catalog' \in [Device -> [Key -> issued' \cup {NoRecord}]]
  BY <1>1 DEF Issue, Provenance
<1>4. theirs \in [Device -> [Key -> issued' \cup {NoRecord}]]
  BY <1>1 DEF Provenance
<1>5. mine \in [Device -> [Key -> issued' \cup {NoRecord}]]
  BY <1>1 DEF Provenance
<1>6. item \in [Device -> issued' \cup {NoRecord}]
  BY <1>1 DEF Provenance
<1> QED BY <1>1, <1>2, <1>3, <1>4, <1>5, <1>6
-----------------------------------------------------------------------------
(* The invariant is inductive. *)

LEMMA InitIInv == Init => IInv
<1> SUFFICES ASSUME Init PROVE IInv
  OBVIOUS
<1> USE KeyAssumption DEF KeyAssumption, Init
<1>1. Typed
  BY DEF Typed, SessionState
<1>2. Phases
  BY DEF Phases, Transfers
<1>3. Provenance
  BY EmptySeq DEF Provenance, NoSnapshot
<1>4. Stamps
  BY DEF Stamps
<1> QED BY <1>1, <1>2, <1>3, <1>4 DEF IInv

LEMMA StutterKeeps == IInv /\ UNCHANGED vars => IInv'
BY DEF IInv, Typed, Phases, Provenance, Stamps, vars

\* What happens outside a session leaves the session alone; a record of an
\* upload is the only one issued.
LEMMA LocalStepKeeps ==
  ASSUME NEW d \in Device
  PROVE  IInv /\ LocalStep(d) => IInv'
<1> SUFFICES ASSUME IInv, LocalStep(d) PROVE IInv'
  OBVIOUS
<1> USE KeyAssumption, BoundAssumption
    DEF KeyAssumption, BoundAssumption, IInv, disk, session, history
<1>1. ASSUME Tick(d) PROVE IInv'
  <2>1. Typed'
    BY <1>1 DEF Tick, Typed
  <2>2. Phases'
    BY <1>1 DEF Tick, Typed, Phases
  <2>3. Provenance'
    BY <1>1 DEF Tick, Provenance
  <2>4. Stamps'
    BY <1>1, StampsKept DEF Tick
  <2> QED BY <2>1, <2>2, <2>3, <2>4 DEF IInv
<1>2. ASSUME NEW k \in Key, NEW c \in Content, NEW t \in 0..MaxTime, UserWrite(d, k, c, t) PROVE IInv'
  <2>1. Typed'
    BY <1>2 DEF UserWrite, Edit, Touch, File, Typed
  <2>2. Phases'
    BY <1>2 DEF UserWrite, Edit, Touch, File, Typed, Phases
  <2>3. Provenance'
    BY <1>2 DEF UserWrite, Edit, Touch, File, Provenance
  <2>4. Stamps'
    BY <1>2, StampsKept DEF UserWrite, Edit, Touch, File
  <2> QED BY <2>1, <2>2, <2>3, <2>4 DEF IInv
<1>3. ASSUME NEW k \in Key, UserDelete(d, k) PROVE IInv'
  <2>1. Typed'
    BY <1>3 DEF UserDelete, Edit, Touch, Typed
  <2>2. Phases'
    BY <1>3 DEF UserDelete, Edit, Touch, Typed, Phases
  <2>3. Provenance'
    BY <1>3 DEF UserDelete, Edit, Touch, Provenance
  <2>4. Stamps'
    BY <1>3, StampsKept DEF UserDelete, Edit, Touch
  <2> QED BY <2>1, <2>2, <2>3, <2>4 DEF IInv
<1>4. ASSUME NEW k \in Key, NEW c \in Content, UploadPublish(d, k, c) PROVE IInv'
  <2>1. Typed'
    BY <1>4 DEF UploadPublish, Edit, Touch, File, Typed
  <2>2. Phases'
    BY <1>4 DEF UploadPublish, Edit, Touch, File, Typed, Phases
  <2>3. Provenance'
    BY <1>4 DEF UploadPublish, Edit, Touch, File, Provenance
  <2>4. Stamps'
    BY <1>4, StampsKept DEF UploadPublish, Edit, Touch, File
  <2> QED BY <2>1, <2>2, <2>3, <2>4 DEF IInv
<1>5. ASSUME UploadRecord(d) PROVE IInv'
  <2> DEFINE k == uploading[d]
             r == Recorded(d, k, file[d][k].content, FALSE, clock[d])
  <2>1. k \in Key
    BY <1>5 DEF UploadRecord, Typed
  <2>2. CASE file[d][k] = NoFile
    <3>1. UNCHANGED <<catalog, counter, issued, touched>>
      BY <1>5, <2>2 DEF UploadRecord
    <3>2. Typed' /\ Phases' /\ Provenance'
      BY <1>5, <3>1 DEF UploadRecord, Typed, Phases, Provenance
    <3> QED BY <3>1, <3>2, StampsKept
  <2>3. CASE file[d][k] # NoFile
    <3>1. Issue(d, k, r) /\ Touch(d, k)
      BY <1>5, <2>3 DEF UploadRecord
    <3>2. file[d][k].content \in Content /\ clock[d] \in Nat
      BY <2>1, <2>3 DEF Typed, File
    <3>3. Stamps'
      BY <2>1, <3>1, <3>2, IssueKeepsStamps DEF Typed
    <3>4. Provenance'
      BY <2>1, <3>1, <1>5, IssueKeepsProvenance DEF UploadRecord, Provenance
    <3>5. Typed' /\ Phases'
      BY <1>5, <2>1, <3>1 DEF UploadRecord, Issue, Touch, Typed, Phases
    <3> QED BY <3>3, <3>4, <3>5
  <2> QED BY <2>2, <2>3
<1> QED BY <1>1, <1>2, <1>3, <1>4, <1>5 DEF LocalStep

\* A session that ends takes its snapshots and its transfer with it.
LEMMA EndingKeeps ==
  ASSUME NEW d \in Device
  PROVE  IInv /\ (Fail(d) \/ Reject(d)) => IInv'
<1> SUFFICES ASSUME IInv, Fail(d) \/ Reject(d) PROVE IInv'
  OBVIOUS
<1> USE KeyAssumption, BoundAssumption
    DEF KeyAssumption, BoundAssumption, IInv, disk, session, history, SessionState, Transfers
<1>1. ASSUME Abort(d) PROVE IInv'
  <2>1. Typed'
    BY <1>1 DEF Abort, End, Goto, NoSnapshot, Typed
  <2>2. Phases'
    BY <1>1 DEF Abort, End, Goto, NoSnapshot, Typed, Phases, Provenance
  <2>3. net' \in [Device \X Device -> Seq(MessageOver(issued))]
    BY <1>1, HangupKeepsNet DEF Abort, Provenance
  <2>4. Provenance'
    BY <1>1, <2>3 DEF Abort, End, Goto, NoSnapshot, Provenance
  <2>5. Stamps'
    BY <1>1, StampsKept DEF Abort, End, Goto, NoSnapshot
  <2> QED BY <2>1, <2>2, <2>3, <2>4, <2>5
<1> QED BY <1>1 DEF Fail, Reject

\* Opening a session clears the channel and sets no data.
LEMMA OpeningKeeps ==
  ASSUME NEW d \in Device, NEW p \in Device
  PROVE  IInv /\ (Begin(d, p) \/ Answer(d, p)) => IInv'
<1> SUFFICES ASSUME IInv, Begin(d, p) \/ Answer(d, p) PROVE IInv'
  OBVIOUS
<1> USE KeyAssumption, BoundAssumption
    DEF KeyAssumption, BoundAssumption, IInv, disk, session, history, SessionState, Transfers
<1>1. ASSUME Begin(d, p) PROVE IInv'
  <2>1. Typed'
    BY <1>1 DEF Begin, Goto, Typed
  <2>2. Phases'
    BY <1>1 DEF Begin, Goto, Typed, Phases, Provenance
  <2>3. Provenance'
    BY <1>1 DEF Begin, Goto, Provenance
  <2>4. Stamps'
    BY <1>1, StampsKept DEF Begin, Goto
  <2> QED BY <2>1, <2>2, <2>3, <2>4
<1>2. ASSUME Accept(d, p) PROVE IInv'
  <2>1. Typed'
    BY <1>2 DEF Accept, Connecting, Typed
  <2>2. Phases'
    BY <1>2 DEF Accept, Connecting, Typed, Phases, Provenance
  <2>3. net' \in [Device \X Device -> Seq(MessageOver(issued))]
    BY <1>2, EmptySeq DEF Accept, Provenance
  <2>4. Provenance'
    BY <1>2, <2>3 DEF Accept, Connecting, Provenance
  <2>5. Stamps'
    BY <1>2, StampsKept DEF Accept, Connecting
  <2> QED BY <2>1, <2>2, <2>3, <2>4, <2>5
<1>3. ASSUME Refuse(d, p) PROVE IInv'
  <2>1. Typed'
    BY <1>3 DEF Refuse, Connecting, End, Goto, NoSnapshot, Typed
  <2>2. Phases'
    BY <1>3 DEF Refuse, Connecting, End, Goto, NoSnapshot, Typed, Phases, Provenance
  <2>3. Provenance'
    BY <1>3 DEF Refuse, Connecting, End, Goto, NoSnapshot, Provenance
  <2>4. Stamps'
    BY <1>3, StampsKept DEF Refuse, Connecting, End, Goto, NoSnapshot
  <2> QED BY <2>1, <2>2, <2>3, <2>4
<1> QED BY <1>1, <1>2, <1>3 DEF Answer

LEMMA IssuedIsRecord ==
  ASSUME Stamps, NEW r \in issued
  PROVE  /\ r \in ObjectRecord /\ r # NoRecord
         /\ r.content \in Content /\ r.path \in Key
BY NoRecordAssumption DEF NoRecordAssumption, Stamps, ObjectRecord

\* The initiator adopts and offers what the two snapshots hold.
LEMMA InitiatorStepKeeps ==
  ASSUME NEW d \in Device
  PROVE  IInv /\ InitiatorStep(d) => IInv'
<1> SUFFICES ASSUME IInv, InitiatorStep(d) PROVE IInv'
  OBVIOUS
<1> USE KeyAssumption, BoundAssumption
    DEF KeyAssumption, BoundAssumption, IInv, disk, session, history, SessionState, Transfers
<1>1. ASSUME StepEqual(d) PROVE IInv'
  <2>1. Typed'
    BY <1>1 DEF StepEqual, AtWinner, Typed
  <2>2. Phases'
    BY <1>1 DEF StepEqual, AtWinner, Typed, Phases, Provenance
  <2>3. Provenance'
    BY <1>1 DEF StepEqual, AtWinner, Provenance
  <2>4. Stamps'
    BY <1>1, StampsKept DEF StepEqual, AtWinner
  <2> QED BY <2>1, <2>2, <2>3, <2>4
<1>2. ASSUME StepDeleteHere(d) PROVE IInv'
  <2>0. at[d] \in Key /\ theirs[d][at[d]] \in issued /\ theirs[d][at[d]].path \in Key
    <3>1. at[d] \in Key /\ theirs[d][at[d]] # NoRecord
      BY <1>2, WinnerExists DEF StepDeleteHere, AtWinner
    <3>2. theirs[d][at[d]] \in issued
      BY <3>1 DEF Provenance
    <3> QED BY <3>1, <3>2, IssuedIsRecord
  <2>1. Typed'
    BY <1>2, <2>0 DEF StepDeleteHere, AtWinner, ApplyTombstone, File, Typed
  <2>2. Phases'
    BY <1>2, <2>0 DEF StepDeleteHere, AtWinner, ApplyTombstone, File, Typed, Phases, Provenance
  <2>3. Provenance'
    BY <1>2, <2>0 DEF StepDeleteHere, AtWinner, ApplyTombstone, File, Provenance
  <2>4. Stamps'
    BY <1>2, <2>0, StampsKept DEF StepDeleteHere, AtWinner, ApplyTombstone, File
  <2> QED BY <2>1, <2>2, <2>3, <2>4
<1>3. ASSUME StepPull(d) PROVE IInv'
  <2>0. at[d] \in Key /\ theirs[d][at[d]] \in issued /\ theirs[d][at[d]] # NoRecord
    <3>1. at[d] \in Key /\ theirs[d][at[d]] # NoRecord
      BY <1>3, WinnerExists DEF StepPull, AtWinner
    <3>2. theirs[d][at[d]] \in issued
      BY <3>1 DEF Provenance
    <3> QED BY <3>1, <3>2, IssuedIsRecord
  <2>1. Typed'
    BY <1>3, <2>0 DEF StepPull, AtWinner, Send, Goto, Typed
  <2>2. Phases'
    BY <1>3, <2>0 DEF StepPull, AtWinner, Send, Goto, Typed, Phases, Provenance
  <2>3. net' \in [Device \X Device -> Seq(MessageOver(issued))]
    <3>1. partner[d] \in Device
      BY <1>3, <2>0 DEF StepPull, AtWinner, Phases
    <3>2. Get(at[d]) \in MessageOver(issued)
      BY <1>3, <2>0, MessagesWellFormed DEF StepPull, AtWinner, Provenance, Typed
    <3> QED BY <1>3, <2>0, <3>1, <3>2, SendKeepsNet DEF StepPull, Provenance
  <2>4. Provenance'
    BY <1>3, <2>0, <2>3 DEF StepPull, AtWinner, Send, Goto, Provenance
  <2>5. Stamps'
    BY <1>3, <2>0, StampsKept DEF StepPull, AtWinner, Send, Goto
  <2> QED BY <2>1, <2>2, <2>3, <2>4, <2>5
<1>4. ASSUME StepPush(d) PROVE IInv'
  <2>0. at[d] \in Key /\ mine[d][at[d]] \in issued /\ mine[d][at[d]] # NoRecord
    <3>1. at[d] \in Key /\ mine[d][at[d]] # NoRecord
      BY <1>4, WinnerExists DEF StepPush, AtWinner
    <3>2. mine[d][at[d]] \in issued
      BY <3>1 DEF Provenance
    <3> QED BY <3>1, <3>2, IssuedIsRecord
  <2>1. Typed'
    BY <1>4, <2>0 DEF StepPush, AtWinner, Send, Goto, Typed
  <2>2. Phases'
    BY <1>4, <2>0 DEF StepPush, AtWinner, Send, Goto, Typed, Phases, Provenance
  <2>3. net' \in [Device \X Device -> Seq(MessageOver(issued))]
    <3>1. partner[d] \in Device
      BY <1>4, <2>0 DEF StepPush, AtWinner, Phases
    <3>2. PutStart(mine[d][at[d]]) \in MessageOver(issued)
      BY <1>4, <2>0, MessagesWellFormed DEF StepPush, AtWinner, Provenance, Typed
    <3> QED BY <1>4, <2>0, <3>1, <3>2, SendKeepsNet DEF StepPush, Provenance
  <2>4. Provenance'
    BY <1>4, <2>0, <2>3 DEF StepPush, AtWinner, Send, Goto, Provenance
  <2>5. Stamps'
    BY <1>4, <2>0, StampsKept DEF StepPush, AtWinner, Send, Goto
  <2> QED BY <2>1, <2>2, <2>3, <2>4, <2>5
<1>5. ASSUME StepDone(d) PROVE IInv'
  <2>1. Typed'
    BY <1>5 DEF StepDone, Goto, Typed
  <2>2. Phases'
    BY <1>5 DEF StepDone, Goto, Typed, Phases, Provenance
  <2>3. net' \in [Device \X Device -> Seq(MessageOver(issued))]
    <3>1. partner[d] \in Device
      BY <1>5 DEF StepDone, AtWinner, Phases
    <3>2. Done \in MessageOver(issued)
      BY <1>5, MessagesWellFormed DEF StepDone, AtWinner, Provenance, Typed
    <3> QED BY <1>5, <3>1, <3>2, SendKeepsNet DEF StepDone, Provenance
  <2>4. Provenance'
    BY <1>5, <2>3 DEF StepDone, Goto, Provenance
  <2>5. Stamps'
    BY <1>5, StampsKept DEF StepDone, Goto
  <2> QED BY <2>1, <2>2, <2>3, <2>4, <2>5
<1>6. ASSUME AwaitPut(d) PROVE IInv'
  <2>1. Typed'
    BY <1>6 DEF AwaitPut, Goto, Typed
  <2>2. Phases'
    BY <1>6 DEF AwaitPut, Goto, Typed, Phases, Provenance
  <2>3. net' \in [Device \X Device -> Seq(MessageOver(issued))]
    <3>1. partner[d] \in Device /\ Inbox(d) # <<>>
      BY <1>6 DEF AwaitPut, Phases, Receives, Unannounced
    <3>2. Resume \in MessageOver(issued)
      BY <1>6, <3>1, MessagesWellFormed DEF AwaitPut, Provenance, Typed
    <3> QED BY <1>6, <3>1, <3>2, ReplyKeepsNet DEF AwaitPut, Provenance
  <2>4. Provenance'
    BY <1>6, <2>3 DEF AwaitPut, Goto, Provenance
  <2>5. Stamps'
    BY <1>6, StampsKept DEF AwaitPut, Goto
  <2> QED BY <2>1, <2>2, <2>3, <2>4, <2>5
<1>7. ASSUME ReceiveDone(d) PROVE IInv'
  <2>1. Typed'
    BY <1>7 DEF ReceiveDone, End, Goto, NoSnapshot, Typed
  <2>2. Phases'
    BY <1>7 DEF ReceiveDone, End, Goto, NoSnapshot, Typed, Phases, Provenance
  <2>3. net' \in [Device \X Device -> Seq(MessageOver(issued))]
    <3>1. Inbox(d) # <<>>
      BY <1>7 DEF ReceiveDone, Receives
    <3> QED BY <1>7, <3>1, ConsumeKeepsNet DEF ReceiveDone, Provenance
  <2>4. Provenance'
    BY <1>7, <2>3 DEF ReceiveDone, End, Goto, NoSnapshot, Provenance
  <2>5. Stamps'
    BY <1>7, StampsKept DEF ReceiveDone, End, Goto, NoSnapshot
  <2> QED BY <2>1, <2>2, <2>3, <2>4, <2>5
<1> QED BY <1>1, <1>2, <1>3, <1>4, <1>5, <1>6, <1>7 DEF InitiatorStep

\* The acceptor takes over what it receives and offers rows of its catalog.
LEMMA AcceptorStepKeeps ==
  ASSUME NEW d \in Device
  PROVE  IInv /\ AcceptorStep(d) => IInv'
<1> SUFFICES ASSUME IInv, AcceptorStep(d) PROVE IInv'
  OBVIOUS
<1> USE KeyAssumption, BoundAssumption
    DEF KeyAssumption, BoundAssumption, IInv, disk, session, history, SessionState, Transfers
<1>0. ASSUME pc[d] = "serve", NEW type, Receives(d, type)
      PROVE  /\ partner[d] \in Device /\ Inbox(d) # <<>>
             /\ type = "Get" => Received(d).key \in Key
             /\ type = "PutStart" => Received(d).record \in issued
  <2>1. partner[d] \in Device /\ Inbox(d) # <<>> /\ Received(d).type = type
    BY <1>0 DEF Phases, Receives, Received
  <2> QED BY <2>1, ReceivedWellFormed DEF Provenance
<1>1. ASSUME ServeGet(d) PROVE IInv'
  <2>0. /\ Received(d).key \in Key
        /\ catalog[d][Received(d).key] \in issued
        /\ catalog[d][Received(d).key] # NoRecord
    <3>1. Received(d).key \in Key
      BY <1>1, <1>0 DEF ServeGet
    <3>2. catalog[d][Received(d).key] # NoRecord
      BY <1>1 DEF ServeGet, MissingObject, Live
    <3> QED BY <3>1, <3>2 DEF Provenance
  <2>1. Typed'
    BY <1>1, <2>0 DEF ServeGet, Goto, Typed
  <2>2. Phases'
    BY <1>1, <2>0 DEF ServeGet, Goto, Typed, Phases, Provenance
  <2>3. net' \in [Device \X Device -> Seq(MessageOver(issued))]
    <3>1. partner[d] \in Device /\ Inbox(d) # <<>>
      BY <1>1, <2>0 DEF ServeGet, Phases, Receives, Unannounced
    <3>2. PutStart(catalog[d][Received(d).key]) \in MessageOver(issued)
      BY <1>1, <2>0, <3>1, MessagesWellFormed DEF ServeGet, Provenance, Typed
    <3> QED BY <1>1, <2>0, <3>1, <3>2, ReplyKeepsNet DEF ServeGet, Provenance
  <2>4. Provenance'
    BY <1>1, <2>0, <2>3 DEF ServeGet, Goto, Provenance
  <2>5. Stamps'
    BY <1>1, <2>0, StampsKept DEF ServeGet, Goto
  <2> QED BY <2>1, <2>2, <2>3, <2>4, <2>5
<1>2. ASSUME ServeTombstone(d) PROVE IInv'
  <2>0. Received(d).record \in issued /\ Received(d).record.path \in Key
    BY <1>2, <1>0, IssuedIsRecord DEF ServeTombstone
  <2>1. Typed'
    BY <1>2, <2>0 DEF ServeTombstone, ApplyTombstone, Typed
  <2>2. Phases'
    BY <1>2, <2>0 DEF ServeTombstone, ApplyTombstone, Typed, Phases, Provenance
  <2>3. net' \in [Device \X Device -> Seq(MessageOver(issued))]
    <3>1. partner[d] \in Device /\ Inbox(d) # <<>>
      BY <1>2, <2>0 DEF ServeTombstone, Phases, Receives, Unannounced
    <3>2. Applied \in MessageOver(issued)
      BY <1>2, <2>0, <3>1, MessagesWellFormed DEF ServeTombstone, Provenance, Typed
    <3> QED BY <1>2, <2>0, <3>1, <3>2, ReplyKeepsNet DEF ServeTombstone, Provenance
  <2>4. Provenance'
    BY <1>2, <2>0, <2>3 DEF ServeTombstone, ApplyTombstone, Provenance
  <2>5. Stamps'
    BY <1>2, <2>0, StampsKept DEF ServeTombstone, ApplyTombstone
  <2> QED BY <2>1, <2>2, <2>3, <2>4, <2>5
<1>3. ASSUME ServePut(d) PROVE IInv'
  <2>0. Received(d).record \in issued /\ Received(d).record # NoRecord
    BY <1>3, <1>0, IssuedIsRecord DEF ServePut
  <2>1. Typed'
    BY <1>3, <2>0 DEF ServePut, Goto, Typed
  <2>2. Phases'
    BY <1>3, <2>0 DEF ServePut, Goto, Typed, Phases, Provenance
  <2>3. net' \in [Device \X Device -> Seq(MessageOver(issued))]
    <3>1. partner[d] \in Device /\ Inbox(d) # <<>>
      BY <1>3, <2>0 DEF ServePut, Phases, Receives, Unannounced
    <3>2. Resume \in MessageOver(issued)
      BY <1>3, <2>0, <3>1, MessagesWellFormed DEF ServePut, Provenance, Typed
    <3> QED BY <1>3, <2>0, <3>1, <3>2, ReplyKeepsNet DEF ServePut, Provenance
  <2>4. Provenance'
    BY <1>3, <2>0, <2>3 DEF ServePut, Goto, Provenance
  <2>5. Stamps'
    BY <1>3, <2>0, StampsKept DEF ServePut, Goto
  <2> QED BY <2>1, <2>2, <2>3, <2>4, <2>5
<1>4. ASSUME ServeDone(d) PROVE IInv'
  <2>1. Typed'
    BY <1>4 DEF ServeDone, End, Goto, NoSnapshot, Typed
  <2>2. Phases'
    BY <1>4 DEF ServeDone, End, Goto, NoSnapshot, Typed, Phases, Provenance
  <2>3. net' \in [Device \X Device -> Seq(MessageOver(issued))]
    <3>1. partner[d] \in Device /\ Inbox(d) # <<>>
      BY <1>4 DEF ServeDone, Phases, Receives, Unannounced
    <3>2. Done \in MessageOver(issued)
      BY <1>4, <3>1, MessagesWellFormed DEF ServeDone, Provenance, Typed
    <3> QED BY <1>4, <3>1, <3>2, ReplyKeepsNet DEF ServeDone, Provenance
  <2>4. Provenance'
    BY <1>4, <2>3 DEF ServeDone, End, Goto, NoSnapshot, Provenance
  <2>5. Stamps'
    BY <1>4, StampsKept DEF ServeDone, End, Goto, NoSnapshot
  <2> QED BY <2>1, <2>2, <2>3, <2>4, <2>5
<1> QED BY <1>1, <1>2, <1>3, <1>4 DEF AcceptorStep

\* What both ends do: a scan issues what it finds changed, a transfer commits
\* the record it was opened for.
LEMMA SharedStepKeeps ==
  ASSUME NEW d \in Device
  PROVE  IInv /\ SharedStep(d) => IInv'
<1> SUFFICES ASSUME IInv, SharedStep(d) PROVE IInv'
  OBVIOUS
<1> USE KeyAssumption, BoundAssumption
    DEF KeyAssumption, BoundAssumption, IInv, disk, session, history, SessionState, Transfers
<1>0. ASSUME pc[d] # "idle", NEW type, Receives(d, type)
      PROVE  /\ partner[d] \in Device /\ Inbox(d) # <<>>
             /\ type = "Snapshot" => Received(d).records \in [Key -> issued \cup {NoRecord}]
             /\ type = "Body" => Received(d).content \in Content
  <2>1. partner[d] \in Device /\ Inbox(d) # <<>> /\ Received(d).type = type
    BY <1>0 DEF Phases, Receives, Received
  <2> QED BY <2>1, ReceivedWellFormed DEF Provenance
<1>1. ASSUME ScanRoot(d) PROVE IInv'
  <2> DEFINE k == at[d]
             f == file[d][k]
             r == catalog[d][k]
  <2>1. k \in Key
    BY <1>1 DEF ScanRoot
  <2>2. ASSUME NEW s, mine' = [mine EXCEPT ![d][k] = s],
               s \in issued' \cup {NoRecord}, issued \subseteq issued'
        PROVE  mine' \in [Device -> [Key -> issued' \cup {NoRecord}]]
    BY <2>1, <2>2 DEF Provenance
  <2>3. ASSUME NEW c \in Content, NEW del \in BOOLEAN, NEW base \in Nat,
               Issue(d, k, Recorded(d, k, c, del, base)),
               mine' = [mine EXCEPT ![d][k] = Recorded(d, k, c, del, base)]
        PROVE  IInv'
    <3>1. Stamps'
      BY <2>1, <2>3, IssueKeepsStamps DEF Typed
    <3>2. issued \subseteq issued' /\ Recorded(d, k, c, del, base) \in issued'
      BY <2>3 DEF Issue
    <3>3. mine' \in [Device -> [Key -> issued' \cup {NoRecord}]]
      BY <2>2, <2>3, <3>2
    <3>4. Provenance'
      BY <1>1, <2>1, <2>3, <3>3, IssueKeepsProvenance DEF ScanRoot, Provenance
    <3>5. Typed' /\ Phases'
      BY <1>1, <2>1, <2>3 DEF ScanRoot, Issue, Typed, Phases
    <3> QED BY <3>1, <3>4, <3>5
  <2>4. CASE UNCHANGED <<catalog, counter, issued>> /\ mine' = [mine EXCEPT ![d][k] = r]
    <3>1. r \in issued \cup {NoRecord}
      BY <2>1 DEF Provenance
    <3>2. mine' \in [Device -> [Key -> issued' \cup {NoRecord}]]
      BY <2>2, <2>4, <3>1
    <3>3. Provenance'
      BY <1>1, <2>4, <3>2 DEF ScanRoot, Provenance
    <3>4. Typed' /\ Phases'
      BY <1>1, <2>1, <2>4 DEF ScanRoot, Typed, Phases
    <3>5. Stamps'
      BY <2>4, StampsKept
    <3> QED BY <3>3, <3>4, <3>5
  <2>5. CASE /\ f # NoFile
             /\ Issue(d, k, Recorded(d, k, f.content, FALSE, f.mtime))
             /\ mine' = [mine EXCEPT ![d][k] = Recorded(d, k, f.content, FALSE, f.mtime)]
    <3>1. f.content \in Content /\ f.mtime \in Nat
      BY <2>1, <2>5 DEF Typed, File
    <3> QED BY <2>3, <2>5, <3>1
  <2>6. CASE /\ Live(r)
             /\ Issue(d, k, Recorded(d, k, r.content, TRUE, clock[d]))
             /\ mine' = [mine EXCEPT ![d][k] = Recorded(d, k, r.content, TRUE, clock[d])]
    <3>1. r \in issued
      BY <2>1, <2>6 DEF Provenance, Live
    <3>2. r.content \in Content /\ clock[d] \in Nat
      BY <3>1, IssuedIsRecord DEF Typed
    <3> QED BY <2>3, <2>6, <3>2
  <2> QED BY <1>1, <2>4, <2>5, <2>6 DEF ScanRoot
<1>2. ASSUME SendSnapshot(d) PROVE IInv'
  <2>1. Typed'
    BY <1>2 DEF SendSnapshot, Goto, Typed
  <2>2. Phases'
    BY <1>2 DEF SendSnapshot, Goto, Typed, Phases, Provenance
  <2>3. net' \in [Device \X Device -> Seq(MessageOver(issued))]
    <3>1. partner[d] \in Device
      BY <1>2 DEF SendSnapshot, AtWinner, Phases
    <3>2. Snapshot(mine[d]) \in MessageOver(issued)
      BY <1>2, MessagesWellFormed DEF SendSnapshot, AtWinner, Provenance, Typed
    <3> QED BY <1>2, <3>1, <3>2, SendKeepsNet DEF SendSnapshot, Provenance
  <2>4. Provenance'
    BY <1>2, <2>3 DEF SendSnapshot, Goto, Provenance
  <2>5. Stamps'
    BY <1>2, StampsKept DEF SendSnapshot, Goto
  <2> QED BY <2>1, <2>2, <2>3, <2>4, <2>5
<1>3. ASSUME ReceiveSnapshot(d) PROVE IInv'
  <2>1. Typed'
    BY <1>3 DEF ReceiveSnapshot, Goto, Typed
  <2>2. Phases'
    BY <1>3, <1>0 DEF ReceiveSnapshot, Goto, Typed, Phases, Provenance
  <2>3. net' \in [Device \X Device -> Seq(MessageOver(issued))]
    <3>1. Inbox(d) # <<>>
      BY <1>3 DEF ReceiveSnapshot, Receives
    <3> QED BY <1>3, <3>1, ConsumeKeepsNet DEF ReceiveSnapshot, Provenance
  <2>4. Provenance'
    BY <1>3, <2>3, <1>0 DEF ReceiveSnapshot, Goto, Provenance
  <2>5. Stamps'
    BY <1>3, StampsKept DEF ReceiveSnapshot, Goto
  <2> QED BY <2>1, <2>2, <2>3, <2>4, <2>5
<1>4. ASSUME SendBody(d) PROVE IInv'
  <2>0. file[d][item[d].path].content \in Content
    <3>1. item[d] \in issued
      BY <1>4 DEF SendBody, Phases, Provenance
    <3>2. item[d].path \in Key
      BY <3>1, IssuedIsRecord
    <3>3. file[d][item[d].path] # NoFile
      BY <1>4 DEF SendBody, SourceGone
    <3> QED BY <3>2, <3>3 DEF Typed, File
  <2>1. Typed'
    BY <1>4, <2>0 DEF SendBody, Goto, Typed
  <2>2. Phases'
    BY <1>4, <2>0 DEF SendBody, Goto, Typed, Phases, Provenance
  <2>3. net' \in [Device \X Device -> Seq(MessageOver(issued))]
    <3>1. partner[d] \in Device /\ Inbox(d) # <<>>
      BY <1>4, <2>0 DEF SendBody, Phases, Receives, Unannounced
    <3>2. Body(file[d][item[d].path].content) \in MessageOver(issued)
      BY <1>4, <2>0, <3>1, MessagesWellFormed DEF SendBody, Provenance, Typed
    <3> QED BY <1>4, <2>0, <3>1, <3>2, ReplyKeepsNet DEF SendBody, Provenance
  <2>4. Provenance'
    BY <1>4, <2>0, <2>3 DEF SendBody, Goto, Provenance
  <2>5. Stamps'
    BY <1>4, <2>0, StampsKept DEF SendBody, Goto
  <2> QED BY <2>1, <2>2, <2>3, <2>4, <2>5
<1>5. ASSUME ReceiveBody(d) PROVE IInv'
  <2>0. /\ item[d] \in issued /\ item[d].path \in Key /\ item[d].content \in Content
        /\ role[d] = "initiator" => at[d] \in Key
    <3>1. item[d] \in issued /\ (role[d] = "initiator" => at[d] \in Key)
      BY <1>5 DEF ReceiveBody, Phases, Provenance
    <3> QED BY <3>1, IssuedIsRecord
  <2>1. Typed'
    <3>1. [content |-> item[d].content, mtime |-> clock[d]] \in File
      BY <2>0 DEF File, Typed
    <3>2. file' \in [Device -> [Key -> File \cup {NoFile}]]
      BY <1>5, <2>0, <3>1 DEF ReceiveBody, Commit, Typed
    <3>3. at' \in [Device -> 1..(Last + 1)]
      <4>1. CASE role[d] = "initiator"
        <5>1. at' = [at EXCEPT ![d] = at[d] + 1]
          BY <1>5, <4>1 DEF ReceiveBody, Proceed
        <5>2. at[d] + 1 \in 1..(Last + 1)
          BY <2>0, <4>1
        <5> QED BY <5>1, <5>2 DEF Typed
      <4>2. CASE role[d] # "initiator"
        BY <1>5, <4>2 DEF ReceiveBody, Proceed, Typed
      <4> QED BY <4>1, <4>2
    <3>4. pc' \in [Device -> SessionState]
      <4>1. pc' = [pc EXCEPT ![d] = "step"] \/ pc' = [pc EXCEPT ![d] = "serve"]
        BY <1>5 DEF ReceiveBody, Proceed, Goto
      <4> QED BY <4>1 DEF Typed
    <3> QED BY <1>5, <3>2, <3>3, <3>4 DEF ReceiveBody, Commit, Proceed, Typed
  <2>2. Phases'
    BY <1>5, <2>0 DEF ReceiveBody, Commit, Proceed, Goto, File, Typed, Phases, Provenance
  <2>3. net' \in [Device \X Device -> Seq(MessageOver(issued))]
    <3>1. partner[d] \in Device /\ Inbox(d) # <<>>
      BY <1>5, <2>0 DEF ReceiveBody, Phases, Receives, Unannounced
    <3>2. Applied \in MessageOver(issued)
      BY <1>5, <2>0, <3>1, MessagesWellFormed DEF ReceiveBody, Provenance, Typed
    <3> QED BY <1>5, <2>0, <3>1, <3>2, ReplyKeepsNet DEF ReceiveBody, Provenance
  <2>4. Provenance'
    BY <1>5, <2>0, <2>3 DEF ReceiveBody, Commit, Proceed, Goto, File, Provenance
  <2>5. Stamps'
    BY <1>5, <2>0, StampsKept DEF ReceiveBody, Commit, Proceed, Goto, File
  <2> QED BY <2>1, <2>2, <2>3, <2>4, <2>5
<1>6. ASSUME ReceiveApplied(d) PROVE IInv'
  <2>0. role[d] = "initiator" => at[d] \in Key
    BY <1>6 DEF ReceiveApplied, Phases
  <2>1. Typed'
    BY <1>6, <2>0 DEF ReceiveApplied, Proceed, Goto, Typed
  <2>2. Phases'
    BY <1>6, <2>0 DEF ReceiveApplied, Proceed, Goto, Typed, Phases, Provenance
  <2>3. net' \in [Device \X Device -> Seq(MessageOver(issued))]
    <3>1. Inbox(d) # <<>>
      BY <1>6, <2>0 DEF ReceiveApplied, Receives
    <3> QED BY <1>6, <2>0, <3>1, ConsumeKeepsNet DEF ReceiveApplied, Provenance
  <2>4. Provenance'
    BY <1>6, <2>0, <2>3 DEF ReceiveApplied, Proceed, Goto, Provenance
  <2>5. Stamps'
    BY <1>6, <2>0, StampsKept DEF ReceiveApplied, Proceed, Goto
  <2> QED BY <2>1, <2>2, <2>3, <2>4, <2>5
<1>7. ASSUME Reject(d) PROVE IInv'
  BY <1>7, EndingKeeps
<1> QED BY <1>1, <1>2, <1>3, <1>4, <1>5, <1>6, <1>7 DEF SharedStep

THEOREM IInvInductive == IInv /\ [Next]_vars => IInv'
<1> SUFFICES ASSUME IInv, [Next]_vars PROVE IInv'
  OBVIOUS
<1>1. CASE UNCHANGED vars
  BY <1>1, StutterKeeps
<1>2. ASSUME NEW d \in Device, LocalStep(d) PROVE IInv'
  BY <1>2, LocalStepKeeps
<1>3. ASSUME NEW d \in Device, SessionStep(d) PROVE IInv'
  BY <1>3, InitiatorStepKeeps, AcceptorStepKeeps, SharedStepKeeps DEF SessionStep
<1>4. ASSUME NEW d \in Device, NEW p \in Device, Begin(d, p) \/ Answer(d, p) PROVE IInv'
  BY <1>4, OpeningKeeps
<1>5. ASSUME NEW d \in Device, Fail(d) PROVE IInv'
  BY <1>5, EndingKeeps
<1> QED BY <1>1, <1>2, <1>3, <1>4, <1>5 DEF Next

THEOREM Invariance == Spec => []IInv
BY InitIInv, IInvInductive, PTL DEF Spec
-----------------------------------------------------------------------------
(* What follows from it. *)

\* Every variable keeps its type.
THEOREM TypeCorrect == Spec => []TypeOK
<1>1. IInv => TypeOK
  <2> SUFFICES ASSUME IInv PROVE TypeOK
    OBVIOUS
  <2>1. issued \cup {NoRecord} \subseteq ObjectRecord \cup {NoRecord}
    BY DEF IInv, Stamps
  <2>2. net \in [Device \X Device -> Seq(Message)]
    BY NetMonotone DEF IInv, Provenance, Stamps, Message
  <2>3. /\ catalog \in [Device -> [Key -> ObjectRecord \cup {NoRecord}]]
        /\ mine \in [Device -> [Key -> ObjectRecord \cup {NoRecord}]]
        /\ theirs \in [Device -> [Key -> ObjectRecord \cup {NoRecord}]]
        /\ item \in [Device -> ObjectRecord \cup {NoRecord}]
    BY <2>1 DEF IInv, Provenance
  <2>4. issued \subseteq ObjectRecord
    BY DEF IInv, Stamps
  <2> QED BY <2>2, <2>3, <2>4 DEF IInv, Typed, TypeOK
<1> QED BY <1>1, Invariance, PTL

\* A version names one object state: devices that hold equal versions hold the
\* same record, so nothing is lost by transferring neither (summary.rs:23).
THEOREM OneObjectPerVersion == Spec => []VersionDeterminesObject
<1>1. IInv => VersionDeterminesObject
  <2>1. SUFFICES ASSUME IInv, NEW d \in Device, NEW r \in Rows(d)
                 PROVE  r \in issued
    BY <2>1 DEF VersionDeterminesObject, IInv, Stamps
  <2> QED BY <2>1 DEF IInv, Provenance, Rows
<1> QED BY <1>1, Invariance, PTL

LEMMA IssueRefines ==
  ASSUME IInv, NEW d \in Device, NEW k \in Key, NEW c \in Content,
         NEW del \in BOOLEAN, NEW base \in Nat,
         Issue(d, k, Recorded(d, k, c, del, base))
  PROVE  Store!StoreNext
<1> DEFINE r == Recorded(d, k, c, del, base)
<1>1. /\ r \in ObjectRecord
      /\ \A s \in issued : s.version # r.version
  BY IssueKeepsStamps DEF IInv, Typed
<1>2. r.path = k /\ r.version.origin = d
  BY DEF Recorded, NextVersion
<1>3. /\ catalog' = [catalog EXCEPT ![d][k] = r]
      /\ issued' = issued \cup {r}
  BY DEF Issue
<1> HIDE DEF r
<1>4. catalog'[d][k] = r
  BY <1>3 DEF IInv, Provenance
<1>5. Store!Issue(d, k, catalog'[d][k])
  BY <1>1, <1>2, <1>3, <1>4
  DEF Store!Issue, Store!ObjectRecord, ObjectRecord, Store!VersionStamp, VersionStamp
<1> QED BY <1>5 DEF Store!StoreNext

LEMMA AdoptRefines ==
  ASSUME IInv, NEW d \in Device, NEW r \in issued,
         catalog' = [catalog EXCEPT ![d][r.path] = r], UNCHANGED issued
  PROVE  Store!StoreNext
<1>1. r.path \in Key
  BY IssuedIsRecord DEF IInv
<1>2. catalog'[d][r.path] = r
  BY <1>1 DEF IInv, Provenance
<1>3. Store!Adopt(d, r.path, catalog'[d][r.path])
  BY <1>2 DEF Store!Adopt
<1> QED BY <1>1, <1>3 DEF Store!StoreNext

\* A step outside a session issues a record or leaves the catalogs alone.
LEMMA LocalStepRefines ==
  ASSUME IInv, NEW d \in Device, LocalStep(d)
  PROVE  Store!StoreNext \/ UNCHANGED <<catalog, issued>>
<1> USE DEF IInv
<1>1. CASE UploadRecord(d)
  <2> DEFINE k == uploading[d]
             r == Recorded(d, k, file[d][k].content, FALSE, clock[d])
  <2>1. k \in Key
    BY <1>1 DEF UploadRecord, Typed
  <2>2. CASE file[d][k] = NoFile
    BY <1>1, <2>2 DEF UploadRecord
  <2>3. CASE file[d][k] # NoFile
    <3>1. Issue(d, k, r)
      BY <1>1, <2>3 DEF UploadRecord
    <3>2. file[d][k].content \in Content /\ clock[d] \in Nat
      BY <2>1, <2>3 DEF Typed, File
    <3> QED BY <2>1, <3>1, <3>2, IssueRefines
  <2> QED BY <2>2, <2>3
<1>2. CASE Tick(d)
  BY <1>2 DEF Tick, disk, history
<1>3. ASSUME NEW k \in Key, NEW c \in Content, NEW t,
             UserWrite(d, k, c, t) \/ UserDelete(d, k) \/ UploadPublish(d, k, c)
      PROVE  UNCHANGED <<catalog, issued>>
  BY <1>3 DEF UserWrite, UserDelete, UploadPublish
<1>4. ASSUME NEW k \in Key, UserDelete(d, k) PROVE UNCHANGED <<catalog, issued>>
  BY <1>4 DEF UserDelete
<1> QED BY <1>1, <1>2, <1>3, <1>4 DEF LocalStep

\* A step of a session adopts one issued record, issues one while it scans, or
\* leaves the catalogs alone.
LEMMA SessionStepRefines ==
  ASSUME IInv, NEW d \in Device, SessionStep(d)
  PROVE  Store!StoreNext \/ UNCHANGED <<catalog, issued>>
<1> USE DEF IInv
<1>1. CASE StepDeleteHere(d)
  <2>1. at[d] \in Key /\ theirs[d][at[d]] # NoRecord
    BY <1>1, WinnerExists DEF StepDeleteHere, AtWinner
  <2>2. theirs[d][at[d]] \in issued
    BY <2>1 DEF Provenance
  <2> QED BY <1>1, <2>2, AdoptRefines DEF StepDeleteHere, ApplyTombstone, history
<1>2. CASE ServeTombstone(d)
  <2>1. partner[d] \in Device /\ Inbox(d) # <<>> /\ Received(d).type = "PutStart"
    BY <1>2 DEF ServeTombstone, Phases, Receives, Received
  <2>2. Received(d).record \in issued
    BY <2>1, ReceivedWellFormed DEF Provenance
  <2> QED BY <1>2, <2>2, AdoptRefines DEF ServeTombstone, ApplyTombstone, history
<1>3. CASE ReceiveBody(d)
  <2>1. item[d] \in issued
    BY <1>3 DEF ReceiveBody, Phases, Provenance, Transfers
  <2> QED BY <1>3, <2>1, AdoptRefines DEF ReceiveBody, Commit, history
<1>4. CASE ScanRoot(d)
  <2> DEFINE k == at[d]
             f == file[d][k]
             r == catalog[d][k]
  <2>1. k \in Key
    BY <1>4 DEF ScanRoot
  <2>2. CASE UNCHANGED <<catalog, counter, issued>>
    BY <2>2
  <2>3. CASE f # NoFile /\ Issue(d, k, Recorded(d, k, f.content, FALSE, f.mtime))
    <3>1. f.content \in Content /\ f.mtime \in Nat
      BY <2>1, <2>3 DEF Typed, File
    <3> QED BY <2>1, <2>3, <3>1, IssueRefines
  <2>4. CASE Live(r) /\ Issue(d, k, Recorded(d, k, r.content, TRUE, clock[d]))
    <3>1. r \in issued
      BY <2>1, <2>4 DEF Provenance, Live
    <3>2. r.content \in Content /\ clock[d] \in Nat
      BY <3>1, IssuedIsRecord DEF Typed
    <3> QED BY <2>1, <2>4, <3>2, IssueRefines
  <2> QED BY <1>4, <2>2, <2>3, <2>4 DEF ScanRoot
<1>5. CASE StepEqual(d) \/ StepPull(d) \/ StepPush(d) \/ StepDone(d)
  BY <1>5 DEF StepEqual, StepPull, StepPush, StepDone, disk, history
<1>6. CASE AwaitPut(d) \/ SendBody(d) \/ ReceiveApplied(d) \/ ReceiveDone(d)
  BY <1>6 DEF AwaitPut, SendBody, ReceiveApplied, ReceiveDone, disk, history
<1>7. CASE ServeGet(d) \/ ServePut(d) \/ ServeDone(d)
  BY <1>7 DEF ServeGet, ServePut, ServeDone, disk, history
<1>8. CASE SendSnapshot(d) \/ ReceiveSnapshot(d) \/ Reject(d)
  BY <1>8 DEF SendSnapshot, ReceiveSnapshot, Reject, Abort, disk, history
<1> QED BY <1>1, <1>2, <1>3, <1>4, <1>5, <1>6, <1>7, <1>8
    DEF SessionStep, InitiatorStep, AcceptorStep, SharedStep

\* The catalogs of devices that synchronize, edit, fail and restart at will are
\* an abstract store: each row was issued once for its object, none is invented.
THEOREM Refinement == Spec => ImplementsStore
<1>1. Init => Store!StoreInit
  BY DEF Init, Store!StoreInit, NoSnapshot
<1>2. IInv /\ [Next]_vars => [Store!StoreNext]_(Store!storeVars)
  <2> SUFFICES ASSUME IInv, [Next]_vars
               PROVE  Store!StoreNext \/ UNCHANGED <<catalog, issued>>
    BY DEF Store!storeVars
  <2>1. CASE UNCHANGED vars
    BY <2>1 DEF vars
  <2>2. ASSUME NEW d \in Device, LocalStep(d)
        PROVE  Store!StoreNext \/ UNCHANGED <<catalog, issued>>
    BY <2>2, LocalStepRefines
  <2>3. ASSUME NEW d \in Device, SessionStep(d)
        PROVE  Store!StoreNext \/ UNCHANGED <<catalog, issued>>
    BY <2>3, SessionStepRefines
  <2>4. ASSUME NEW d \in Device, NEW p \in Device, Begin(d, p) \/ Answer(d, p)
        PROVE  UNCHANGED <<catalog, issued>>
    BY <2>4 DEF Begin, Answer, Accept, Refuse, disk, history
  <2>5. ASSUME NEW d \in Device, Fail(d)
        PROVE  UNCHANGED <<catalog, issued>>
    BY <2>5 DEF Fail, Abort, disk, history
  <2> QED BY <2>1, <2>2, <2>3, <2>4, <2>5 DEF Next
<1> QED BY <1>1, <1>2, Invariance, PTL DEF Spec, ImplementsStore, Store!StoreSpec
=============================================================================
