----------------------------- MODULE StoreProofs -----------------------------
(***************************************************************************)
(* What holds of DeviceStore for any contents and any number of writes:    *)
(* the sync thread, the upload thread, the user, failed system calls and   *)
(* crashes at any point of a publication.                                  *)
(*                                                                         *)
(* The inductive invariant says what a thread has at hand where it is      *)
(* (AtHand), whose file is at the path while nobody raced (Own), that no   *)
(* two files share a modification time (Dated), that the metadata a thread *)
(* or the catalog holds names the content it was read with (Told), and     *)
(* where the content of a live row is to be found (Accounted).             *)
(***************************************************************************)
EXTENDS DeviceStore, TLAPS

\* What a thread needs for its next step is there.
AtHand ==
  /\ \A t \in Thread :
       pc[t] \notin {"idle", "collected"} => work[t] \in Content
  /\ pc["sync"] \in {"idle", "collected", "moving", "renaming", "chmod", "storing",
                     "burying", "entombing"}
  /\ pc["upload"] \in {"idle", "moving", "renaming", "stating", "hashing", "storing"}
  /\ pc["upload"] \in {"hashing", "storing"} => stat["upload"] \in Stat
  /\ pc["upload"] = "storing" => stat["upload"].hash \in Content

\* Unless somebody raced, the path is empty or holds what the thread published.
Own ==
  ~raced => \A t \in Thread :
    /\ pc[t] = "renaming" => file = NoFile
    /\ pc[t] \in {"chmod", "stating", "hashing", "storing"} =>
         file # NoFile /\ file.content = work[t]

Kept == {f \in trash \cup {file} : f # NoFile}

Dated ==
  /\ \A f \in Kept : f.mtime <= now
  /\ \A f, g \in Kept : f.mtime = g.mtime => f = g

\* The time of a file and the content go together, for every file there is.
Names(mtime, content) ==
  /\ mtime <= now
  /\ \A f \in Kept : f.mtime = mtime => f.content = content

RowTold == LiveRow /\ ~torn => Names(row.mtime, row.hash)

StatTold ==
  /\ pc["upload"] \in {"hashing", "storing"} => stat["upload"].mtime <= now
  /\ pc["upload"] = "storing" /\ ~stat["upload"].torn =>
       Names(stat["upload"].mtime, stat["upload"].hash)
  /\ pc["upload"] = "storing" /\ ~raced => stat["upload"].hash = work["upload"]

Told == RowTold /\ StatTold

Accounted ==
  LiveRow /\ ~raced =>
    \/ row.hash \in Contents(trash) \cup withdrawn
    \/ file # NoFile /\ file.content = row.hash

IInv == TypeOK /\ AtHand /\ Own /\ Dated /\ Told /\ Accounted /\ OnlyRacesLose
-----------------------------------------------------------------------------
(* Files. *)

\* Files that are moved or removed keep the times apart and what they name.
LEMMA MovedFiles ==
  ASSUME IInv, Kept' \subseteq Kept, now' = now
  PROVE  Dated' /\ \A m, c : Names(m, c) => Names(m, c)'
BY DEF IInv, Dated, Names

\* A write has a time of its own.
LEMMA WrittenFile ==
  ASSUME IInv, NEW c \in Content, trash' = trash,
         now' = now + 1, file' = [content |-> c, mtime |-> now + 1]
  PROVE  /\ Dated' /\ file' \in File
         /\ \A m \in Nat : \A d : Names(m, d) => Names(m, d)'
PROOF
<1>1. now \in Nat /\ \A f \in Kept : f.mtime <= now /\ f.mtime \in Nat
  BY DEF IInv, TypeOK, Dated, Kept, File
<1>2. file' \in File /\ file'.mtime = now + 1 /\ file' # NoFile
  BY <1>1, NothingAssumption DEF File
<1>3. Kept' \subseteq Kept \cup {file'}
  BY DEF Kept
<1>4. \A f \in Kept' : (f \in Kept /\ f.mtime <= now) \/ f = file'
  BY <1>1, <1>3
<1>5. Dated'
  <2>1. \A f \in Kept' : f.mtime <= now'
    BY <1>1, <1>2, <1>4
  <2>2. \A f, g \in Kept' : f.mtime = g.mtime => f = g
    BY <1>1, <1>2, <1>4 DEF IInv, Dated
  <2> QED BY <2>1, <2>2 DEF Dated
<1>6. ASSUME NEW m \in Nat, NEW d, Names(m, d) PROVE Names(m, d)'
  <2>1. m <= now /\ m <= now'
    BY <1>1, <1>6 DEF Names
  <2>2. \A f \in Kept' : f.mtime = m => f.content = d
    BY <1>1, <1>2, <1>4, <1>6, <2>1 DEF Names
  <2> QED BY <2>1, <2>2 DEF Names
<1> QED BY <1>2, <1>5, <1>6

\* What is read from the file at the path names its content.
LEMMA PathNames ==
  ASSUME IInv, file # NoFile
  PROVE  /\ file \in File /\ file.content \in Content /\ file.mtime \in Nat
         /\ file.mtime <= now /\ Names(file.mtime, file.content)
PROOF
<1>1. file \in File /\ file \in Kept
  BY DEF IInv, TypeOK, Kept
<1> QED BY <1>1 DEF IInv, Dated, Names, File

LEMMA StatIsStat ==
  ASSUME NEW f \in File
  PROVE  /\ StatOf(f) \in Stat /\ StatOf(f) # Nothing
         /\ StatOf(f).size = Size[f.content] /\ StatOf(f).mtime = f.mtime
         /\ StatOf(f).size \in Nat
PROOF
<1>1. f.content \in Content /\ f.mtime \in Nat
  BY DEF File
<1>2. Size[f.content] \in Nat
  BY <1>1, SizeAssumption
<1>3. StatOf(f) \in Stat
  BY <1>1, <1>2 DEF StatOf, Stat
<1> QED BY <1>2, <1>3, NothingAssumption DEF StatOf
-----------------------------------------------------------------------------
(* The user. *)

LEMMA InitInv == Init => IInv
PROOF
<1> SUFFICES ASSUME Init PROVE IInv
  OBVIOUS
<1>1. TypeOK
  BY DEF Init, TypeOK
<1>2. AtHand
  BY DEF Init, AtHand, Thread
<1>3. Own /\ OnlyRacesLose
  BY DEF Init, Own, OnlyRacesLose, Thread
<1>4. Dated
  BY DEF Init, Dated, Kept
<1>5. Told /\ Accounted
  BY DEF Init, Told, RowTold, StatTold, Accounted, LiveRow, Thread
<1> QED BY <1>1, <1>2, <1>3, <1>4, <1>5 DEF IInv

\* Nobody publishes if a write of somebody else is no race.
LEMMA NoRace ==
  ASSUME NEW t, Race(t)
  PROVE  /\ raced => raced'
         /\ ~raced' => \A u \in Thread \ {t} : ~Publishing(u)
BY DEF Race

LEMMA UserKeeps ==
  ASSUME IInv, UserStep
  PROVE  IInv'
PROOF
<1>1. /\ UNCHANGED <<trash, row, pc, work, moved, stat, lost, torn>>
      /\ Race("user") /\ Remember
  BY DEF UserStep, UserWrite, UserDelete, threads
<1>2. (raced => raced') /\ (~raced' => \A u \in Thread : ~Publishing(u))
  BY <1>1, NoRace DEF Thread
<1>3. /\ Dated' /\ file' \in File \cup {NoFile} /\ now' \in Nat /\ now <= now'
      /\ \A m \in Nat : \A d : Names(m, d) => Names(m, d)'
  <2>1. CASE UserDelete
    <3>1. Kept' \subseteq Kept /\ now' = now /\ file' = NoFile
      BY <2>1, NothingAssumption DEF UserDelete, Kept
    <3> QED BY <3>1, MovedFiles DEF IInv, TypeOK
  <2>2. ASSUME NEW c \in Content, UserWrite(c)
        PROVE  /\ Dated' /\ file' \in File \cup {NoFile} /\ now' \in Nat /\ now <= now'
               /\ \A m \in Nat : \A d : Names(m, d) => Names(m, d)'
    BY <2>2, WrittenFile DEF UserWrite, IInv, TypeOK
  <2> QED BY <2>1, <2>2 DEF UserStep
<1>4. raced' \in BOOLEAN /\ withdrawn' \subseteq Content
  BY <1>1, PathNames DEF Race, Remember, IInv, TypeOK
<1>5. TypeOK'
  BY <1>1, <1>3, <1>4 DEF IInv, TypeOK
<1>6. AtHand'
  BY <1>1 DEF IInv, AtHand
<1>7. Own'
  BY <1>1, <1>2 DEF Own, Publishing
<1>8. Told'
  <2>1. LiveRow' <=> LiveRow
    BY <1>1 DEF LiveRow
  <2>2. LiveRow => row.mtime \in Nat
    BY DEF IInv, TypeOK, LiveRow, Row
  <2>3. pc["upload"] \in {"hashing", "storing"} => stat["upload"].mtime \in Nat
    BY DEF IInv, AtHand, Stat
  <2>4. stat["upload"].mtime <= now /\ stat["upload"].mtime \in Nat =>
          stat["upload"].mtime <= now'
    BY <1>3 DEF IInv, TypeOK
  <2> QED BY <1>1, <1>2, <1>3, <2>1, <2>2, <2>3, <2>4 DEF IInv, Told, RowTold, StatTold
<1>9. Accounted'
  <2>1. file # NoFile => file.content \in withdrawn'
    BY <1>1 DEF Remember
  <2>2. withdrawn \subseteq withdrawn'
    BY <1>1 DEF Remember
  <2> QED BY <1>1, <1>2, <2>1, <2>2 DEF IInv, Accounted, LiveRow, Contents
<1>10. OnlyRacesLose'
  BY <1>1, <1>2 DEF IInv, OnlyRacesLose
<1> QED BY <1>3, <1>5, <1>6, <1>7, <1>8, <1>9, <1>10 DEF IInv
-----------------------------------------------------------------------------
(* Steps that leave the files alone. *)

Late == {"chmod", "stating", "hashing", "storing"}

\* No thread is at the path that was not there before.
NoneNew ==
  \A u \in Thread :
    /\ pc'[u] = "renaming" => pc[u] = "renaming"
    /\ pc'[u] \in Late => pc[u] \in Late /\ work'[u] = work[u]

\* A thread that goes on with its own state, or ends, keeps what is said of the
\* files.
LEMMA FilesStay ==
  ASSUME IInv, UNCHANGED <<file, trash, now, lost, withdrawn, raced>>, NoneNew
  PROVE  /\ Own' /\ Dated' /\ OnlyRacesLose'
         /\ \A m, c : Names(m, c) => Names(m, c)'
         /\ UNCHANGED <<row, torn>> => RowTold' /\ Accounted'
PROOF
<1>1. Own'
  BY DEF IInv, Own, NoneNew, Late
<1>2. Kept' = Kept
  BY DEF Kept
<1>3. Dated' /\ \A m, c : Names(m, c) => Names(m, c)'
  BY <1>2, MovedFiles
<1>4. OnlyRacesLose'
  BY DEF IInv, OnlyRacesLose
<1>5. ASSUME UNCHANGED <<row, torn>> PROVE RowTold' /\ Accounted'
  <2>1. LiveRow' <=> LiveRow
    BY <1>5 DEF LiveRow
  <2> QED BY <1>3, <1>5, <2>1 DEF IInv, Told, RowTold, Accounted, Contents
<1> QED BY <1>1, <1>3, <1>4, <1>5

\* A thread that stops leaves nothing behind.
Stops ==
  \A u \in Thread :
    /\ pc'[u] \in {"idle", pc[u]}
    /\ pc'[u] # "idle" => work'[u] = work[u] /\ stat'[u] = stat[u]

ThreadsTyped ==
  /\ pc \in [Thread -> {"idle", "collected", "moving", "renaming", "chmod", "stating",
                        "hashing", "storing", "burying", "entombing"}]
  /\ work \in [Thread -> Content \cup {Nothing}]
  /\ moved \in [Thread -> File \cup {Nothing}]
  /\ stat \in [Thread -> Stat \cup {Nothing}]

LEMMA FinishStops ==
  ASSUME IInv, NEW t \in Thread, Finish(t)
  PROVE  Stops /\ ThreadsTyped' /\ pc'[t] = "idle"
PROOF
<1>1. /\ pc' = [pc EXCEPT ![t] = "idle"] /\ work' = [work EXCEPT ![t] = Nothing]
      /\ moved' = [moved EXCEPT ![t] = Nothing] /\ stat' = [stat EXCEPT ![t] = Nothing]
  BY DEF Finish, Goto
<1>2. ThreadsTyped
  BY DEF IInv, TypeOK, ThreadsTyped
<1>3. ThreadsTyped'
  BY <1>1, <1>2 DEF ThreadsTyped
<1> QED BY <1>1, <1>2, <1>3 DEF Stops, ThreadsTyped

LEMMA StoppedAtHand ==
  ASSUME IInv, Stops
  PROVE  AtHand' /\ NoneNew
PROOF
<1>1. AtHand'
  BY DEF IInv, AtHand, Stops, Thread
<1> QED BY <1>1 DEF Stops, NoneNew, Late

LEMMA StoppedStat ==
  ASSUME IInv, Stops, now' = now, raced => raced',
         \A m \in Nat : \A d : Names(m, d) => Names(m, d)'
  PROVE  StatTold'
PROOF
<1>1. pc'["upload"] # "idle" => /\ pc'["upload"] = pc["upload"]
                                /\ stat'["upload"] = stat["upload"]
                                /\ work'["upload"] = work["upload"]
  BY DEF Stops, Thread
<1>2. pc["upload"] \in {"hashing", "storing"} => stat["upload"].mtime \in Nat
  BY DEF IInv, AtHand, Stat
<1> QED BY <1>1, <1>2 DEF IInv, Told, StatTold

\* A thread ends after it stored a row, or without.
LEMMA EndKeeps ==
  ASSUME IInv, Stops, ThreadsTyped', UNCHANGED <<file, trash, now, lost, withdrawn, raced>>,
         row' \in Row \cup {NoRow}, torn' \in BOOLEAN, RowTold', Accounted'
  PROVE  IInv'
PROOF
<1>1. TypeOK'
  BY DEF IInv, TypeOK, ThreadsTyped
<1>2. AtHand' /\ NoneNew
  BY StoppedAtHand
<1>3. Own' /\ Dated' /\ OnlyRacesLose' /\ \A m, c : Names(m, c) => Names(m, c)'
  BY <1>2, FilesStay
<1>4. StatTold'
  BY <1>3, StoppedStat
<1> QED BY <1>1, <1>2, <1>3, <1>4 DEF IInv, Told

\* A thread goes on with its own state only.
LEMMA GoingOnKeeps ==
  ASSUME IInv, UNCHANGED <<file, trash, row, now, history>>, ThreadsTyped', AtHand',
         NoneNew, StatTold'
  PROVE  IInv'
PROOF
<1>1. /\ UNCHANGED <<file, trash, now, lost, withdrawn, raced, row, torn>>
  BY DEF history, seen
<1>2. TypeOK'
  BY <1>1 DEF IInv, TypeOK, ThreadsTyped
<1>3. Own' /\ Dated' /\ OnlyRacesLose' /\ RowTold' /\ Accounted'
  BY <1>1, FilesStay
<1> QED BY <1>2, <1>3 DEF IInv, Told
-----------------------------------------------------------------------------
(* The scan and the storing of rows. *)

LEMMA CollectKeeps ==
  ASSUME IInv, CollectFiles
  PROVE  IInv'
PROOF
<1> DEFINE s == IF file = NoFile THEN Nothing ELSE StatOf(file)
<1>1. s \in Stat \cup {Nothing}
  BY StatIsStat, PathNames
<1> HIDE DEF s
<1>2. /\ pc' = [pc EXCEPT !["sync"] = "collected"] /\ stat' = [stat EXCEPT !["sync"] = s]
      /\ UNCHANGED <<file, trash, row, work, moved, now, history>>
  BY DEF CollectFiles, Goto, s
<1>3. ThreadsTyped
  BY DEF IInv, TypeOK, ThreadsTyped
<1>4. ThreadsTyped'
  BY <1>1, <1>2, <1>3 DEF ThreadsTyped, Thread
<1>5. /\ pc'["sync"] = "collected" /\ pc'["upload"] = pc["upload"]
      /\ stat'["upload"] = stat["upload"] /\ work' = work
      /\ \A t \in Thread : pc'[t] = "collected" \/ pc'[t] = pc[t]
  BY <1>2, <1>3 DEF ThreadsTyped, Thread
<1>6. AtHand'
  BY <1>5 DEF IInv, AtHand
<1>7. NoneNew
  BY <1>5 DEF NoneNew, Late
<1>8. StatTold'
  BY <1>2, <1>5, <1>7, FilesStay DEF IInv, Told, StatTold, history, seen
<1> QED BY <1>2, <1>4, <1>6, <1>7, <1>8, GoingOnKeeps

LEMMA ScanKeeps ==
  ASSUME IInv, ScanSkips \/ ScanHashes \/ ScanBuries
  PROVE  IInv'
PROOF
<1>1. EndScan
  BY DEF ScanSkips, ScanHashes, ScanBuries
<1>2. /\ Stops /\ ThreadsTyped' /\ "sync" \in Thread
      /\ UNCHANGED <<file, trash, now, lost, withdrawn, raced>>
  BY <1>1, FinishStops DEF EndScan, seen, Thread
<1>3. NoneNew
  BY <1>2, StoppedAtHand
<1>4. /\ \A m, c : Names(m, c) => Names(m, c)'
      /\ UNCHANGED <<row, torn>> => RowTold' /\ Accounted'
  BY <1>2, <1>3, FilesStay
<1>5. row \in Row \cup {NoRow} /\ torn \in BOOLEAN
  BY DEF IInv, TypeOK
<1>6. CASE UNCHANGED <<row, torn>>
  BY <1>2, <1>4, <1>5, <1>6, EndKeeps
<1>7. CASE ScanBuries
  <2>1. row \in Row /\ row' = [row EXCEPT !.deleted = TRUE, !.mtime = 0] /\ torn' = torn
    BY <1>5, <1>7 DEF ScanBuries, LiveRow
  <2>2. row' \in Row /\ row'.deleted
    BY <2>1 DEF Row
  <2>3. RowTold' /\ Accounted'
    BY <2>2 DEF RowTold, Accounted, LiveRow
  <2> QED BY <1>2, <1>5, <2>1, <2>2, <2>3, EndKeeps
<1>8. CASE ScanHashes /\ file # NoFile
  <2>1. /\ Listed \in Stat
        /\ \/ LiveRow /\ row.hash = file.content /\ row' = [row EXCEPT !.mtime = Listed.mtime]
           \/ row' = [size |-> Listed.size, hash |-> file.content, mtime |-> Listed.mtime,
                      deleted |-> FALSE]
        /\ torn' = (Listed.mtime # file.mtime)
    BY <1>8 DEF ScanHashes, Listed, IInv, TypeOK, Thread
  <2>2. Listed.mtime \in Nat /\ Listed.size \in Nat
    BY <2>1 DEF Stat
  <2>3. row' \in Row /\ row'.hash = file.content /\ row'.mtime = Listed.mtime
    <3>1. CASE LiveRow /\ row' = [row EXCEPT !.mtime = Listed.mtime] /\ row.hash = file.content
      <4>1. row \in Row
        BY <1>5, <3>1 DEF LiveRow
      <4> QED BY <2>2, <3>1, <4>1 DEF Row
    <3>2. CASE row' = [size |-> Listed.size, hash |-> file.content, mtime |-> Listed.mtime,
                       deleted |-> FALSE]
      BY <1>8, <2>2, <3>2, PathNames DEF Row
    <3> QED BY <2>1, <3>1, <3>2
  <2>4. RowTold'
    BY <1>4, <1>8, <2>1, <2>3, PathNames DEF RowTold
  <2>5. Accounted'
    BY <1>2, <1>8, <2>3 DEF Accounted
  <2> QED BY <1>2, <2>1, <2>3, <2>4, <2>5, EndKeeps
<1> QED BY <1>6, <1>7, <1>8 DEF ScanSkips, ScanHashes

LEMMA StoreKeeps ==
  ASSUME IInv, StoreReceived \/ StoreUploaded \/ Entomb \/ StatFails
  PROVE  IInv'
PROOF
<1> DEFINE t == IF StoreUploaded THEN "upload" ELSE "sync"
<1>1. t \in Thread /\ Finish(t) /\ UNCHANGED <<file, trash, now, lost, withdrawn, raced>>
  BY DEF StoreReceived, StoreUploaded, Entomb, StatFails, history, seen, Thread
<1> HIDE DEF t
<1>2. Stops /\ ThreadsTyped' /\ NoneNew
  BY <1>1, FinishStops, StoppedAtHand
<1>3. /\ \A m, c : Names(m, c) => Names(m, c)'
      /\ UNCHANGED <<row, torn>> => RowTold' /\ Accounted'
  BY <1>1, <1>2, FilesStay
<1>4. row \in Row \cup {NoRow} /\ torn \in BOOLEAN
  BY DEF IInv, TypeOK
<1>5. CASE UNCHANGED <<row, torn>>
  BY <1>1, <1>2, <1>3, <1>4, <1>5, EndKeeps
<1>6. ASSUME StoreReceived PROVE IInv'
  <2>1. /\ file # NoFile /\ pc["sync"] = "storing" /\ work["sync"] \in Content
        /\ row' = [size |-> Size[work["sync"]], hash |-> work["sync"],
                   mtime |-> file.mtime, deleted |-> FALSE]
        /\ torn' = (file.content # work["sync"])
    BY <1>6 DEF StoreReceived, IInv, AtHand, Thread
  <2>2. /\ row' \in Row /\ row'.hash = work["sync"] /\ row'.mtime = file.mtime
    BY <2>1, PathNames, SizeAssumption DEF Row
  <2>3. RowTold'
    BY <1>3, <2>1, <2>2, PathNames DEF RowTold
  <2>4. Accounted'
    BY <1>1, <2>1, <2>2 DEF Accounted, IInv, Own, Thread
  <2> QED BY <1>1, <1>2, <2>1, <2>2, <2>3, <2>4, EndKeeps
<1>7. ASSUME StoreUploaded PROVE IInv'
  <2> DEFINE s == stat["upload"]
  <2>1. /\ pc["upload"] = "storing" /\ s \in Stat /\ s.hash \in Content
        /\ row' = [size |-> s.size, hash |-> s.hash, mtime |-> s.mtime, deleted |-> FALSE]
        /\ torn' = s.torn
    BY <1>7 DEF StoreUploaded, IInv, AtHand
  <2>2. /\ ~s.torn => Names(s.mtime, s.hash)
        /\ ~raced => s.hash = work["upload"] /\ file # NoFile /\ file.content = work["upload"]
    BY <2>1 DEF IInv, Told, StatTold, Own, Thread
  <2> HIDE DEF s
  <2>3. row' \in Row /\ row'.hash = s.hash /\ row'.mtime = s.mtime /\ torn' \in BOOLEAN
    BY <2>1 DEF Row, Stat
  <2>4. RowTold'
    BY <1>3, <2>1, <2>2, <2>3 DEF RowTold
  <2>5. Accounted'
    BY <1>1, <2>2, <2>3 DEF Accounted
  <2> QED BY <1>1, <1>2, <2>3, <2>4, <2>5, EndKeeps
<1>8. ASSUME Entomb, ~UNCHANGED row PROVE IInv'
  <2>1. /\ work["sync"] \in Content /\ torn' = torn
        /\ row' = [size |-> Size[work["sync"]], hash |-> work["sync"], mtime |-> 0,
                   deleted |-> TRUE]
    BY <1>8 DEF Entomb, IInv, AtHand, Thread, history
  <2>2. row' \in Row /\ row'.deleted
    BY <2>1, SizeAssumption DEF Row
  <2>3. RowTold' /\ Accounted'
    BY <2>2 DEF RowTold, Accounted, LiveRow
  <2> QED BY <1>1, <1>2, <1>4, <2>1, <2>2, <2>3, EndKeeps
<1> QED BY <1>5, <1>6, <1>7, <1>8 DEF Entomb, StatFails, history

LEMMA CrashKeeps ==
  ASSUME IInv, Crash
  PROVE  IInv'
PROOF
<1>1. /\ Stops /\ ThreadsTyped'
      /\ UNCHANGED <<file, trash, row, now, lost, withdrawn, raced, torn>>
  BY DEF Crash, Stops, ThreadsTyped, history, seen
<1>2. RowTold' /\ Accounted'
  BY <1>1, StoppedAtHand, FilesStay
<1> QED BY <1>1, <1>2, EndKeeps DEF IInv, TypeOK
-----------------------------------------------------------------------------
(* Publishing and burying. *)

\* One thread goes to another state, the other one stays where it is.
LEMMA OneGoes ==
  ASSUME IInv, NEW t \in Thread, NEW s, pc' = [pc EXCEPT ![t] = s]
  PROVE  pc'[t] = s /\ \A u \in Thread \ {t} : pc'[u] = pc[u]
BY DEF IInv, TypeOK

LEMMA BeginKeeps ==
  ASSUME IInv, NEW t \in Thread, NEW c \in Content, NEW s \in {"moving", "burying"},
         pc[t] = "idle", s = "burying" => t = "sync", pc' = [pc EXCEPT ![t] = s],
         work' = [work EXCEPT ![t] = c],
         UNCHANGED <<file, trash, row, moved, stat, now, history>>
  PROVE  IInv'
PROOF
<1>1. ThreadsTyped
  BY DEF IInv, TypeOK, ThreadsTyped
<1>2. ThreadsTyped'
  BY <1>1 DEF ThreadsTyped
<1>3. /\ pc'[t] = s /\ work'[t] = c
      /\ \A u \in Thread \ {t} : pc'[u] = pc[u] /\ work'[u] = work[u]
  BY <1>1 DEF ThreadsTyped
<1>4. AtHand'
  <2>1. \A u \in Thread : pc'[u] \notin {"idle", "collected"} => work'[u] \in Content
    BY <1>3 DEF IInv, AtHand
  <2> QED BY <1>3, <2>1 DEF IInv, AtHand, Thread
<1>5. NoneNew
  BY <1>3 DEF NoneNew, Late
<1>6. StatTold'
  <2>1. \A m, d : Names(m, d) => Names(m, d)'
    BY <1>5, FilesStay DEF history, seen
  <2> QED BY <1>3, <2>1 DEF IInv, Told, StatTold, Thread, history, seen
<1> QED BY <1>2, <1>4, <1>5, <1>6, GoingOnKeeps

\* The old file goes to the trash and the path is left empty.
LEMMA TakeAwayKeeps ==
  ASSUME IInv, NEW t \in Thread, NEW s \in {"renaming", "entombing"},
         pc[t] \in {"moving", "burying"}, s = "entombing" => t = "sync", TakeAway(t),
         pc' = [pc EXCEPT ![t] = s],
         UNCHANGED <<row, work, stat, now, lost, withdrawn, torn>>
  PROVE  IInv'
PROOF
<1>1. /\ file' = NoFile /\ (raced => raced') /\ raced' \in BOOLEAN
      /\ trash' = {f \in trash \cup {file} : f # NoFile}
      /\ moved' \in [Thread -> File \cup {Nothing}]
      /\ ~raced' => \A u \in Thread \ {t} : file = NoFile \/ ~Publishing(u)
  <2>1. TypeOK
    BY DEF IInv
  <2>2. trash \subseteq File /\ NoFile \notin File
    BY <2>1, NothingAssumption DEF TypeOK
  <2>3. CASE file = NoFile
    BY <2>1, <2>2, <2>3 DEF TakeAway, TypeOK
  <2>4. CASE file # NoFile
    <3>1. /\ trash' = trash \cup {file} /\ moved' = [moved EXCEPT ![t] = file]
          /\ file' = NoFile /\ Race(t)
      BY <2>4 DEF TakeAway
    <3>2. /\ raced' \in BOOLEAN /\ (raced => raced')
          /\ ~raced' => \A u \in Thread \ {t} : ~Publishing(u)
      BY <2>1, <3>1, NoRace DEF Race, TypeOK
    <3>3. moved' \in [Thread -> File \cup {Nothing}]
      BY <2>1, <2>4, <3>1 DEF TypeOK
    <3> QED BY <2>2, <2>4, <3>1, <3>2, <3>3
  <2> QED BY <2>3, <2>4
<1>2. pc'[t] = s /\ \A u \in Thread \ {t} : pc'[u] = pc[u]
  BY OneGoes
<1>3. TypeOK'
  BY <1>1 DEF IInv, TypeOK
<1>4. AtHand'
  BY <1>2 DEF IInv, AtHand, Thread
<1>5. Own'
  <2> SUFFICES ASSUME ~raced', NEW u \in Thread
               PROVE  /\ pc'[u] = "renaming" => file' = NoFile
                      /\ pc'[u] \in Late => file' # NoFile /\ file'.content = work'[u]
    BY DEF Own, Late
  <2>1. CASE u = t
    BY <1>1, <1>2, <2>1 DEF Late
  <2>2. CASE u # t
    <3>1. file = NoFile \/ ~Publishing(u)
      BY <1>1, <2>2
    <3>2. CASE file = NoFile
      BY <1>1, <1>2, <2>2, <3>2 DEF IInv, Own, Late
    <3>3. CASE ~Publishing(u)
      BY <1>2, <2>2, <3>3 DEF Publishing, Late
    <3> QED BY <3>1, <3>2, <3>3
  <2> QED BY <2>1, <2>2
<1>6. Kept' = Kept
  BY <1>1 DEF Kept
<1>7. Dated' /\ \A m, c : Names(m, c) => Names(m, c)'
  BY <1>6, MovedFiles
<1>8. RowTold'
  BY <1>7 DEF IInv, Told, RowTold, LiveRow
<1>9. StatTold'
  <2>1. pc'["upload"] \in {"hashing", "storing"} => pc["upload"] = pc'["upload"]
    BY <1>2 DEF Thread
  <2> QED BY <1>1, <1>7, <2>1 DEF IInv, Told, StatTold
<1>10. Accounted'
  <2>1. Contents(trash) \subseteq Contents(trash')
    <3>1. trash \subseteq trash'
      BY <1>1, NothingAssumption DEF IInv, TypeOK
    <3> QED BY <3>1 DEF Contents
  <2>2. file # NoFile => file.content \in Contents(trash')
    BY <1>1 DEF Contents
  <2> QED BY <1>1, <2>1, <2>2 DEF IInv, Accounted, LiveRow, Contents
<1>11. OnlyRacesLose'
  BY <1>1 DEF IInv, OnlyRacesLose
<1> QED BY <1>3, <1>4, <1>5, <1>7, <1>8, <1>9, <1>10, <1>11 DEF IInv, Told

\* What a thread loses it loses to a race, whether it goes on or back.
LEMMA LossIsRace ==
  ASSUME IInv, NEW t \in Thread, Publishing(t), pc[t] = "renaming" \/ pc[t] \in Late, Lose(t), Race(t)
  PROVE  /\ lost' \subseteq File /\ OnlyRacesLose' /\ raced' \in BOOLEAN /\ (raced => raced')
         /\ ~raced => file = NoFile \/ file.content = work[t]
PROOF
<1>1. ~raced => file = NoFile \/ file.content = work[t]
  BY DEF IInv, Own, Late
<1>2. lost' \subseteq File /\ (lost' = lost \/ raced)
  BY <1>1 DEF Lose, IInv, TypeOK
<1>3. raced' \in BOOLEAN /\ (raced => raced')
  BY DEF Race, IInv, TypeOK
<1> QED BY <1>1, <1>2, <1>3 DEF IInv, OnlyRacesLose

LEMMA RenameKeeps ==
  ASSUME IInv, NEW t \in Thread, Rename(t)
  PROVE  IInv'
PROOF
<1> DEFINE s == IF t = "sync" THEN "chmod" ELSE "stating"
           c == work[t]
<1>1. /\ pc[t] = "renaming" /\ c \in Content /\ Publishing(t)
      /\ now' = now + 1 /\ file' = [content |-> c, mtime |-> now + 1]
      /\ pc' = [pc EXCEPT ![t] = s] /\ Lose(t) /\ Race(t)
      /\ UNCHANGED <<trash, row, work, moved, stat, withdrawn, torn>>
  BY DEF Rename, Goto, Publishing, IInv, AtHand
<1>2. s \in {"chmod", "stating"} /\ (s = "chmod" <=> t = "sync") /\ s \in Late
  BY DEF Late
<1> HIDE DEF s
<1>3. c = work[t]
  OBVIOUS
<1> HIDE DEF c
<1>4. /\ lost' \subseteq File /\ OnlyRacesLose' /\ raced' \in BOOLEAN /\ (raced => raced')
      /\ ~raced => file = NoFile
  BY <1>1, LossIsRace DEF IInv, Own
<1>5. /\ Dated' /\ file' \in File /\ \A m \in Nat : \A d : Names(m, d) => Names(m, d)'
  BY <1>1, WrittenFile
<1>6. /\ file' # NoFile /\ file'.content = c /\ now' \in Nat /\ now <= now'
  BY <1>1, <1>5, NothingAssumption DEF IInv, TypeOK
<1>7. pc'[t] = s /\ \A u \in Thread \ {t} : pc'[u] = pc[u]
  BY <1>1, OneGoes
<1>8. TypeOK'
  BY <1>1, <1>2, <1>4, <1>5, <1>6 DEF IInv, TypeOK
<1>9. AtHand'
  <2>1. \A u \in Thread : pc'[u] \notin {"idle", "collected"} => work'[u] \in Content
    BY <1>1, <1>3, <1>7 DEF IInv, AtHand
  <2> QED BY <1>1, <1>2, <1>7, <2>1 DEF IInv, AtHand, Thread
<1>10. Own'
  <2>1. ~raced' => \A u \in Thread \ {t} : ~Publishing(u)
    BY <1>1, NoRace
  <2> QED BY <1>1, <1>2, <1>3, <1>6, <1>7, <2>1 DEF Own, Publishing, Late
<1>11. RowTold'
  <2>1. LiveRow => row.mtime \in Nat
    BY DEF IInv, TypeOK, LiveRow, Row
  <2> QED BY <1>1, <1>5, <2>1 DEF IInv, Told, RowTold, LiveRow
<1>12. StatTold'
  <2>1. pc'["upload"] \in {"hashing", "storing"} => pc["upload"] = pc'["upload"]
    BY <1>2, <1>7 DEF Thread
  <2>2. pc["upload"] \in {"hashing", "storing"} =>
          stat["upload"].mtime \in Nat /\ stat["upload"].mtime <= now
    BY DEF IInv, AtHand, Stat, Told, StatTold
  <2>3. pc'["upload"] \in {"hashing", "storing"} => stat'["upload"].mtime <= now'
    BY <1>1, <2>1, <2>2 DEF IInv, TypeOK
  <2> QED BY <1>1, <1>4, <1>5, <2>1, <2>2, <2>3 DEF IInv, Told, StatTold
<1>13. Accounted'
  BY <1>1, <1>4 DEF IInv, Accounted, LiveRow, Contents
<1> QED BY <1>4, <1>5, <1>8, <1>9, <1>10, <1>11, <1>12, <1>13 DEF IInv, Told

\* A failed publication takes its file back and puts the old one where it was.
LEMMA UndoKeeps ==
  ASSUME IInv, NEW t \in Thread, Publishing(t), pc[t] = "renaming" \/ pc[t] \in Late, Undo(t)
  PROVE  IInv'
PROOF
<1>1. /\ Lose(t) /\ Race(t) /\ Finish(t) /\ withdrawn' = withdrawn \cup {work[t]}
      /\ UNCHANGED <<row, now, torn>>
  BY DEF Undo
<1>2. \/ moved[t] \in trash /\ file' = moved[t] /\ trash' = trash \ {moved[t]}
      \/ file' = NoFile /\ trash' = trash
  BY DEF Undo
<1>3. /\ lost' \subseteq File /\ OnlyRacesLose' /\ raced' \in BOOLEAN /\ (raced => raced')
      /\ ~raced => file = NoFile \/ file.content = work[t]
  BY <1>1, LossIsRace
<1>4. Stops /\ ThreadsTyped' /\ pc'[t] = "idle"
  BY <1>1, FinishStops
<1>5. AtHand'
  BY <1>4, StoppedAtHand
<1>6. work[t] \in Content
  BY DEF IInv, AtHand, Publishing
<1>7. TypeOK'
  BY <1>1, <1>2, <1>3, <1>4, <1>6 DEF IInv, TypeOK, ThreadsTyped
<1>8. Own'
  <2>1. ~raced' => \A u \in Thread \ {t} : ~Publishing(u)
    BY <1>1, NoRace
  <2>2. ~raced' => \A u \in Thread : pc'[u] # "renaming" /\ pc'[u] \notin Late
    BY <1>4, <2>1 DEF Stops, Publishing, Late
  <2> QED BY <2>2 DEF Own, Late
<1>9. Kept' \subseteq Kept
  BY <1>2 DEF Kept
<1>10. Dated' /\ \A m, c : Names(m, c) => Names(m, c)'
  BY <1>1, <1>9, MovedFiles
<1>11. RowTold'
  BY <1>1, <1>10 DEF IInv, Told, RowTold, LiveRow
<1>12. StatTold'
  BY <1>1, <1>3, <1>4, <1>10, StoppedStat
<1>13. Accounted'
  <2> SUFFICES ASSUME LiveRow, ~raced, row.hash \notin withdrawn'
               PROVE  \/ row.hash \in Contents(trash')
                      \/ file' # NoFile /\ file'.content = row.hash
    BY <1>1, <1>3 DEF Accounted, LiveRow, Contents
  <2>1. PICK f \in trash : f.content = row.hash
    BY <1>1, <1>3 DEF IInv, Accounted, Contents
  <2>2. f # NoFile
    BY NothingAssumption DEF IInv, TypeOK
  <2>3. CASE f \in trash'
    BY <2>1, <2>3 DEF Contents
  <2>4. CASE f \notin trash'
    BY <1>2, <2>1, <2>2, <2>4
  <2> QED BY <2>3, <2>4
<1> QED BY <1>3, <1>5, <1>7, <1>8, <1>10, <1>11, <1>12, <1>13 DEF IInv, Told

LEMMA SetModeKeeps ==
  ASSUME IInv, SetMode
  PROVE  IInv'
PROOF
<1>1. /\ pc["sync"] = "chmod" /\ pc' = [pc EXCEPT !["sync"] = "storing"] /\ "sync" \in Thread
      /\ UNCHANGED <<file, trash, row, work, moved, stat, now, history>>
  BY DEF SetMode, Goto, Thread
<1>2. /\ pc'["sync"] = "storing" /\ pc'["upload"] = pc["upload"]
  BY <1>1, OneGoes DEF Thread
<1>3. ThreadsTyped'
  BY <1>1 DEF IInv, TypeOK, ThreadsTyped
<1>4. AtHand'
  BY <1>1, <1>2 DEF IInv, AtHand, Thread
<1>5. NoneNew
  BY <1>1, <1>2 DEF NoneNew, Late, Thread
<1>6. StatTold'
  BY <1>1, <1>2, <1>5, FilesStay DEF IInv, Told, StatTold, history, seen
<1> QED BY <1>1, <1>3, <1>4, <1>5, <1>6, GoingOnKeeps

\* The upload thread reads metadata, then the hash of what is there by then.
LEMMA ReadKeeps ==
  ASSUME IInv, ReadMetadata \/ ReadHash
  PROVE  IInv'
PROOF
<1> DEFINE s == IF ReadMetadata THEN "hashing" ELSE "storing"
           old == stat["upload"]
           got == IF ReadMetadata THEN StatOf(file)
                  ELSE [old EXCEPT !.hash = file.content, !.torn = old.mtime # file.mtime]
<1>1. /\ file # NoFile /\ pc["upload"] \in {"stating", "hashing"} /\ "upload" \in Thread
      /\ ~ReadMetadata => pc["upload"] = "hashing"
      /\ UNCHANGED <<file, trash, row, work, moved, now, history>>
  BY DEF ReadMetadata, ReadHash, Thread
<1>2. ThreadsTyped
  BY DEF IInv, TypeOK, ThreadsTyped
<1>3. /\ pc' = [pc EXCEPT !["upload"] = s] /\ stat' = [stat EXCEPT !["upload"] = got]
  <2>1. CASE ReadMetadata
    BY <2>1 DEF ReadMetadata, Goto
  <2>2. CASE ~ReadMetadata
    BY <2>2, <1>2 DEF ReadHash, Goto
  <2> QED BY <2>1, <2>2
<1>4. /\ got \in Stat /\ got.mtime <= now /\ got.mtime \in Nat
      /\ s = "hashing" \/ s = "storing"
      /\ s = "storing" => /\ got.hash \in Content /\ got.hash = file.content
                          /\ ~got.torn => Names(got.mtime, got.hash)
  <2>1. CASE ReadMetadata
    BY <1>1, <2>1, PathNames, StatIsStat
  <2>2. CASE ~ReadMetadata
    <3>1. old \in Stat /\ old.mtime <= now
      BY <1>1, <2>2 DEF IInv, AtHand, Told, StatTold
    <3>2. /\ got = [old EXCEPT !.hash = file.content, !.torn = (old.mtime # file.mtime)]
          /\ file.content \in Content
      BY <1>1, <2>2, PathNames
    <3> HIDE DEF got, old
    <3>3. /\ got \in Stat /\ got.mtime = old.mtime /\ got.mtime \in Nat
          /\ got.hash = file.content /\ got.torn = (old.mtime # file.mtime)
      BY <3>1, <3>2 DEF Stat
    <3> QED BY <1>1, <2>2, <3>1, <3>2, <3>3, PathNames
  <2> QED BY <2>1, <2>2
<1> HIDE DEF s, got
<1>5. /\ pc'["upload"] = s /\ pc'["sync"] = pc["sync"] /\ stat'["upload"] = got
  BY <1>2, <1>3 DEF ThreadsTyped, Thread
<1>6. ThreadsTyped'
  BY <1>1, <1>2, <1>3, <1>4 DEF ThreadsTyped
<1>7. AtHand'
  BY <1>1, <1>4, <1>5 DEF IInv, AtHand, Thread
<1>8. NoneNew
  BY <1>1, <1>4, <1>5 DEF NoneNew, Late, Thread
<1>9. StatTold'
  <2>1. \A m, c : Names(m, c) => Names(m, c)'
    BY <1>1, <1>8, FilesStay DEF history, seen
  <2>2. ~raced => file.content = work["upload"]
    BY <1>1 DEF IInv, Own
  <2> QED BY <1>1, <1>4, <1>5, <2>1, <2>2 DEF StatTold, history, seen
<1> QED BY <1>1, <1>6, <1>7, <1>8, <1>9, GoingOnKeeps
-----------------------------------------------------------------------------
LEMMA PublishKeeps ==
  ASSUME IInv, NEW t \in Thread, PublishStep(t)
  PROVE  IInv'
PROOF
<1>1. ASSUME NEW c \in Content, Begin(t, c) PROVE IInv'
  BY <1>1, BeginKeeps DEF Begin, Goto
<1>2. ASSUME MoveExisting(t) PROVE IInv'
  BY <1>2, TakeAwayKeeps DEF MoveExisting, Goto
<1>3. ASSUME Rename(t) PROVE IInv'
  BY <1>3, RenameKeeps
<1>4. ASSUME RenameFails(t) PROVE IInv'
  <2>1. CASE file = NoFile
    BY <1>4, <2>1, UndoKeeps DEF RenameFails, Publishing
  <2>2. CASE file # NoFile
    <3>1. /\ Finish(t) /\ UNCHANGED <<file, trash, row, now, lost, withdrawn, raced, torn>>
      BY <1>4, <2>2 DEF RenameFails, history, seen
    <3>2. Stops /\ ThreadsTyped' /\ RowTold' /\ Accounted'
      BY <3>1, FinishStops, StoppedAtHand, FilesStay
    <3> QED BY <3>1, <3>2, EndKeeps DEF IInv, TypeOK
  <2> QED BY <2>1, <2>2
<1>5. ASSUME PublishFails(t) PROVE IInv'
  BY <1>5, UndoKeeps DEF PublishFails, Publishing, Late
<1> QED BY <1>1, <1>2, <1>3, <1>4, <1>5 DEF PublishStep

LEMMA NextKeeps == IInv /\ [Next]_vars => IInv'
PROOF
<1> SUFFICES ASSUME IInv, [Next]_vars PROVE IInv'
  OBVIOUS
<1>0. "sync" \in Thread /\ "upload" \in Thread
  BY DEF Thread
<1>1. CASE UserStep
  BY <1>1, UserKeeps
<1>2. CASE ScanStep
  BY <1>2, CollectKeeps, ScanKeeps DEF ScanStep
<1>3. CASE SyncStep
  <2>1. ASSUME NEW c \in Content, BeginTombstone(c) PROVE IInv'
    BY <1>0, <2>1, BeginKeeps DEF BeginTombstone, Goto
  <2>2. ASSUME Bury PROVE IInv'
    BY <1>0, <2>2, TakeAwayKeeps DEF Bury, Goto
  <2> QED BY <1>0, <1>3, <2>1, <2>2, PublishKeeps, SetModeKeeps, StoreKeeps DEF SyncStep
<1>4. CASE UploadStep
  BY <1>0, <1>4, PublishKeeps, ReadKeeps, StoreKeeps DEF UploadStep
<1>5. CASE Crash
  BY <1>5, CrashKeeps
<1>6. CASE UNCHANGED vars
  <2>1. UNCHANGED <<file, trash, row, pc, work, moved, stat, now, lost, withdrawn, raced, torn>>
    BY <1>6 DEF vars
  <2>2. Stops /\ ThreadsTyped'
    BY <2>1 DEF Stops, ThreadsTyped, IInv, TypeOK
  <2>3. RowTold' /\ Accounted'
    BY <2>1, <2>2, StoppedAtHand, FilesStay
  <2> QED BY <2>1, <2>2, <2>3, EndKeeps DEF IInv, TypeOK
<1> QED BY <1>1, <1>2, <1>3, <1>4, <1>5, <1>6 DEF Next

LEMMA Invariance == Spec => []IInv
PROOF
  BY InitInv, NextKeeps, PTL DEF Spec

\* The files, the catalog and what the threads have read keep to their types: a
\* row is only ever stored with a hash that was computed.
THEOREM StoreTyping == Spec => []TypeOK
PROOF
<1>1. IInv => TypeOK
  BY DEF IInv
<1> QED BY <1>1, Invariance, PTL

\* Neither PeerStorage::commit nor publish_replacing nor apply_tombstone, failed,
\* rolled back or killed anywhere, loses a file unless somebody else wrote the
\* object between its move to the trash and the end of the publication.
THEOREM OnlyRacesEverLose == Spec => []OnlyRacesLose
PROOF
<1>1. IInv => OnlyRacesLose
  BY DEF IInv
<1> QED BY <1>1, Invariance, PTL

\* scan_filtered tombstones an object only if what its row names is in the trash,
\* was removed on purpose, or the path was raced for.
THEOREM TombstonesAreRecoverable == Spec => TombstonedIsRecoverable
PROOF
<1> DEFINE A == ScanBuries =>
                  \/ row.hash \in Contents(trash) \cup withdrawn
                  \/ file # NoFile
                  \/ raced
<1>1. IInv => A
  BY DEF IInv, Accounted, ScanBuries
<1>2. IInv => [A]_vars
  BY <1>1
<1> QED BY <1>2, Invariance, PTL DEF TombstonedIsRecoverable

\* A scan of the file as it is leaves its row true, even when it skips the file on
\* the strength of size and time, unless the row mixes two files.
THEOREM ScansRepair == Spec => ScanRepairs
PROOF
<1> DEFINE Scanned == Quiet /\ ~torn /\ (ScanSkips \/ ScanHashes \/ ScanBuries)
           Repaired == IF file = NoFile THEN row' = NoRow \/ row'.deleted
                       ELSE row' # NoRow /\ ~row'.deleted /\ row'.hash = file.content
<1>1. ASSUME IInv, Scanned PROVE Repaired
  <2>1. file # NoFile => /\ StatOf(file) # Nothing /\ StatOf(file).mtime = file.mtime
                         /\ file \in Kept
    BY <1>1, StatIsStat, PathNames DEF Kept
  <2>2. Listed = Nothing <=> file = NoFile
    BY <1>1, <2>1 DEF Quiet
  <2>3. CASE ScanSkips
    <3>1. CASE file = NoFile
      BY <2>2, <2>3, <3>1 DEF ScanSkips, LiveRow
    <3>2. CASE file # NoFile
      <4>1. LiveRow /\ row.mtime = file.mtime /\ row' = row
        BY <1>1, <2>1, <2>2, <2>3, <3>2 DEF ScanSkips, Unchanged, Quiet
      <4>2. row.hash = file.content
        BY <1>1, <2>1, <3>2, <4>1 DEF IInv, Told, RowTold, Names
      <4> QED BY <3>2, <4>1, <4>2 DEF LiveRow
    <3> QED BY <3>1, <3>2
  <2>4. CASE ScanHashes
    <3>1. /\ file # NoFile
          /\ \/ LiveRow /\ row.hash = file.content /\ row' = [row EXCEPT !.mtime = Listed.mtime]
             \/ row' = [size |-> Listed.size, hash |-> file.content, mtime |-> Listed.mtime,
                        deleted |-> FALSE]
      BY <2>2, <2>4 DEF ScanHashes
    <3>2. row \in Row \cup {NoRow} /\ Listed \in Stat /\ file.content \in Content
      BY <1>1, <2>2, <3>1, PathNames DEF IInv, TypeOK, Listed, Thread
    <3>3. row' \in Row /\ row'.hash = file.content /\ ~row'.deleted
      <4>1. CASE LiveRow /\ row.hash = file.content /\ row' = [row EXCEPT !.mtime = Listed.mtime]
        BY <3>2, <4>1 DEF Row, Stat, LiveRow
      <4>2. CASE row' = [size |-> Listed.size, hash |-> file.content, mtime |-> Listed.mtime,
                         deleted |-> FALSE]
        BY <3>2, <4>2 DEF Row, Stat
      <4> QED BY <3>1, <4>1, <4>2
    <3> QED BY <3>1, <3>3, NothingAssumption
  <2>5. CASE ScanBuries
    <3>1. row \in Row /\ row' = [row EXCEPT !.deleted = TRUE, !.mtime = 0] /\ file = NoFile
      BY <1>1, <2>2, <2>5 DEF ScanBuries, LiveRow, IInv, TypeOK
    <3> QED BY <3>1 DEF Row
  <2> QED BY <1>1, <2>3, <2>4, <2>5
<1>2. IInv => [Scanned => Repaired]_vars
  BY <1>1
<1> QED BY <1>2, Invariance, PTL DEF ScanRepairs
=============================================================================
