---------------------------- MODULE StatusProofs ----------------------------
(***************************************************************************)
(* What holds of SyncStatus for any number of objects, any snapshots, any  *)
(* pieces and uploads: the plan a device announces is exactly the work its *)
(* session then does, and what it shows meanwhile is what is done.         *)
(*                                                                         *)
(* The plan and the work are sums and sequences over the keys, defined by  *)
(* recursion.  That the recursive functions exist, and what they compute,  *)
(* rests on induction along an interval (IntervalInduction), which follows *)
(* from the well-foundedness of < on the natural numbers.                  *)
(***************************************************************************)
EXTENDS SyncStatus, SequenceTheorems, FiniteSetTheorems, WellFoundedInduction, TLAPS

(* Induction along an interval. *)

Less == OpToRel(<, Nat)

LEMMA LeastMember ==
  ASSUME NEW S, S \subseteq Nat, S # {}
  PROVE  \E x \in S : \A y \in S : ~(y < x)
<1>1. IsWellFoundedOn(Less, Nat)
  BY NatLessThanWellFounded DEF Less
<1>2. \A x, y \in Nat : x < y => <<x, y>> \in Less
  BY DEF Less, OpToRel
<1>3. PICK x \in S : \A y \in S : <<y, x>> \notin Less
  BY <1>1, WFMin
<1>4. ASSUME NEW y \in S, y < x PROVE FALSE
  <2>1. <<y, x>> \in Less
    BY <1>2, <1>4, Zenon
  <2> QED BY <1>3, <2>1, Zenon
<1> QED BY <1>4

LEMMA IntervalInduction ==
  ASSUME NEW N \in Nat, NEW S, 0 \in S,
         \A n \in 1..N : n - 1 \in S => n \in S
  PROVE  0..N \subseteq S
<1> DEFINE T == (0..N) \ S
<1>1. SUFFICES ASSUME T # {} PROVE FALSE
  OBVIOUS
<1>2. T \subseteq Nat
  OBVIOUS
<1>3. PICK n \in T : \A m \in T : ~(m < n)
  BY <1>1, <1>2, LeastMember
<1>4. n \in 1..N /\ n \notin S
  BY <1>3
<1>5. n - 1 \in 0..N /\ n - 1 < n
  BY <1>4
<1>6. n - 1 \in S
  BY <1>3, <1>5
<1> QED BY <1>4, <1>6

(* Recursive functions on an interval. *)

\* A recursion whose steps stay in a set has a solution there.
Solvable(N, V, base, step) ==
  \E s \in [0..N -> V] : s[0] = base /\ \A n \in 1..N : s[n] = step[n][s[n - 1]]

LEMMA RecursionExists ==
  ASSUME NEW N \in Nat, NEW V, NEW base \in V, NEW step \in [1..N -> [V -> V]]
  PROVE  Solvable(N, V, base, step)
<1> DEFINE Solves(s, m) == /\ s \in [0..m -> V] /\ s[0] = base
                           /\ \A n \in 1..m : s[n] = step[n][s[n - 1]]
           S == {m \in 0..N : \E s : Solves(s, m)}
<1>1. 0 \in S
  <2> DEFINE s == [n \in 0..0 |-> base]
  <2>1. Solves(s, 0)
    OBVIOUS
  <2> HIDE DEF s
  <2> QED BY <2>1
<1>2. ASSUME NEW m \in 1..N, m - 1 \in S PROVE m \in S
  <2>1. PICK s : Solves(s, m - 1)
    BY <1>2
  <2> DEFINE v == step[m][s[m - 1]]
             t == [n \in 0..m |-> IF n = m THEN v ELSE s[n]]
  <2>2. v \in V
    BY <2>1
  <2>3. /\ t \in [0..m -> V] /\ t[m] = v
        /\ \A n \in 0..m : n # m => t[n] = s[n] /\ n \in 0..(m - 1)
    <3> HIDE DEF v
    <3> QED BY <2>1, <2>2
  <2> HIDE DEF t
  <2>4. ASSUME NEW n \in 1..m PROVE t[n] = step[n][t[n - 1]]
    <3>1. n - 1 # m /\ n - 1 \in 0..m
      OBVIOUS
    <3>2. t[n - 1] = s[n - 1]
      BY <2>3, <3>1
    <3>3. CASE n = m
      BY <2>3, <3>2, <3>3
    <3>4. CASE n # m
      <4>1. t[n] = s[n] /\ n \in 1..(m - 1)
        BY <2>3, <3>4
      <4> QED BY <2>1, <3>2, <4>1
    <3> QED BY <3>3, <3>4
  <2>5. 0 # m /\ 0 \in 0..m
    OBVIOUS
  <2>6. t[0] = base
    BY <2>1, <2>3, <2>5
  <2>7. Solves(t, m)
    BY <2>3, <2>4, <2>6
  <2> HIDE DEF Solves
  <2> QED BY <2>7
<1>3. N \in S
  <2> HIDE DEF S
  <2>1. 0..N \subseteq S
    BY <1>1, <1>2, IntervalInduction
  <2> QED BY <2>1
<1> QED BY <1>3 DEF Solvable

\* Partial sums exist, are numbers, and grow by one term at a time.
Accumulates(s, N, terms) ==
  s = [n \in 0..N |-> IF n = 0 THEN 0 ELSE s[n - 1] + terms[n]]

LEMMA SumsExist ==
  ASSUME NEW N \in Nat, NEW terms, \A n \in 1..N : terms[n] \in Nat
  PROVE  \E s : Accumulates(s, N, terms)
<1> DEFINE step == [n \in 1..N |-> [v \in Nat |-> v + terms[n]]]
<1>1. /\ step \in [1..N -> [Nat -> Nat]]
      /\ \A n \in 1..N, v \in Nat : step[n][v] = v + terms[n]
  OBVIOUS
<1> HIDE DEF step
<1>2. PICK s \in [0..N -> Nat] : s[0] = 0 /\ \A n \in 1..N : s[n] = step[n][s[n - 1]]
  <2>1. Solvable(N, Nat, 0, step)
    BY <1>1, RecursionExists
  <2> QED BY <2>1 DEF Solvable
<1>3. ASSUME NEW n \in 0..N
      PROVE  s[n] = IF n = 0 THEN 0 ELSE s[n - 1] + terms[n]
  <2>1. CASE n = 0
    BY <1>2, <2>1
  <2>2. CASE n # 0
    <3>1. n \in 1..N /\ n - 1 \in 0..N
      BY <2>2
    <3>2. s[n - 1] \in Nat /\ s[n] = step[n][s[n - 1]]
      BY <1>2, <3>1
    <3>3. step[n][s[n - 1]] = s[n - 1] + terms[n]
      BY <1>1, <3>1, <3>2
    <3> QED BY <2>2, <3>2, <3>3
  <2> QED BY <2>1, <2>2
<1>4. s = [n \in 0..N |-> s[n]]
  BY <1>2
<1>5. Accumulates(s, N, terms)
  BY <1>3, <1>4 DEF Accumulates
<1> QED BY <1>5

LEMMA SumsTyped ==
  ASSUME NEW N \in Nat, NEW terms, \A n \in 1..N : terms[n] \in Nat,
         NEW c, Accumulates(c, N, terms)
  PROVE  /\ c \in [0..N -> Nat] /\ c[0] = 0
         /\ \A n \in 1..N : c[n] = c[n - 1] + terms[n]
<1> DEFINE S == {n \in 0..N : c[n] \in Nat}
<1>1. c[0] = 0 /\ \A n \in 1..N : c[n] = c[n - 1] + terms[n]
  BY DEF Accumulates
<1>2. 0..N \subseteq S
  <2>1. 0 \in S /\ \A n \in 1..N : n - 1 \in S => n \in S
    BY <1>1
  <2> HIDE DEF S
  <2> QED BY <2>1, IntervalInduction
<1>3. c = [n \in 0..N |-> c[n]]
  BY DEF Accumulates
<1> QED BY <1>1, <1>2, <1>3

\* The partial sums of the bytes of a sequence of operations.
Operation == [label : Key, bytes : Nat]

Sums(w) ==
  CHOOSE sum : sum = [n \in 0..Len(w) |-> IF n = 0 THEN 0 ELSE sum[n - 1] + w[n].bytes]

LEMMA OperationsOf ==
  ASSUME NEW w \in Seq(Operation)
  PROVE  /\ Len(w) \in Nat
         /\ \A n \in 1..Len(w) : w[n] \in Operation /\ w[n].bytes \in Nat
<1>1. Len(w) \in Nat /\ \A n \in 1..Len(w) : w[n] \in Operation
  BY ElementOfSeq, LenProperties
<1> QED BY <1>1 DEF Operation

LEMMA SumsDefined ==
  ASSUME NEW w \in Seq(Operation)
  PROVE  /\ Sums(w) \in [0..Len(w) -> Nat]
         /\ Sums(w)[0] = 0
         /\ \A n \in 1..Len(w) : Sums(w)[n] = Sums(w)[n - 1] + w[n].bytes
<1> DEFINE N == Len(w)
           terms == [n \in 1..N |-> w[n].bytes]
<1>1. N \in Nat /\ \A n \in 1..N : terms[n] = w[n].bytes /\ terms[n] \in Nat
  BY OperationsOf
<1> HIDE DEF terms
<1>2. ASSUME NEW s
      PROVE  Accumulates(s, N, terms) <=>
               s = [n \in 0..N |-> IF n = 0 THEN 0 ELSE s[n - 1] + w[n].bytes]
  <2>1. \A n \in 0..N : n = 0 \/ terms[n] = w[n].bytes
    BY <1>1
  <2>2. [n \in 0..N |-> IF n = 0 THEN 0 ELSE s[n - 1] + terms[n]]
          = [n \in 0..N |-> IF n = 0 THEN 0 ELSE s[n - 1] + w[n].bytes]
    BY <2>1
  <2> QED BY <2>2 DEF Accumulates
<1>3. PICK s : Accumulates(s, N, terms)
  BY <1>1, SumsExist
<1>4. s = [n \in 0..N |-> IF n = 0 THEN 0 ELSE s[n - 1] + w[n].bytes]
  BY <1>2, <1>3
<1>5. Sums(w) = [n \in 0..N |-> IF n = 0 THEN 0 ELSE Sums(w)[n - 1] + w[n].bytes]
  BY <1>4 DEF Sums
<1>6. Accumulates(Sums(w), N, terms)
  BY <1>2, <1>5
<1>7. /\ Sums(w) \in [0..N -> Nat] /\ Sums(w)[0] = 0
      /\ \A n \in 1..N : Sums(w)[n] = Sums(w)[n - 1] + terms[n]
  BY <1>1, <1>6, SumsTyped
<1> QED BY <1>1, <1>7

LEMMA SumsGrow ==
  ASSUME NEW w \in Seq(Operation), NEW n \in 0..Len(w)
  PROVE  Sums(w)[n] <= Sums(w)[Len(w)]
<1> DEFINE N == Len(w)
           c == Sums(w)
           S == {m \in 0..N : \A j \in 0..m : c[j] <= c[m]}
<1>0. N \in Nat /\ \A m \in 1..N : w[m].bytes \in Nat
  BY OperationsOf
<1>1. /\ c \in [0..N -> Nat]
      /\ \A m \in 1..N : c[m] = c[m - 1] + w[m].bytes
  BY SumsDefined
<1> HIDE DEF c
<1>2. 0 \in S
  BY <1>0, <1>1
<1>3. ASSUME NEW m \in 1..N, m - 1 \in S PROVE m \in S
  <2>0. m \in 0..N /\ m - 1 \in 0..N
    BY <1>0
  <2>1. c[m - 1] <= c[m] /\ c[m] \in Nat
    <3>1. c[m] \in Nat /\ c[m - 1] \in Nat /\ w[m].bytes \in Nat /\ c[m] = c[m - 1] + w[m].bytes
      BY <1>0, <1>1, <2>0
    <3> QED BY <3>1
  <2>2. ASSUME NEW j \in 0..m PROVE c[j] <= c[m]
    <3>1. j = m \/ j \in 0..(m - 1)
      BY <1>0
    <3>2. c[j] \in Nat /\ c[m - 1] \in Nat
      <4>1. j \in 0..N
        BY <1>0
      <4> QED BY <1>1, <2>0, <4>1
    <3>3. \A i \in 0..(m - 1) : c[i] <= c[m - 1]
      BY <1>3
    <3> QED BY <2>1, <3>1, <3>2, <3>3
  <2> QED BY <2>2
<1>4. N \in S
  <2> HIDE DEF S, N
  <2>1. 0..N \subseteq S
    BY <1>0, <1>2, <1>3, IntervalInduction
  <2> QED BY <1>0, <2>1
<1> QED BY <1>4 DEF c

Total(w) == Sums(w)[Len(w)]

LEMMA TotalOfEmpty == Total(<<>>) = 0
<1>1. <<>> \in Seq(Operation) /\ Len(<<>>) = 0
  OBVIOUS
<1> QED BY <1>1, SumsDefined DEF Total

LEMMA TotalOfOneMore ==
  ASSUME NEW w \in Seq(Operation), NEW op \in Operation
  PROVE  /\ w \o <<op>> \in Seq(Operation) /\ Len(w \o <<op>>) = Len(w) + 1
         /\ Total(w \o <<op>>) = Total(w) + op.bytes
<1> DEFINE N == Len(w)
           x == w \o <<op>>
           S == {n \in 0..N : Sums(x)[n] = Sums(w)[n]}
<1>0. N \in Nat
  OBVIOUS
<1>1. /\ x \in Seq(Operation) /\ Len(x) = N + 1 /\ x[N + 1] = op
      /\ \A n \in 1..N : x[n] = w[n]
  OBVIOUS
<1> HIDE DEF x
<1>2. /\ Sums(x)[0] = 0 /\ \A n \in 1..(N + 1) : Sums(x)[n] = Sums(x)[n - 1] + x[n].bytes
      /\ Sums(w)[0] = 0 /\ \A n \in 1..N : Sums(w)[n] = Sums(w)[n - 1] + w[n].bytes
  <2>1. /\ Sums(x)[0] = 0
        /\ \A n \in 1..Len(x) : Sums(x)[n] = Sums(x)[n - 1] + x[n].bytes
    BY <1>1, SumsDefined
  <2>2. /\ Sums(w)[0] = 0
        /\ \A n \in 1..Len(w) : Sums(w)[n] = Sums(w)[n - 1] + w[n].bytes
    BY SumsDefined
  <2> QED BY <1>1, <2>1, <2>2
<1>3. 0 \in S /\ \A n \in 1..N : n - 1 \in S => n \in S
  BY <1>0, <1>1, <1>2
<1>4. N \in S
  <2> HIDE DEF S, N
  <2>1. 0..N \subseteq S
    BY <1>0, <1>3, IntervalInduction
  <2> QED BY <1>0, <2>1
<1>5. Sums(x)[N + 1] = Sums(w)[N] + op.bytes
  BY <1>0, <1>1, <1>2, <1>4
<1> QED BY <1>1, <1>5 DEF Total, x

\* The sizes of files, added up over the keys.
SizeSums(files, records) ==
  CHOOSE sum : sum = [n \in 0..Last |->
    IF n = 0 THEN 0
    ELSE sum[n - 1] + IF n \in files THEN Size(records[n].content) ELSE 0]

LEMMA BytesDefined ==
  ASSUME NEW files, NEW records, \A k \in Key : k \in files => Size(records[k].content) \in Nat
  PROVE  /\ BytesUpTo(files, records) = SizeSums(files, records)[Last]
         /\ SizeSums(files, records) \in [0..Last -> Nat]
         /\ SizeSums(files, records)[0] = 0
         /\ \A k \in Key : SizeSums(files, records)[k] =
              SizeSums(files, records)[k - 1]
                + IF k \in files THEN Size(records[k].content) ELSE 0
<1> DEFINE size(n) == IF n \in files THEN Size(records[n].content) ELSE 0
           terms == [n \in 1..Last |-> size(n)]
           c == SizeSums(files, records)
<1>1. /\ Last \in Nat /\ Key = 1..Last
      /\ \A n \in 1..Last : terms[n] = size(n) /\ terms[n] \in Nat
  BY KeyAssumption DEF KeyAssumption
<1> HIDE DEF terms
<1>2. ASSUME NEW s
      PROVE  Accumulates(s, Last, terms) <=>
               s = [n \in 0..Last |-> IF n = 0 THEN 0 ELSE s[n - 1] + size(n)]
  <2>1. \A n \in 0..Last : n = 0 \/ terms[n] = size(n)
    BY <1>1
  <2>2. [n \in 0..Last |-> IF n = 0 THEN 0 ELSE s[n - 1] + terms[n]]
          = [n \in 0..Last |-> IF n = 0 THEN 0 ELSE s[n - 1] + size(n)]
    <3> HIDE DEF size
    <3> QED BY <2>1
  <2> QED BY <2>2 DEF Accumulates
<1>3. PICK s : Accumulates(s, Last, terms)
  BY <1>1, SumsExist
<1>4. s = [n \in 0..Last |-> IF n = 0 THEN 0 ELSE s[n - 1] + size(n)]
  BY <1>2, <1>3
<1>5. c = [n \in 0..Last |-> IF n = 0 THEN 0 ELSE c[n - 1] + size(n)]
  BY <1>4 DEF SizeSums
<1>6. Accumulates(c, Last, terms)
  BY <1>2, <1>5
<1>7. /\ c \in [0..Last -> Nat] /\ c[0] = 0
      /\ \A n \in 1..Last : c[n] = c[n - 1] + terms[n]
  BY <1>1, <1>6, SumsTyped
<1>8. BytesUpTo(files, records) = c[Last]
  BY DEF BytesUpTo, SizeSums
<1> QED BY <1>1, <1>7, <1>8
-----------------------------------------------------------------------------
(* The plan and the work. *)

LEMMA WinnerMirrors ==
  ASSUME NEW r \in ObjectRecord \cup {NoRecord}, NEW s \in ObjectRecord \cup {NoRecord}
  PROVE  /\ Winner(r, s) = "local" <=> Winner(s, r) = "remote"
         /\ Winner(r, s) = "remote" <=> Winner(s, r) = "local"
<1>1. CASE r = NoRecord \/ s = NoRecord
  BY <1>1 DEF Winner
<1>2. CASE r # NoRecord /\ s # NoRecord
  <2>1. \A v \in {r.version, s.version} :
          v.wall \in Nat /\ v.counter \in Nat /\ v.origin \in Nat
    BY <1>2, DeviceAssumption DEF ObjectRecord, VersionStamp, DeviceAssumption
  <2>2. ~(Newer(r.version, s.version) /\ Newer(s.version, r.version))
    <3> DEFINE v == r.version
               w == s.version
    <3>1. /\ v.wall \in Nat /\ v.counter \in Nat /\ v.origin \in Nat
          /\ w.wall \in Nat /\ w.counter \in Nat /\ w.origin \in Nat
      BY <2>1
    <3> HIDE DEF v, w
    <3>2. ~(Newer(v, w) /\ Newer(w, v))
      BY <3>1 DEF Newer
    <3> QED BY <3>2 DEF v, w
  <2> QED BY <1>2, <2>2 DEF Winner
<1> QED BY <1>1, <1>2

Snapshots == mine \in Snapshot /\ theirs \in Snapshot /\ role \in {"initiator", "acceptor"}

\* What this device's session does for an object.
KeyWork(k) == IF role = "initiator" THEN InitiatorWork(k) ELSE AcceptorWork(k)

\* It is what the plan counts the object for, in either role.
LEMMA WorkAsPlanned ==
  ASSUME Snapshots, NEW k \in Key
  PROVE  /\ k \in SendFiles =>
              /\ KeyWork(k) = <<Op(k, Size(mine[k].content))>> /\ Size(mine[k].content) \in Nat
              /\ k \notin ReceiveFiles /\ k \notin DeleteFiles
         /\ k \in ReceiveFiles =>
              /\ KeyWork(k) = <<Op(k, Size(theirs[k].content))>> /\ Size(theirs[k].content) \in Nat
              /\ k \notin SendFiles /\ k \notin DeleteFiles
         /\ k \in DeleteFiles =>
              KeyWork(k) = <<Op(k, 0)>> /\ k \notin SendFiles /\ k \notin ReceiveFiles
         /\ k \notin SendFiles \cup ReceiveFiles \cup DeleteFiles => KeyWork(k) = <<>>
<1>1. mine[k] \in ObjectRecord \cup {NoRecord} /\ theirs[k] \in ObjectRecord \cup {NoRecord}
  BY DEF Snapshots, Snapshot
<1>2. /\ WonHere(k) <=> Winner(theirs[k], mine[k]) = "remote"
      /\ WonThere(k) <=> Winner(theirs[k], mine[k]) = "local"
      /\ ~(WonHere(k) /\ WonThere(k))
  BY <1>1, WinnerMirrors DEF WonHere, WonThere
<1>3. /\ Live(mine[k]) => Size(mine[k].content) \in Nat
      /\ Live(theirs[k]) => Size(theirs[k].content) \in Nat
  BY <1>1, SizeAssumption DEF Live, ObjectRecord, SizeAssumption
<1>4. CASE role = "initiator"
  BY <1>2, <1>3, <1>4 DEF KeyWork, InitiatorWork, SendFiles, ReceiveFiles, DeleteFiles
<1>5. CASE role = "acceptor"
  BY <1>2, <1>3, <1>5 DEF KeyWork, AcceptorWork, SendFiles, ReceiveFiles, DeleteFiles
<1> QED BY <1>4, <1>5 DEF Snapshots

WorkTo ==
  CHOOSE upTo : upTo = [n \in 0..Last |->
    IF n = 0 THEN <<>>
    ELSE upTo[n - 1] \o IF role = "initiator" THEN InitiatorWork(n)
                                              ELSE AcceptorWork(n)]

LEMMA WorkDefined ==
  ASSUME Snapshots
  PROVE  /\ Work = WorkTo[Last]
         /\ WorkTo \in [0..Last -> Seq(Operation)]
         /\ WorkTo[0] = <<>>
         /\ \A k \in Key : WorkTo[k] = WorkTo[k - 1] \o KeyWork(k)
<1> DEFINE V == Seq(Operation)
           step == [n \in 1..Last |-> [v \in V |-> v \o KeyWork(n)]]
           Solves(s) == s = [n \in 0..Last |-> IF n = 0 THEN <<>> ELSE s[n - 1] \o KeyWork(n)]
<1>0. Last \in Nat /\ Key = 1..Last
  BY KeyAssumption DEF KeyAssumption
<1>1. ASSUME NEW k \in Key PROVE KeyWork(k) \in V
  <2>1. \A b \in Nat : <<Op(k, b)>> \in V
    BY DEF Op, Operation
  <2>2. <<>> \in V
    OBVIOUS
  <2> HIDE DEF V
  <2> QED BY <2>1, <2>2, WorkAsPlanned
<1>2. \A v, w \in V : v \o w \in V
  OBVIOUS
<1>3. <<>> \in V
  OBVIOUS
<1> HIDE DEF V
<1>4. step \in [1..Last -> [V -> V]] /\ \A n \in 1..Last, v \in V : step[n][v] = v \o KeyWork(n)
  BY <1>0, <1>1, <1>2
<1> HIDE DEF step
<1>5. PICK s \in [0..Last -> V] : s[0] = <<>> /\ \A n \in 1..Last : s[n] = step[n][s[n - 1]]
  <2>1. Solvable(Last, V, <<>>, step)
    BY <1>0, <1>3, <1>4, RecursionExists
  <2> QED BY <2>1 DEF Solvable
<1>6. Solves(s)
  <2>1. ASSUME NEW n \in 0..Last PROVE s[n] = IF n = 0 THEN <<>> ELSE s[n - 1] \o KeyWork(n)
    <3>1. CASE n = 0
      BY <1>5, <3>1
    <3>2. CASE n # 0
      <4>1. n \in 1..Last /\ n - 1 \in 0..Last
        BY <1>0, <3>2
      <4> QED BY <1>4, <1>5, <3>2, <4>1
    <3> QED BY <3>1, <3>2
  <2>2. s = [n \in 0..Last |-> s[n]]
    BY <1>5
  <2> QED BY <2>1, <2>2
<1>7. Solves(WorkTo)
  BY <1>6 DEF WorkTo, KeyWork
<1>8. WorkTo[0] = <<>> /\ \A k \in 1..Last : WorkTo[k] = WorkTo[k - 1] \o KeyWork(k)
  <2>1. \A n \in 0..Last : WorkTo[n] = IF n = 0 THEN <<>> ELSE WorkTo[n - 1] \o KeyWork(n)
    BY <1>7, Zenon
  <2>2. 0 \in 0..Last /\ \A k \in 1..Last : k \in 0..Last /\ k # 0
    BY <1>0
  <2> QED BY <2>1, <2>2, Zenon
<1>9. WorkTo \in [0..Last -> V]
  <2> DEFINE S == {n \in 0..Last : WorkTo[n] \in V}
  <2>1. 0 \in S
    BY <1>0, <1>3, <1>8
  <2>2. ASSUME NEW n \in 1..Last, n - 1 \in S PROVE n \in S
    <3>1. n \in 0..Last /\ WorkTo[n - 1] \in V /\ KeyWork(n) \in V
      BY <1>0, <1>1, <2>2
    <3> QED BY <1>2, <1>8, <3>1
  <2>3. 0..Last \subseteq S
    <3> HIDE DEF S
    <3> QED BY <1>0, <2>1, <2>2, IntervalInduction
  <2>4. WorkTo = [n \in 0..Last |-> WorkTo[n]]
    BY <1>7
  <2> QED BY <2>3, <2>4
<1>10. Work = WorkTo[Last]
  BY DEF Work, WorkTo
<1> QED BY <1>0, <1>8, <1>9, <1>10 DEF V

UpTo(S, n) == {k \in S : k <= n}

LEMMA CountUpTo ==
  ASSUME NEW S \in SUBSET Key
  PROVE  /\ Cardinality(UpTo(S, 0)) = 0
         /\ \A k \in Key : Cardinality(UpTo(S, k)) =
              Cardinality(UpTo(S, k - 1)) + IF k \in S THEN 1 ELSE 0
         /\ \A n \in 0..Last : Cardinality(UpTo(S, n)) \in Nat
         /\ UpTo(S, Last) = S
<1>0. Last \in Nat /\ Key = 1..Last
  BY KeyAssumption DEF KeyAssumption
<1>00. \A k \in S : k \in Int /\ 1 <= k /\ k <= Last
  BY <1>0
<1>1. UpTo(S, 0) = {} /\ UpTo(S, Last) = S
  <2>1. \A k \in S : ~(k <= 0) /\ k <= Last
    BY <1>00
  <2> QED BY <2>1, Zenon DEF UpTo
<1>2. ASSUME NEW n \in 0..Last
      PROVE  IsFiniteSet(UpTo(S, n)) /\ Cardinality(UpTo(S, n)) \in Nat
  <2>1. IsFiniteSet(1..Last)
    BY <1>0, FS_Interval
  <2>2. UpTo(S, n) \in SUBSET (1..Last)
    BY <1>0 DEF UpTo
  <2>3. IsFiniteSet(UpTo(S, n))
    BY <2>1, <2>2, FS_Subset
  <2> QED BY <2>3, FS_CardinalityType
<1>3. ASSUME NEW k \in Key
      PROVE  Cardinality(UpTo(S, k)) = Cardinality(UpTo(S, k - 1)) + IF k \in S THEN 1 ELSE 0
  <2>0. k - 1 \in 0..Last
    BY <1>0
  <2>1. CASE k \in S
    <3>1. UpTo(S, k) = UpTo(S, k - 1) \cup {k} /\ k \notin UpTo(S, k - 1)
      <4>1. \A j \in S : (j <= k <=> j <= k - 1 \/ j = k) /\ (j <= k - 1 => j # k)
        BY <1>0, <1>00
      <4> QED BY <2>1, <4>1, Zenon DEF UpTo
    <3>2. IsFiniteSet(UpTo(S, k - 1)) /\ Cardinality(UpTo(S, k - 1)) \in Nat
      BY <1>2, <2>0
    <3> QED BY <2>1, <3>1, <3>2, FS_AddElement
  <2>2. CASE k \notin S
    <3>1. UpTo(S, k) = UpTo(S, k - 1)
      <4>1. \A j \in S : j <= k <=> j <= k - 1
        BY <1>0, <1>00, <2>2
      <4> QED BY <4>1, Zenon DEF UpTo
    <3>2. Cardinality(UpTo(S, k - 1)) \in Nat
      BY <1>2, <2>0
    <3> QED BY <2>2, <3>1, <3>2
  <2> QED BY <2>1, <2>2
<1> QED BY <1>1, <1>2, <1>3, FS_EmptySet

\* The plan counts the operations of the work, and their bytes.
LEMMA PlanExact ==
  Snapshots => /\ Work \in Seq(Operation)
               /\ TotalFiles = Len(Work)
               /\ TotalBytes = Total(Work)
<1> SUFFICES ASSUME Snapshots
             PROVE  /\ Work \in Seq(Operation)
                    /\ TotalFiles = Len(Work)
                    /\ TotalBytes = Total(Work)
  OBVIOUS
<1> DEFINE C(n) == Cardinality(UpTo(SendFiles, n)) + Cardinality(UpTo(ReceiveFiles, n))
                     + Cardinality(UpTo(DeleteFiles, n))
           out == SizeSums(SendFiles, mine)
           in == SizeSums(ReceiveFiles, theirs)
           S == {n \in 0..Last : Len(WorkTo[n]) = C(n) /\ Total(WorkTo[n]) = out[n] + in[n]}
<1>0. Last \in Nat /\ Key = 1..Last
  BY KeyAssumption DEF KeyAssumption
<1>1. /\ SendFiles \in SUBSET Key /\ ReceiveFiles \in SUBSET Key /\ DeleteFiles \in SUBSET Key
  BY DEF SendFiles, ReceiveFiles, DeleteFiles
<1>2. /\ BytesUpTo(SendFiles, mine) = out[Last] /\ out \in [0..Last -> Nat] /\ out[0] = 0
      /\ \A k \in Key : out[k] =
           out[k - 1] + IF k \in SendFiles THEN Size(mine[k].content) ELSE 0
  BY WorkAsPlanned, BytesDefined
<1>3. /\ BytesUpTo(ReceiveFiles, theirs) = in[Last] /\ in \in [0..Last -> Nat] /\ in[0] = 0
      /\ \A k \in Key : in[k] =
           in[k - 1] + IF k \in ReceiveFiles THEN Size(theirs[k].content) ELSE 0
  BY WorkAsPlanned, BytesDefined
<1>4. /\ WorkTo \in [0..Last -> Seq(Operation)] /\ WorkTo[0] = <<>> /\ Work = WorkTo[Last]
      /\ \A k \in Key : WorkTo[k] = WorkTo[k - 1] \o KeyWork(k)
  BY WorkDefined
<1> HIDE DEF out, in
<1>5. 0 \in S
  <2>1. C(0) = 0
    BY <1>1, CountUpTo
  <2>2. Len(WorkTo[0]) = 0 /\ Total(WorkTo[0]) = 0
    BY <1>4, TotalOfEmpty
  <2> QED BY <1>0, <1>2, <1>3, <2>1, <2>2
<1>6. ASSUME NEW k \in 1..Last, k - 1 \in S PROVE k \in S
  <2> DEFINE w == WorkTo[k - 1]
             more == IF k \in SendFiles \cup ReceiveFiles \cup DeleteFiles THEN 1 ELSE 0
  <2>0. k \in Key /\ k \in 0..Last /\ k - 1 \in 0..Last
    BY <1>0
  <2>1. w \in Seq(Operation) /\ WorkTo[k] = w \o KeyWork(k)
    BY <1>4, <2>0
  <2>2. Len(w) = C(k - 1) /\ Total(w) = out[k - 1] + in[k - 1]
    BY <1>6
  <2>3. C(k) = C(k - 1) + more
    <3>1. \A T \in {SendFiles, ReceiveFiles, DeleteFiles} :
            /\ Cardinality(UpTo(T, k)) = Cardinality(UpTo(T, k - 1)) + IF k \in T THEN 1 ELSE 0
            /\ Cardinality(UpTo(T, k - 1)) \in Nat
      <4>1. ASSUME NEW T \in SUBSET Key
            PROVE  /\ Cardinality(UpTo(T, k))
                        = Cardinality(UpTo(T, k - 1)) + IF k \in T THEN 1 ELSE 0
                   /\ Cardinality(UpTo(T, k - 1)) \in Nat
        BY <2>0, CountUpTo
      <4> QED BY <1>1, <4>1
    <3>2. /\ k \in SendFiles => k \notin ReceiveFiles /\ k \notin DeleteFiles
          /\ k \in ReceiveFiles => k \notin DeleteFiles
      BY <2>0, WorkAsPlanned
    <3> QED BY <3>1, <3>2
  <2>4. out[k - 1] \in Nat /\ in[k - 1] \in Nat
    BY <1>2, <1>3, <2>0
  <2> HIDE DEF w, C
  <2>5. ASSUME NEW b \in Nat, KeyWork(k) = <<Op(k, b)>>,
               more = 1, out[k] + in[k] = out[k - 1] + in[k - 1] + b
        PROVE  Len(WorkTo[k]) = C(k) /\ Total(WorkTo[k]) = out[k] + in[k]
    <3>1. Op(k, b) \in Operation /\ Op(k, b).bytes = b
      BY <2>0 DEF Op, Operation
    <3>2. Len(WorkTo[k]) = Len(w) + 1 /\ Total(WorkTo[k]) = Total(w) + b
      BY <2>1, <2>5, <3>1, TotalOfOneMore
    <3> QED BY <2>2, <2>3, <2>5, <3>2
  <2>6. CASE k \in SendFiles
    BY <1>2, <1>3, <2>0, <2>4, <2>5, <2>6, WorkAsPlanned
  <2>7. CASE k \in ReceiveFiles
    BY <1>2, <1>3, <2>0, <2>4, <2>5, <2>7, WorkAsPlanned
  <2>8. CASE k \in DeleteFiles
    BY <1>2, <1>3, <2>0, <2>4, <2>5, <2>8, WorkAsPlanned
  <2>9. CASE k \notin SendFiles \cup ReceiveFiles \cup DeleteFiles
    <3>1. WorkTo[k] = w
      BY <2>0, <2>1, <2>9, WorkAsPlanned, ConcatEmptySeq
    <3>2. more = 0 /\ out[k] = out[k - 1] /\ in[k] = in[k - 1]
      BY <1>2, <1>3, <2>0, <2>4, <2>9
    <3> QED BY <2>2, <2>3, <2>4, <3>1, <3>2
  <2>10. Len(WorkTo[k]) = C(k) /\ Total(WorkTo[k]) = out[k] + in[k]
    BY <2>6, <2>7, <2>8, <2>9
  <2> QED BY <2>0, <2>10
<1>7. Last \in S
  <2> HIDE DEF S
  <2>1. 0..Last \subseteq S
    BY <1>0, <1>5, <1>6, IntervalInduction
  <2> QED BY <1>0, <2>1
<1>8. Work \in Seq(Operation)
  BY <1>0, <1>4
<1>9. C(Last) = TotalFiles
  BY <1>1, CountUpTo DEF TotalFiles
<1>10. TotalBytes = out[Last] + in[Last]
  BY <1>2, <1>3 DEF TotalBytes
<1> QED BY <1>4, <1>7, <1>8, <1>9, <1>10
-----------------------------------------------------------------------------
(* The status keeps to its types and its counters within their totals. *)

StatusTyped(s) ==
  /\ s \in StatusSnapshot /\ Len(s.recent) <= 6
  /\ s.sync # NoSync =>
       /\ s.sync.completedFiles <= s.sync.totalFiles
       /\ s.sync.base <= s.sync.completedBytes
       /\ s.sync.completedBytes <= s.sync.totalBytes

Capped(y) ==
  /\ y \in Sync
  /\ y.completedFiles <= y.totalFiles
  /\ y.base <= y.completedBytes
  /\ y.completedBytes <= y.totalBytes

LEMMA SyncFields ==
  ASSUME NEW y \in Sync
  PROVE  /\ y # NoSync
         /\ y.totalFiles \in Nat /\ y.completedFiles \in Nat /\ y.totalBytes \in Nat
         /\ y.completedBytes \in Nat /\ y.base \in Nat
BY NoSyncAssumption DEF Sync, NoSyncAssumption

LEMMA CappedTyped ==
  ASSUME NEW s, s \in StatusSnapshot, Len(s.recent) <= 6,
         s.sync = NoSync \/ Capped(s.sync)
  PROVE  StatusTyped(s)
BY DEF StatusTyped, Capped

LEMMA StatusFields ==
  ASSUME NEW s, StatusTyped(s)
  PROVE  /\ s \in StatusSnapshot /\ Len(s.recent) <= 6
         /\ s.active \in BOOLEAN /\ s.filename \in Label /\ s.received \in Nat
         /\ s.total \in Nat /\ s.recent \in Seq([label : Label, success : BOOLEAN])
         /\ s.sync = NoSync \/ Capped(s.sync)
BY DEF StatusTyped, StatusSnapshot, Capped

\* Whatever a writer puts there, if the totals are in order.
LEMMA WrittenTyped ==
  ASSUME NEW s, StatusTyped(s), NEW z, Capped(z), NEW active \in BOOLEAN,
         NEW label \in Label, NEW n \in Nat, NEW m \in Nat
  PROVE  /\ StatusTyped([s EXCEPT !.sync = z])
         /\ StatusTyped([s EXCEPT !.received = n, !.sync = z])
         /\ StatusTyped([s EXCEPT !.active = active, !.filename = label, !.received = n,
                                  !.total = m, !.sync = z])
<1>1. /\ s \in StatusSnapshot /\ Len(s.recent) <= 6 /\ z \in Sync
      /\ s.recent \in Seq([label : Label, success : BOOLEAN])
  BY StatusFields DEF Capped
<1> DEFINE t1 == [s EXCEPT !.sync = z]
           t2 == [s EXCEPT !.received = n, !.sync = z]
           t3 == [s EXCEPT !.active = active, !.filename = label, !.received = n,
                           !.total = m, !.sync = z]
<1>2. t1 \in StatusSnapshot /\ t2 \in StatusSnapshot /\ t3 \in StatusSnapshot
  BY <1>1 DEF StatusSnapshot
<1>3. /\ t1.recent = s.recent /\ t1.sync = z /\ t2.recent = s.recent /\ t2.sync = z
      /\ t3.recent = s.recent /\ t3.sync = z
  BY <1>1 DEF StatusSnapshot
<1> HIDE DEF t1, t2, t3
<1>4. StatusTyped(t1) /\ StatusTyped(t2) /\ StatusTyped(t3)
  BY <1>1, <1>2, <1>3, CappedTyped
<1> QED BY <1>4 DEF t1, t2, t3

\* The totals each writer leaves.
TransferSync(y) == [y EXCEPT !.base = y.completedBytes]
ProgressSync(y, n) == [y EXCEPT !.completedBytes = Lesser(y.base + n, y.totalBytes)]
FileDoneSync(y, n) ==
  [y EXCEPT !.completedFiles = Lesser(y.completedFiles + 1, y.totalFiles),
            !.completedBytes = Lesser(y.base + n, y.totalBytes),
            !.base = Lesser(y.base + n, y.totalBytes)]
CompleteSync(y) ==
  [y EXCEPT !.completedFiles = y.totalFiles, !.completedBytes = y.totalBytes,
            !.base = y.totalBytes]

LEMMA LesserTyped ==
  ASSUME NEW a \in Nat, NEW b \in Nat
  PROVE  /\ Lesser(a, b) \in Nat /\ Lesser(a, b) <= b /\ Lesser(a, b) <= a
         /\ a <= b => Lesser(a, b) = a
         /\ \A c \in Nat : c <= a /\ c <= b => c <= Lesser(a, b)
BY DEF Lesser

LEMMA SyncsCapped ==
  ASSUME NEW y, Capped(y), NEW n \in Nat
  PROVE  /\ Capped(TransferSync(y)) /\ Capped(ProgressSync(y, n))
         /\ Capped(FileDoneSync(y, n)) /\ Capped(CompleteSync(y))
<1>1. /\ y \in Sync /\ y.totalFiles \in Nat /\ y.completedFiles \in Nat
      /\ y.totalBytes \in Nat /\ y.completedBytes \in Nat /\ y.base \in Nat
      /\ y.completedFiles <= y.totalFiles /\ y.base <= y.completedBytes
      /\ y.completedBytes <= y.totalBytes /\ y.base <= y.totalBytes /\ y.base <= y.base + n
      /\ y.base + n \in Nat /\ y.completedFiles + 1 \in Nat
  <2>1. /\ y \in Sync /\ y.completedFiles <= y.totalFiles /\ y.base <= y.completedBytes
        /\ y.completedBytes <= y.totalBytes
    BY DEF Capped
  <2>2. /\ y.totalFiles \in Nat /\ y.completedFiles \in Nat
        /\ y.totalBytes \in Nat /\ y.completedBytes \in Nat /\ y.base \in Nat
    BY <2>1, SyncFields
  <2> QED BY <2>1, <2>2
<1> DEFINE b == Lesser(y.base + n, y.totalBytes)
           f == Lesser(y.completedFiles + 1, y.totalFiles)
<1>2. /\ b \in Nat /\ b <= y.totalBytes /\ y.base <= b /\ f \in Nat /\ f <= y.totalFiles
  BY <1>1, LesserTyped
<1>3. Capped(TransferSync(y))
  BY <1>1 DEF TransferSync, Capped, Sync
<1> DEFINE p == y.totalFiles
           q == y.totalBytes
<1>4. Capped(CompleteSync(y))
  <2>1. CompleteSync(y) = [y EXCEPT !.completedFiles = p, !.completedBytes = q, !.base = q]
    BY DEF CompleteSync
  <2>2. p \in Nat /\ q \in Nat /\ y.totalFiles = p /\ y.totalBytes = q
    BY <1>1
  <2> HIDE DEF p, q
  <2>3. CompleteSync(y) = [totalFiles |-> p, completedFiles |-> p, totalBytes |-> q,
                           completedBytes |-> q, base |-> q]
    BY <1>1, <2>1, <2>2 DEF Sync
  <2> QED BY <2>2, <2>3 DEF Capped, Sync
<1>5. ProgressSync(y, n) = [y EXCEPT !.completedBytes = b]
  BY DEF ProgressSync
<1>6. FileDoneSync(y, n) = [y EXCEPT !.completedFiles = f, !.completedBytes = b, !.base = b]
  BY DEF FileDoneSync
<1> HIDE DEF b, f
<1>7. Capped(ProgressSync(y, n))
  BY <1>1, <1>2, <1>5 DEF Capped, Sync
<1>8. Capped(FileDoneSync(y, n))
  <2>1. FileDoneSync(y, n) = [totalFiles |-> y.totalFiles, completedFiles |-> f,
                              totalBytes |-> y.totalBytes, completedBytes |-> b, base |-> b]
    BY <1>1, <1>6 DEF Sync
  <2> QED BY <1>1, <1>2, <2>1 DEF Capped, Sync
<1> QED BY <1>3, <1>4, <1>7, <1>8

LEMMA TransferWrites ==
  ASSUME NEW s \in StatusSnapshot, s.sync # NoSync, NEW label, NEW n
  PROVE  TransferShown(s, label, n) =
           [s EXCEPT !.active = TRUE, !.filename = label, !.received = 0, !.total = n,
                     !.sync = TransferSync(s.sync)]
BY DEF TransferShown, TransferSync, StatusSnapshot

LEMMA ProgressWrites ==
  ASSUME NEW s \in StatusSnapshot, s.sync # NoSync, NEW n
  PROVE  ProgressShown(s, n) =
           [s EXCEPT !.received = n, !.sync = ProgressSync(s.sync, n)]
BY DEF ProgressShown, ProgressSync, StatusSnapshot

LEMMA FileDoneWrites ==
  ASSUME NEW s \in StatusSnapshot, s.sync # NoSync
  PROVE  FileDoneShown(s) =
           [s EXCEPT !.received = s.total, !.sync = FileDoneSync(s.sync, s.total)]
<1>1. s.sync \in Sync
  BY DEF StatusSnapshot
<1> QED BY <1>1 DEF FileDoneShown, FileDoneSync, StatusSnapshot, Sync

LEMMA CompleteWrites ==
  ASSUME NEW s \in StatusSnapshot, s.sync # NoSync
  PROVE  SyncCompleteShown(s) =
           [s EXCEPT !.active = FALSE, !.filename = NoLabel, !.received = 0, !.total = 0,
                     !.sync = CompleteSync(s.sync)]
<1>1. s.sync \in Sync
  BY DEF StatusSnapshot
<1> QED BY <1>1 DEF SyncCompleteShown, CompleteSync, StatusSnapshot, Sync

LEMMA SessionStatusTyped ==
  ASSUME NEW s, StatusTyped(s), NEW label \in Label, NEW n \in Nat, NEW m \in Nat
  PROVE  /\ StatusTyped(BeginShown(s, label, n))
         /\ StatusTyped(PlanShown(s, n, m))
         /\ StatusTyped(TransferShown(s, label, n))
         /\ StatusTyped(MessageShown(s))
         /\ StatusTyped(ProgressShown(s, n))
         /\ StatusTyped(FileDoneShown(s))
         /\ StatusTyped(SyncCompleteShown(s))
<1>0. s \in StatusSnapshot /\ NoLabel \in Label /\ s.total \in Nat
  BY StatusFields DEF Label
<1>1. StatusTyped(BeginShown(s, label, n)) /\ StatusTyped(MessageShown(s))
  BY <1>0, StatusFields DEF BeginShown, MessageShown, StatusTyped, StatusSnapshot
<1>2. StatusTyped(PlanShown(s, n, m))
  <2>1. PICK y : y = [totalFiles |-> n, completedFiles |-> 0, totalBytes |-> m,
                      completedBytes |-> 0, base |-> 0]
    OBVIOUS
  <2>2. y \in Sync /\ Capped(y)
    BY <2>1 DEF Sync, Capped
  <2>3. PlanShown(s, n, m) = [s EXCEPT !.active = TRUE, !.received = 0, !.total = 0, !.sync = y]
    BY <2>1 DEF PlanShown
  <2> QED BY <1>0, <2>2, <2>3, StatusFields, CappedTyped DEF StatusSnapshot
<1>3. CASE s.sync = NoSync
  BY <1>0, <1>1, <1>2, <1>3, StatusFields
  DEF TransferShown, ProgressShown, FileDoneShown, SyncCompleteShown, StatusTyped, StatusSnapshot
<1>4. CASE s.sync # NoSync
  <2>1. /\ Capped(TransferSync(s.sync)) /\ Capped(ProgressSync(s.sync, n))
        /\ Capped(FileDoneSync(s.sync, s.total)) /\ Capped(CompleteSync(s.sync))
    BY <1>0, <1>4, StatusFields, SyncsCapped
  <2>2. StatusTyped(TransferShown(s, label, n))
    <3>1. \A z : Capped(z) => StatusTyped([s EXCEPT !.active = TRUE, !.filename = label, !.received = 0, !.total = n, !.sync = z])
      BY <1>0, WrittenTyped
    <3>2. TransferShown(s, label, n) = [s EXCEPT !.active = TRUE, !.filename = label, !.received = 0, !.total = n, !.sync = TransferSync(s.sync)]
      BY <1>0, <1>4, TransferWrites
    <3> QED BY <2>1, <3>1, <3>2
  <2>3. StatusTyped(ProgressShown(s, n))
    <3>1. \A z : Capped(z) => StatusTyped([s EXCEPT !.received = n, !.sync = z])
      BY <1>0, WrittenTyped
    <3>2. ProgressShown(s, n) = [s EXCEPT !.received = n, !.sync = ProgressSync(s.sync, n)]
      BY <1>0, <1>4, ProgressWrites
    <3> QED BY <2>1, <3>1, <3>2
  <2>4. StatusTyped(FileDoneShown(s))
    <3>1. \A z : Capped(z) => StatusTyped([s EXCEPT !.received = s.total, !.sync = z])
      BY <1>0, WrittenTyped
    <3>2. FileDoneShown(s) = [s EXCEPT !.received = s.total, !.sync = FileDoneSync(s.sync, s.total)]
      BY <1>0, <1>4, FileDoneWrites
    <3> QED BY <2>1, <3>1, <3>2
  <2>5. StatusTyped(SyncCompleteShown(s))
    <3>1. \A z : Capped(z) => StatusTyped([s EXCEPT !.active = FALSE, !.filename = NoLabel, !.received = 0, !.total = 0, !.sync = z])
      BY <1>0, WrittenTyped
    <3>2. SyncCompleteShown(s) = [s EXCEPT !.active = FALSE, !.filename = NoLabel, !.received = 0, !.total = 0, !.sync = CompleteSync(s.sync)]
      BY <1>0, <1>4, CompleteWrites
    <3> QED BY <2>1, <3>1, <3>2
  <2> QED BY <1>1, <1>2, <2>2, <2>3, <2>4, <2>5
<1> QED BY <1>3, <1>4

LEMMA ReportedTyped ==
  ASSUME NEW s, StatusTyped(s), NEW label \in Label, NEW success \in BOOLEAN
  PROVE  /\ StatusTyped(Reported(s, label, success))
         /\ Reported(s, label, success).recent[1].label = label
<1> DEFINE Record == [label : Label, success : BOOLEAN]
           r == [label |-> label, success |-> success]
           q == <<r>> \o s.recent
           n == Lesser(Len(s.recent) + 1, 6)
<1>1. s \in StatusSnapshot /\ s.recent \in Seq(Record) /\ (s.sync = NoSync \/ Capped(s.sync))
  BY StatusFields
<1>2. r \in Record /\ r.label = label /\ Len(s.recent) \in Nat
  BY <1>1
<1> HIDE DEF Record, r
<1>3. q \in Seq(Record) /\ Len(q) = Len(s.recent) + 1 /\ q[1] = r
  BY <1>1, <1>2
<1>4. n \in Nat /\ n <= 6 /\ 1 <= n /\ n <= Len(q)
  BY <1>2, <1>3 DEF Lesser
<1> HIDE DEF q, n
<1>5. PICK recent : recent = SubSeq(q, 1, n)
  OBVIOUS
<1>6. recent \in Seq(Record) /\ Len(recent) = n /\ recent[1] = q[1]
  BY <1>3, <1>4, <1>5, SubSeqProperties
<1>7. Reported(s, label, success) = [s EXCEPT !.recent = recent]
  BY <1>1, <1>5 DEF Reported, r, q, n, StatusSnapshot
<1>8. /\ [s EXCEPT !.recent = recent] \in StatusSnapshot
      /\ [s EXCEPT !.recent = recent].recent = recent
      /\ [s EXCEPT !.recent = recent].sync = s.sync
  BY <1>1, <1>6 DEF StatusSnapshot, Record
<1>9. StatusTyped([s EXCEPT !.recent = recent])
  BY <1>1, <1>4, <1>6, <1>8, CappedTyped
<1> QED BY <1>2, <1>3, <1>6, <1>7, <1>8, <1>9

LEMMA UploadStatusTyped ==
  ASSUME NEW s, StatusTyped(s), NEW label \in Label
  PROVE  /\ StatusTyped(CompleteShown(s, label))
         /\ StatusTyped(FailShown(s, label))
         /\ CompleteShown(s, label).recent[1].label = label
         /\ FailShown(s, label).recent[1].label =
              IF s.active /\ s.filename # NoLabel THEN s.filename ELSE label
<1>1. s \in StatusSnapshot /\ s.filename \in Label
  BY StatusFields
<1>2. PICK t : t = [s EXCEPT !.active = FALSE, !.received = s.total, !.sync = NoSync]
  OBVIOUS
<1>3. StatusTyped(t)
  BY <1>1, <1>2, StatusFields DEF StatusTyped, StatusSnapshot
<1>4. CompleteShown(s, label) = Reported(t, label, TRUE)
  BY <1>2 DEF CompleteShown
<1> DEFINE who == IF s.active /\ s.filename # NoLabel THEN s.filename ELSE label
           quiet == [s EXCEPT !.active = FALSE]
           u == IF s.sync = NoSync THEN quiet
                ELSE [quiet EXCEPT !.sync.base = s.sync.completedBytes]
<1>5. FailShown(s, label) = Reported(u, who, FALSE)
  BY DEF FailShown
<1>6. StatusTyped(u)
  <2>1. CASE s.sync = NoSync
    BY <1>1, <2>1, StatusFields DEF StatusTyped, StatusSnapshot
  <2>2. CASE s.sync # NoSync
    <3>1. s.sync \in Sync /\ Capped(s.sync)
      BY <2>2, StatusFields DEF Capped
    <3>2. u = [s EXCEPT !.active = FALSE, !.sync = TransferSync(s.sync)]
      BY <1>1, <2>2, <3>1 DEF TransferSync, StatusSnapshot
    <3>3. Capped(TransferSync(s.sync))
      BY <3>1, SyncsCapped
    <3>4. PICK z : z = TransferSync(s.sync)
      OBVIOUS
    <3>5. /\ u \in StatusSnapshot /\ u.recent = s.recent /\ u.sync = z
      BY <1>1, <3>2, <3>3, <3>4 DEF StatusSnapshot, Capped
    <3> QED BY <3>3, <3>4, <3>5, StatusFields, CappedTyped
  <2> QED BY <2>1, <2>2
<1>7. who \in Label
  BY <1>1
<1> HIDE DEF u, who
<1>8. CompleteShown(s, label).recent[1].label = label
  BY <1>3, <1>4, ReportedTyped
<1>9. FailShown(s, label).recent[1].label = who /\ StatusTyped(FailShown(s, label))
  BY <1>5, <1>6, <1>7, ReportedTyped
<1> QED BY <1>3, <1>4, <1>8, <1>9, ReportedTyped DEF who
-----------------------------------------------------------------------------
(* The invariant. *)

\* A file is under way only within the work, and an upload within its bound.
Doing ==
  /\ spc = "transfer" => at < Len(Work) /\ offset <= Work[at + 1].bytes
  /\ spc # "transfer" => offset = 0
  /\ upc = "receiving" => news < MaxNews

\* What the session shows as long as it has the status to itself.
Shown ==
  alone =>
    /\ spc \in {"loop", "transfer"} /\ at <= Len(Work)
    /\ status.sync # NoSync
    /\ status.sync.totalFiles = Len(Work) /\ status.sync.totalBytes = Total(Work)
    /\ status.sync.completedFiles = at /\ status.sync.base = Sums(Work)[at]
    /\ status.sync.completedBytes = Sums(Work)[at] + offset
    /\ spc = "transfer" =>
         /\ status.active /\ status.filename = Work[at + 1].label
         /\ status.received = offset /\ status.total = Work[at + 1].bytes

\* What the upload shows as long as it has the status to itself.
Own == upc = "receiving" /\ unmixed => status.active /\ status.filename = name

IInv == TypeOK /\ Doing /\ Shown /\ Own

\* The work depends on the role and the snapshots alone.
LEMMA WorkKept ==
  ASSUME UNCHANGED <<role, mine, theirs>>
  PROVE  Work' = Work
BY DEF Work, InitiatorWork, AcceptorWork, WonHere, WonThere

LEMMA WorkFacts ==
  ASSUME TypeOK
  PROVE  /\ Snapshots
         /\ Work \in Seq(Operation) /\ Len(Work) \in Nat
         /\ \A n \in 1..Len(Work) : Work[n].label \in Label /\ Work[n].bytes \in Nat
         /\ Sums(Work)[0] = 0
         /\ \A n \in 0..Len(Work) : Sums(Work)[n] \in Nat /\ Sums(Work)[n] <= Total(Work)
         /\ \A n \in 1..Len(Work) : Sums(Work)[n] = Sums(Work)[n - 1] + Work[n].bytes
         /\ Total(Work) \in Nat
<1>1. Snapshots
  BY DEF TypeOK, Snapshots
<1>2. Work \in Seq(Operation)
  BY <1>1, PlanExact
<1>3. /\ Len(Work) \in Nat
      /\ \A n \in 1..Len(Work) : Work[n] \in Operation /\ Work[n].bytes \in Nat
  BY <1>2, OperationsOf
<1>4. /\ Sums(Work) \in [0..Len(Work) -> Nat] /\ Sums(Work)[0] = 0
      /\ \A n \in 1..Len(Work) : Sums(Work)[n] = Sums(Work)[n - 1] + Work[n].bytes
  BY <1>2, SumsDefined
<1>5. \A n \in 0..Len(Work) : Sums(Work)[n] <= Sums(Work)[Len(Work)]
  BY <1>2, SumsGrow
<1>6. \A n \in 1..Len(Work) : Work[n].label \in Label
  BY <1>3 DEF Operation, Label
<1>7. Total(Work) \in Nat
  BY <1>3, <1>4 DEF Total
<1> QED BY <1>1, <1>2, <1>3, <1>4, <1>5, <1>6, <1>7 DEF Total

(* What each writer leaves, field by field. *)

LEMMA TransferFields ==
  ASSUME NEW s \in StatusSnapshot, s.sync \in Sync, NEW label \in Label, NEW n \in Nat
  PROVE  /\ TransferShown(s, label, n).active = TRUE
         /\ TransferShown(s, label, n).filename = label
         /\ TransferShown(s, label, n).received = 0
         /\ TransferShown(s, label, n).total = n
         /\ TransferShown(s, label, n).sync = TransferSync(s.sync)
<1>1. s.sync # NoSync
  BY NoSyncAssumption DEF NoSyncAssumption
<1>2. PICK z : z = TransferSync(s.sync)
  OBVIOUS
<1>3. TransferShown(s, label, n) =
        [s EXCEPT !.active = TRUE, !.filename = label, !.received = 0, !.total = n, !.sync = z]
  BY <1>1, <1>2, TransferWrites
<1> QED BY <1>2, <1>3 DEF StatusSnapshot

LEMMA ProgressFields ==
  ASSUME NEW s \in StatusSnapshot, NEW n
  PROVE  /\ ProgressShown(s, n).active = s.active
         /\ ProgressShown(s, n).filename = s.filename
         /\ ProgressShown(s, n).received = n
         /\ ProgressShown(s, n).total = s.total
         /\ s.sync # NoSync => ProgressShown(s, n).sync = ProgressSync(s.sync, n)
<1>1. CASE s.sync = NoSync
  BY <1>1 DEF ProgressShown, StatusSnapshot
<1>2. CASE s.sync # NoSync
  <2>1. PICK z : z = ProgressSync(s.sync, n)
    OBVIOUS
  <2>2. ProgressShown(s, n) = [s EXCEPT !.received = n, !.sync = z]
    BY <1>2, <2>1, ProgressWrites
  <2> QED BY <2>1, <2>2 DEF StatusSnapshot
<1> QED BY <1>1, <1>2

LEMMA FileDoneFields ==
  ASSUME NEW s \in StatusSnapshot, s.sync \in Sync
  PROVE  FileDoneShown(s).sync = FileDoneSync(s.sync, s.total)
<1>1. s.sync # NoSync
  BY NoSyncAssumption DEF NoSyncAssumption
<1> QED BY <1>1, FileDoneWrites DEF StatusSnapshot

LEMMA SyncsFields ==
  ASSUME NEW y \in Sync, NEW n \in Nat
  PROVE  /\ TransferSync(y) \in Sync
         /\ TransferSync(y).totalFiles = y.totalFiles
         /\ TransferSync(y).totalBytes = y.totalBytes
         /\ TransferSync(y).completedFiles = y.completedFiles
         /\ TransferSync(y).completedBytes = y.completedBytes
         /\ TransferSync(y).base = y.completedBytes
         /\ ProgressSync(y, n) \in Sync
         /\ ProgressSync(y, n).totalFiles = y.totalFiles
         /\ ProgressSync(y, n).totalBytes = y.totalBytes
         /\ ProgressSync(y, n).completedFiles = y.completedFiles
         /\ ProgressSync(y, n).completedBytes = Lesser(y.base + n, y.totalBytes)
         /\ ProgressSync(y, n).base = y.base
         /\ FileDoneSync(y, n) \in Sync
         /\ FileDoneSync(y, n).totalFiles = y.totalFiles
         /\ FileDoneSync(y, n).totalBytes = y.totalBytes
         /\ FileDoneSync(y, n).completedFiles = Lesser(y.completedFiles + 1, y.totalFiles)
         /\ FileDoneSync(y, n).completedBytes = Lesser(y.base + n, y.totalBytes)
         /\ FileDoneSync(y, n).base = Lesser(y.base + n, y.totalBytes)
<1>1. /\ y.totalFiles \in Nat /\ y.completedFiles \in Nat /\ y.totalBytes \in Nat
      /\ y.completedBytes \in Nat /\ y.base \in Nat
  BY SyncFields
<1> DEFINE b == Lesser(y.base + n, y.totalBytes)
           f == Lesser(y.completedFiles + 1, y.totalFiles)
<1>2. b \in Nat /\ f \in Nat
  <2>1. y.base + n \in Nat /\ y.completedFiles + 1 \in Nat
    BY <1>1
  <2> QED BY <1>1, <2>1, LesserTyped
<1>3. /\ ProgressSync(y, n) = [y EXCEPT !.completedBytes = b]
      /\ FileDoneSync(y, n) = [y EXCEPT !.completedFiles = f, !.completedBytes = b, !.base = b]
  BY DEF ProgressSync, FileDoneSync
<1> HIDE DEF b, f
<1>4. /\ TransferSync(y) \in Sync
      /\ TransferSync(y).totalFiles = y.totalFiles
      /\ TransferSync(y).totalBytes = y.totalBytes
      /\ TransferSync(y).completedFiles = y.completedFiles
      /\ TransferSync(y).completedBytes = y.completedBytes
      /\ TransferSync(y).base = y.completedBytes
  BY <1>1 DEF TransferSync, Sync
<1>5. /\ ProgressSync(y, n) \in Sync
      /\ ProgressSync(y, n).totalFiles = y.totalFiles
      /\ ProgressSync(y, n).totalBytes = y.totalBytes
      /\ ProgressSync(y, n).completedFiles = y.completedFiles
      /\ ProgressSync(y, n).completedBytes = b
      /\ ProgressSync(y, n).base = y.base
  BY <1>2, <1>3 DEF Sync
<1>6. /\ FileDoneSync(y, n) \in Sync
      /\ FileDoneSync(y, n).totalFiles = y.totalFiles
      /\ FileDoneSync(y, n).totalBytes = y.totalBytes
      /\ FileDoneSync(y, n).completedFiles = f
      /\ FileDoneSync(y, n).completedBytes = b
      /\ FileDoneSync(y, n).base = b
  BY <1>2, <1>3 DEF Sync
<1> QED BY <1>4, <1>5, <1>6 DEF b, f
-----------------------------------------------------------------------------
(* The steps of the session. *)

\* A session keeps the type invariant and the upload's, whatever it shows.
LEMMA SessionKeeps ==
  ASSUME IInv, NEW next, StatusTyped(next), SessionWrites(next)
  PROVE  /\ status' = next /\ status' \in StatusSnapshot /\ StatusTyped(status')
         /\ unmixed' = FALSE /\ Own' /\ UNCHANGED <<upc, name, got, news>>
         /\ upc' = "receiving" => news' < MaxNews
BY DEF SessionWrites, upload, Own, IInv, Doing, StatusTyped

LEMMA TypeFields ==
  ASSUME TypeOK
  PROVE  /\ StatusTyped(status) /\ status \in StatusSnapshot /\ status.active \in BOOLEAN
         /\ status.sync = NoSync \/ Capped(status.sync)
         /\ status.filename \in Label /\ status.total \in Nat
         /\ at \in Nat /\ offset \in Nat
         /\ Peer \in Label /\ NoLabel \in Label
<1>1. StatusTyped(status) /\ at \in Nat /\ offset \in Nat
  BY DEF TypeOK, StatusTyped
<1> QED BY <1>1, StatusFields DEF Label

LEMMA Ends ==
  ASSUME IInv, NEW next, StatusTyped(next), SessionWrites(next), SessionOver
  PROVE  IInv'
<1>1. /\ status' = next /\ status' \in StatusSnapshot /\ StatusTyped(status')
      /\ unmixed' = FALSE /\ Own' /\ UNCHANGED <<upc, name, got, news>>
      /\ upc' = "receiving" => news' < MaxNews
  BY SessionKeeps
<1>2. Nothing \in Snapshot
  BY DEF Nothing, Snapshot
<1>3. TypeOK'
  BY <1>1, <1>2 DEF IInv, TypeOK, SessionOver, StatusTyped
<1>4. Doing'
  BY <1>1 DEF Doing, SessionOver
<1>5. Shown'
  BY DEF Shown, SessionOver
<1> QED BY <1>1, <1>3, <1>4, <1>5 DEF IInv

LEMMA BeginSessionStep ==
  ASSUME IInv, NEW as \in {"initiator", "acceptor"}, BeginSession(as)
  PROVE  IInv'
<1>1. TypeOK /\ Doing /\ Shown
  BY DEF IInv
<1>2. StatusTyped(ActivityShown(status, Peer))
  BY <1>1, TypeFields, SessionStatusTyped DEF ActivityShown
<1>3. /\ StatusTyped(status') /\ status' \in StatusSnapshot
      /\ unmixed' = FALSE /\ Own' /\ UNCHANGED <<upc, name, got, news>>
      /\ upc' = "receiving" => news' < MaxNews
  BY <1>2, SessionKeeps DEF BeginSession
<1>4. TypeOK'
  BY <1>1, <1>3 DEF TypeOK, StatusTyped, BeginSession
<1>5. Doing'
  BY <1>1, <1>3 DEF Doing, BeginSession
<1>6. ~alone'
  BY <1>1 DEF Shown, TypeOK, BeginSession
<1> QED BY <1>3, <1>4, <1>5, <1>6 DEF IInv, Shown

LEMMA AnnounceStep ==
  ASSUME IInv, Announce
  PROVE  IInv'
<1>1. TypeOK /\ Doing
  BY DEF IInv
<1>2. Snapshots'
  BY <1>1, InputAssumption DEF Announce, Snapshots, TypeOK, InputAssumption
<1>3. (Snapshots => /\ Work \in Seq(Operation)
                    /\ TotalFiles = Len(Work)
                    /\ TotalBytes = Total(Work))'
  BY PlanExact, PTL
<1>4. /\ TotalFiles' = Len(Work') /\ TotalBytes' = Total(Work)' /\ Work' \in Seq(Operation)
  BY <1>2, <1>3
<1>5. PICK w : w = Work'
  OBVIOUS
<1>6. /\ TotalFiles' = Len(w) /\ TotalBytes' = Total(w) /\ Len(w) \in Nat /\ Total(w) \in Nat
      /\ Sums(w)[0] = 0
  <2>1. w \in Seq(Operation) /\ Len(w) \in Nat
    BY <1>4, <1>5
  <2>2. Sums(w) \in [0..Len(w) -> Nat] /\ Sums(w)[0] = 0
    BY <2>1, SumsDefined
  <2> QED BY <1>4, <1>5, <2>1, <2>2 DEF Total, Sums
<1>7. PICK next : next = PlanShown(status, Len(w), Total(w))
  OBVIOUS
<1>8. StatusTyped(next)
  BY <1>1, <1>6, <1>7, TypeFields, SessionStatusTyped
<1>9. SessionWrites(next)
  BY <1>6, <1>7 DEF Announce
<1>10. /\ status' = next /\ StatusTyped(status') /\ status' \in StatusSnapshot
       /\ unmixed' = FALSE /\ Own' /\ UNCHANGED <<upc, name, got, news>>
       /\ upc' = "receiving" => news' < MaxNews
  BY <1>8, <1>9, SessionKeeps
<1>11. TypeOK'
  BY <1>1, <1>2, <1>10 DEF TypeOK, StatusTyped, Announce, Snapshots
<1>12. Doing'
  BY <1>1, <1>10 DEF Doing, Announce
<1>13. Shown'
  <2>1. offset' = 0 /\ at' = 0 /\ spc' = "loop"
    BY <1>1 DEF Announce, Doing
  <2>2. status'.sync = [totalFiles |-> Len(w), completedFiles |-> 0, totalBytes |-> Total(w),
                        completedBytes |-> 0, base |-> 0]
    BY <1>1, <1>7, <1>10, TypeFields DEF PlanShown, StatusSnapshot
  <2>3. status'.sync # NoSync
    <3>1. status'.sync \in Sync
      BY <1>6, <2>2 DEF Sync
    <3> QED BY <3>1, NoSyncAssumption DEF NoSyncAssumption
  <2>4. at' <= Len(w)
    BY <1>6, <2>1
  <2> QED BY <1>5, <1>6, <2>1, <2>2, <2>3, <2>4 DEF Shown, Total, Sums
<1> QED BY <1>10, <1>11, <1>12, <1>13 DEF IInv

LEMMA BeginFileStep ==
  ASSUME IInv, NEW n \in Piece, BeginFile(n)
  PROVE  IInv'
<1> DEFINE op == Work[at + 1]
           t == TransferShown(status, op.label, op.bytes)
<1>1. TypeOK /\ Doing /\ Shown /\ n \in Nat
  BY InputAssumption DEF IInv, InputAssumption
<1>2. /\ spc = "loop" /\ at < Len(Work) /\ n <= op.bytes /\ spc' = "transfer" /\ offset' = n
      /\ SessionWrites(ProgressShown(t, n))
      /\ UNCHANGED <<role, mine, theirs, at, alone>>
  BY DEF BeginFile
<1>3. Work' = Work
  BY <1>2, WorkKept
<1>4. at + 1 \in 1..Len(Work) /\ at \in 0..Len(Work) /\ (at + 1) - 1 = at
  BY <1>1, <1>2, WorkFacts, TypeFields
<1>5. op.label \in Label /\ op.bytes \in Nat
  BY <1>1, <1>4, WorkFacts
<1>6. StatusTyped(t) /\ t \in StatusSnapshot
  BY <1>1, <1>5, TypeFields, SessionStatusTyped, StatusFields
<1>7. StatusTyped(ProgressShown(t, n))
  <2> HIDE DEF t
  <2> QED BY <1>1, <1>5, <1>6, SessionStatusTyped
<1>8. /\ status' = ProgressShown(t, n) /\ StatusTyped(status') /\ status' \in StatusSnapshot
      /\ unmixed' = FALSE /\ Own' /\ UNCHANGED <<upc, name, got, news>>
      /\ upc' = "receiving" => news' < MaxNews
  BY <1>2, <1>7, SessionKeeps
<1>9. TypeOK'
  BY <1>1, <1>2, <1>8 DEF TypeOK, StatusTyped
<1>10. Doing'
  BY <1>1, <1>2, <1>3, <1>8 DEF Doing
<1>11. ASSUME alone PROVE Shown'
  <2> DEFINE sums == Sums(Work)
             all == Total(Work)
             y == status.sync
  <2>1. /\ y \in Sync /\ y.totalFiles = Len(Work) /\ y.totalBytes = all
        /\ y.completedFiles = at /\ y.base = sums[at] /\ y.completedBytes = sums[at] + offset
        /\ offset = 0
    BY <1>1, <1>2, <1>11 DEF Shown, Doing, TypeOK, StatusSnapshot
  <2>2. /\ sums[at] \in Nat /\ sums[at + 1] = sums[at] + op.bytes
        /\ sums[at + 1] <= all /\ all \in Nat
    BY <1>1, <1>4, WorkFacts
  <2>3. t.sync = TransferSync(y) /\ t.active = TRUE /\ t.filename = op.label /\ t.total = op.bytes
    <3>1. status \in StatusSnapshot /\ status.sync \in Sync
      BY <1>1, <2>1, TypeFields
    <3>2. PICK label \in Label, bytes \in Nat : label = op.label /\ bytes = op.bytes
      BY <1>5
    <3>3. /\ TransferShown(status, label, bytes).active = TRUE
          /\ TransferShown(status, label, bytes).filename = label
          /\ TransferShown(status, label, bytes).total = bytes
          /\ TransferShown(status, label, bytes).sync = TransferSync(status.sync)
      BY <3>1, TransferFields
    <3> QED BY <3>2, <3>3
  <2>4. /\ t.sync \in Sync /\ t.sync.totalFiles = Len(Work) /\ t.sync.totalBytes = all
        /\ t.sync.completedFiles = at /\ t.sync.base = sums[at]
    <3> HIDE DEF t, y, sums, all
    <3>1. sums[at] + 0 = sums[at]
      BY <2>2
    <3>2. /\ TransferSync(y) \in Sync
          /\ TransferSync(y).totalFiles = y.totalFiles
          /\ TransferSync(y).totalBytes = y.totalBytes
          /\ TransferSync(y).completedFiles = y.completedFiles
          /\ TransferSync(y).base = y.completedBytes
      BY <1>1, <2>1, SyncsFields
    <3> QED BY <2>1, <2>3, <3>1, <3>2
  <2> HIDE DEF t, sums, all, y
  <2>5. t.sync # NoSync
    BY <2>4, SyncFields
  <2>6. /\ status'.active = TRUE /\ status'.filename = op.label /\ status'.received = n
        /\ status'.total = op.bytes /\ status'.sync = ProgressSync(t.sync, n)
    BY <1>6, <1>8, <2>3, <2>5, ProgressFields
  <2>7. Lesser(sums[at] + n, all) = sums[at] + n
    BY <1>1, <1>2, <1>5, <2>2 DEF Lesser
  <2>8. /\ status'.sync \in Sync /\ status'.sync.totalFiles = Len(Work)
        /\ status'.sync.totalBytes = all /\ status'.sync.completedFiles = at
        /\ status'.sync.base = sums[at] /\ status'.sync.completedBytes = sums[at] + n
    BY <1>1, <2>4, <2>6, <2>7, SyncsFields
  <2>9. status'.sync # NoSync
    BY <2>8, SyncFields
  <2>10. at <= Len(Work)
    BY <1>4
  <2>11. Total(Work)' = Total(Work) /\ Sums(Work)' = Sums(Work)
    BY <1>3 DEF Total, Sums
  <2> QED BY <1>2, <1>3, <2>6, <2>8, <2>9, <2>10, <2>11 DEF Shown, sums, all
<1> QED BY <1>2, <1>8, <1>9, <1>10, <1>11 DEF IInv, Shown

LEMMA MoveBytesStep ==
  ASSUME IInv, NEW n \in Piece, MoveBytes(n)
  PROVE  IInv'
<1> DEFINE op == Work[at + 1]
<1>1. TypeOK /\ Doing /\ Shown /\ n \in Nat /\ offset \in Nat
  BY InputAssumption, TypeFields DEF IInv, InputAssumption
<1>2. /\ spc = "transfer" /\ n \in 1..(op.bytes - offset) /\ offset' = offset + n
      /\ SessionWrites(ProgressShown(status, offset + n))
      /\ UNCHANGED <<role, mine, theirs, spc, at, alone>>
  BY DEF MoveBytes
<1>3. Work' = Work
  BY <1>2, WorkKept
<1>4. at < Len(Work) /\ at + 1 \in 1..Len(Work) /\ at \in 0..Len(Work) /\ (at + 1) - 1 = at
  BY <1>1, <1>2, WorkFacts, TypeFields DEF Doing
<1>5. op.label \in Label /\ op.bytes \in Nat
  BY <1>1, <1>4, WorkFacts
<1>6. offset + n \in Nat /\ offset + n <= op.bytes
  BY <1>1, <1>2, <1>5
<1>7. StatusTyped(ProgressShown(status, offset + n))
  BY <1>1, <1>6, TypeFields, SessionStatusTyped
<1>8. /\ status' = ProgressShown(status, offset + n) /\ StatusTyped(status')
      /\ status' \in StatusSnapshot
      /\ unmixed' = FALSE /\ Own' /\ UNCHANGED <<upc, name, got, news>>
      /\ upc' = "receiving" => news' < MaxNews
  BY <1>2, <1>7, SessionKeeps
<1>9. TypeOK'
  BY <1>1, <1>2, <1>6, <1>8 DEF TypeOK, StatusTyped
<1>10. Doing'
  BY <1>1, <1>2, <1>3, <1>4, <1>6, <1>8 DEF Doing
<1>11. ASSUME alone PROVE Shown'
  <2> DEFINE sums == Sums(Work)
             all == Total(Work)
             y == status.sync
  <2>1. /\ y \in Sync /\ y.totalFiles = Len(Work) /\ y.totalBytes = all
        /\ y.completedFiles = at /\ y.base = sums[at] /\ y # NoSync
        /\ status.active /\ status.filename = op.label /\ status.total = op.bytes
    BY <1>1, <1>2, <1>11 DEF Shown, TypeOK, StatusSnapshot
  <2>2. /\ sums[at] \in Nat /\ sums[at + 1] = sums[at] + op.bytes
        /\ sums[at + 1] <= all /\ all \in Nat
    BY <1>1, <1>4, WorkFacts
  <2>3. /\ status'.active = status.active /\ status'.filename = op.label
        /\ status'.received = offset + n /\ status'.total = op.bytes
        /\ status'.sync = ProgressSync(y, offset + n)
    BY <1>1, <1>8, <2>1, TypeFields, ProgressFields
  <2> HIDE DEF sums, all, y
  <2>4. Lesser(sums[at] + (offset + n), all) = sums[at] + (offset + n)
    BY <1>5, <1>6, <2>2 DEF Lesser
  <2>5. /\ status'.sync \in Sync /\ status'.sync.totalFiles = Len(Work)
        /\ status'.sync.totalBytes = all /\ status'.sync.completedFiles = at
        /\ status'.sync.base = sums[at] /\ status'.sync.completedBytes = sums[at] + (offset + n)
    BY <1>6, <2>1, <2>3, <2>4, SyncsFields
  <2>6. status'.sync # NoSync
    BY <2>5, SyncFields
  <2>7. at <= Len(Work)
    BY <1>4
  <2>8. Total(Work)' = Total(Work) /\ Sums(Work)' = Sums(Work)
    BY <1>3 DEF Total, Sums
  <2> QED BY <1>2, <1>3, <2>1, <2>3, <2>5, <2>6, <2>7, <2>8 DEF Shown, sums, all
<1> QED BY <1>2, <1>8, <1>9, <1>10, <1>11 DEF IInv, Shown

LEMMA EndFileStep ==
  ASSUME IInv, EndFile
  PROVE  IInv'
<1> DEFINE op == Work[at + 1]
<1>1. TypeOK /\ Doing /\ Shown /\ at \in Nat
  BY TypeFields DEF IInv
<1>2. /\ spc = "transfer" /\ offset = op.bytes /\ spc' = "loop" /\ at' = at + 1 /\ offset' = 0
      /\ SessionWrites(FileDoneShown(status))
      /\ UNCHANGED <<role, mine, theirs, alone>>
  BY DEF EndFile
<1>3. Work' = Work
  BY <1>2, WorkKept
<1>4. /\ at < Len(Work) /\ at + 1 \in 1..Len(Work) /\ at \in 0..Len(Work)
      /\ at + 1 \in 0..Len(Work) /\ (at + 1) - 1 = at /\ Len(Work) \in Nat
  BY <1>1, <1>2, WorkFacts DEF Doing
<1>5. op.bytes \in Nat
  BY <1>1, <1>4, WorkFacts
<1>6. StatusTyped(FileDoneShown(status))
  BY <1>1, TypeFields, SessionStatusTyped
<1>7. /\ status' = FileDoneShown(status) /\ StatusTyped(status') /\ status' \in StatusSnapshot
      /\ unmixed' = FALSE /\ Own' /\ UNCHANGED <<upc, name, got, news>>
      /\ upc' = "receiving" => news' < MaxNews
  BY <1>2, <1>6, SessionKeeps
<1>8. TypeOK'
  <2>1. at' \in Nat /\ offset' \in Nat
    BY <1>1, <1>2
  <2> QED BY <1>1, <1>2, <1>7, <2>1 DEF TypeOK, StatusTyped
<1>9. Doing'
  BY <1>2, <1>7 DEF Doing
<1>10. ASSUME alone PROVE Shown'
  <2> DEFINE sums == Sums(Work)
             all == Total(Work)
             y == status.sync
  <2>1. /\ y \in Sync /\ y.totalFiles = Len(Work) /\ y.totalBytes = all
        /\ y.completedFiles = at /\ y.base = sums[at] /\ status.total = op.bytes
    BY <1>1, <1>2, <1>10 DEF Shown, TypeOK, StatusSnapshot
  <2>2. /\ sums[at] \in Nat /\ sums[at + 1] = sums[at] + op.bytes /\ sums[at + 1] \in Nat
        /\ sums[at + 1] <= all /\ all \in Nat
    BY <1>1, <1>4, WorkFacts
  <2>3. status'.sync = FileDoneSync(y, op.bytes)
    BY <1>1, <1>7, <2>1, TypeFields, FileDoneFields
  <2> HIDE DEF sums, all, y
  <2>4. /\ Lesser(sums[at] + op.bytes, all) = sums[at + 1]
        /\ Lesser(at + 1, Len(Work)) = at + 1
    BY <1>1, <1>4, <1>5, <2>2 DEF Lesser
  <2>5. /\ status'.sync \in Sync /\ status'.sync.totalFiles = Len(Work)
        /\ status'.sync.totalBytes = all /\ status'.sync.completedFiles = at + 1
        /\ status'.sync.base = sums[at + 1] /\ status'.sync.completedBytes = sums[at + 1]
    BY <1>5, <2>1, <2>3, <2>4, SyncsFields
  <2>6. status'.sync # NoSync
    BY <2>5, SyncFields
  <2>7. at + 1 <= Len(Work) /\ sums[at + 1] = sums[at + 1] + 0
    BY <1>4, <2>2
  <2>8. Total(Work)' = Total(Work) /\ Sums(Work)' = Sums(Work)
    BY <1>3 DEF Total, Sums
  <2> QED BY <1>2, <1>3, <2>5, <2>6, <2>7, <2>8 DEF Shown, sums, all
<1> QED BY <1>2, <1>7, <1>8, <1>9, <1>10 DEF IInv, Shown

LEMMA SessionKeepsIInv ==
  ASSUME IInv, SessionStep
  PROVE  IInv'
<1>1. TypeOK /\ Peer \in Label
  BY TypeFields DEF IInv
<1>2. StatusTyped(SyncCompleteShown(status)) /\ StatusTyped(MessageShown(status))
  BY <1>1, TypeFields, SessionStatusTyped
<1>3. CASE EndSession
  BY <1>2, <1>3, Ends DEF EndSession
<1>4. CASE FailSession
  BY <1>2, <1>4, Ends DEF FailSession
<1> QED
  BY <1>3, <1>4, BeginSessionStep, AnnounceStep, BeginFileStep, MoveBytesStep, EndFileStep
  DEF SessionStep
-----------------------------------------------------------------------------
(* The steps of the upload, and the messages of other threads. *)

\* An upload that writes the status leaves the session's part as it is.
LEMMA UploadKeeps ==
  ASSUME IInv, UNCHANGED session, ~alone', alone' \in BOOLEAN, unmixed' \in BOOLEAN,
         StatusTyped(status'), upc' \in {"idle", "receiving"}, name' \in Upload \cup {NoLabel},
         got' \in 0..UploadSize, news' \in 0..MaxNews, upc' = "receiving" => news' < MaxNews,
         Own'
  PROVE  IInv'
<1>1. TypeOK'
  BY DEF IInv, TypeOK, StatusTyped, session
<1>2. Doing'
  <2>1. Work' = Work
    BY WorkKept DEF session
  <2> QED BY <2>1 DEF IInv, Doing, session
<1> QED BY <1>1, <1>2 DEF IInv, Shown

LEMMA UploadKeepsIInv ==
  ASSUME IInv, UploadStep
  PROVE  IInv'
<1>1. TypeOK /\ Doing /\ Own /\ UploadSize \in Nat \ {0} /\ MaxNews \in Nat
  BY BoundAssumption DEF IInv, BoundAssumption
<1>2. /\ news \in 0..MaxNews /\ got \in 0..UploadSize /\ upc \in {"idle", "receiving"}
      /\ name \in Upload \cup {NoLabel} /\ name \in Label /\ unmixed \in BOOLEAN
      /\ upc = "receiving" => news < MaxNews
      /\ StatusTyped(status) /\ status \in StatusSnapshot
  BY <1>1, TypeFields DEF TypeOK, Doing, Label
<1>3. ASSUME NEW file \in Upload, BeginUpload(file) PROVE IInv'
  <2>1. file \in Label /\ UploadSize \in Nat
    BY <1>1 DEF Label
  <2>2. StatusTyped(status') /\ status'.active /\ status'.filename = name'
    BY <1>2, <1>3, <2>1, SessionStatusTyped
    DEF BeginUpload, UploadWrites, BeginShown, StatusSnapshot
  <2>3. /\ upc' = "receiving" /\ name' = file /\ got' \in 0..UploadSize /\ unmixed' = TRUE
        /\ news' = news /\ news < MaxNews /\ alone' = FALSE /\ UNCHANGED session
    BY <1>1, <1>3 DEF BeginUpload, UploadWrites
  <2>4. Own'
    BY <2>2 DEF Own
  <2> QED
    BY <1>2, <2>2, <2>3, <2>4, UploadKeeps
<1>4. ASSUME ReceiveBytes PROVE IInv'
  <2>1. got + 1 \in Nat /\ got + 1 \in 0..UploadSize
    BY <1>1, <1>2, <1>4 DEF ReceiveBytes
  <2>2. StatusTyped(ProgressShown(status, got + 1))
    BY <1>2, <2>1, SessionStatusTyped
  <2>3. StatusTyped(status') /\ status'.active = status.active /\ status'.filename = status.filename
    BY <1>2, <1>4, <2>2, ProgressFields DEF ReceiveBytes, UploadWrites
  <2> QED
    BY <1>1, <1>2, <1>4, <2>1, <2>3, UploadKeeps DEF ReceiveBytes, UploadWrites, Own
<1>5. ASSUME CompleteUpload \/ FailUpload PROVE IInv'
  <2>1. StatusTyped(status')
    BY <1>2, <1>5, UploadStatusTyped DEF CompleteUpload, FailUpload, UploadWrites
  <2>2. news' \in 0..MaxNews /\ upc' = "idle"
    BY <1>1, <1>2, <1>5 DEF CompleteUpload, FailUpload
  <2> QED
    BY <1>2, <1>5, <2>1, <2>2, UploadKeeps DEF CompleteUpload, FailUpload, UploadWrites, Own
<1>6. ASSUME NEW file \in Upload, RefuseFile(file) PROVE IInv'
  <2>1. file \in Label
    BY DEF Label
  <2>2. StatusTyped(status')
    BY <1>2, <1>6, <2>1, UploadStatusTyped DEF RefuseFile, UploadWrites
  <2>3. news' \in 0..MaxNews /\ upc' = "idle"
    BY <1>1, <1>2, <1>6 DEF RefuseFile
  <2> QED
    BY <1>2, <1>6, <2>2, <2>3, UploadKeeps DEF RefuseFile, UploadWrites, Own
<1> QED BY <1>3, <1>4, <1>5, <1>6 DEF UploadStep

LEMMA MessageKeepsIInv ==
  ASSUME IInv, Message
  PROVE  IInv'
<1>1. TypeOK /\ Doing
  BY DEF IInv
<1>2. Peer \in Label
  BY DEF Label
<1>3. StatusTyped(MessageShown(status))
  BY <1>1, <1>2, TypeFields, SessionStatusTyped
<1>4. /\ upc' \in {"idle", "receiving"} /\ name' \in Upload \cup {NoLabel}
      /\ got' \in 0..UploadSize /\ news' \in 0..MaxNews
      /\ upc' = "receiving" => news' < MaxNews
  BY <1>1 DEF Message, upload, TypeOK, Doing
<1> QED BY <1>3, <1>4, UploadKeeps DEF Message, Own
-----------------------------------------------------------------------------
(* The theorems. *)

LEMMA InitIInv == Init => IInv
<1> SUFFICES ASSUME Init PROVE IInv
  OBVIOUS
<1>1. Nothing \in Snapshot
  BY DEF Nothing, Snapshot
<1>2. status \in StatusSnapshot /\ status.sync = NoSync /\ Len(status.recent) = 0
  BY DEF Init, Quiet, StatusSnapshot, Label
<1>3. /\ at \in Nat /\ offset \in Nat /\ got \in 0..UploadSize /\ news \in 0..MaxNews
      /\ Len(status.recent) <= 6
  BY <1>2, BoundAssumption DEF Init, BoundAssumption
<1>4. TypeOK
  BY <1>1, <1>2, <1>3 DEF Init, TypeOK
<1> QED BY <1>4 DEF Init, IInv, Doing, Shown, Own

LEMMA IInvKept == IInv /\ [Next]_vars => IInv'
<1> SUFFICES ASSUME IInv, [Next]_vars PROVE IInv'
  OBVIOUS
<1>1. CASE UNCHANGED vars
  <2>1. Work' = Work
    BY <1>1, WorkKept DEF vars
  <2>2. Total(Work)' = Total(Work) /\ Sums(Work)' = Sums(Work)
    BY <2>1 DEF Total, Sums
  <2> QED
    BY <1>1, <2>1, <2>2 DEF IInv, TypeOK, Doing, Shown, Own, vars
<1> QED BY <1>1, SessionKeepsIInv, UploadKeepsIInv, MessageKeepsIInv DEF Next

LEMMA IInvHolds == Spec => []IInv
BY InitIInv, IInvKept, PTL DEF Spec

\* The status keeps to its types: six reports at most, no more files done
\* than planned, and no more bytes than there are.
THEOREM StatusTyping == Spec => []TypeOK
<1>1. IInv => TypeOK
  BY DEF IInv
<1> QED BY <1>1, IInvHolds, PTL

LEMMA DoneAsSummed == DoneBytes = Sums(Work)[at]
BY DEF DoneBytes, Sums

\* The progress a session shows, as long as no other thread writes the status
\* (progress, sync_transfer and sync_file_done), counts the files that are
\* through and the bytes that have passed, and names the file under way.
THEOREM ProgressAlwaysReal == Spec => []ProgressIsReal
<1>1. IInv => ProgressIsReal
  BY DoneAsSummed DEF IInv, Shown, ProgressIsReal
<1> QED BY <1>1, IInvHolds, PTL

\* The plan a device announces (plan.rs) is the work its session does, in
\* either role: as many operations and as many bytes, whatever the snapshots.
THEOREM PlanAlwaysTheWork == Spec => []PlanIsTheWork
<1>1. IInv => PlanIsTheWork
  <2> SUFFICES ASSUME IInv, alone, spc = "loop", at = Len(Work)
               PROVE  /\ status.sync.totalFiles = Len(Work)
                      /\ status.sync.completedBytes = status.sync.totalBytes
    BY DEF PlanIsTheWork
  <2>1. TypeOK /\ offset = 0
    BY DEF IInv, Doing
  <2>2. Total(Work) \in Nat /\ Total(Work) = Sums(Work)[at]
    BY <2>1, WorkFacts DEF Total
  <2> QED BY <2>1, <2>2 DEF IInv, Shown
<1> QED BY <1>1, IInvHolds, PTL

\* The report of an upload that fails (fail, called by upload()) names that
\* upload, if the status was its own or nothing is active.
THEOREM FailuresNameUpload == Spec => FailureNamesUpload
<1> DEFINE Names ==
      /\ news' # news
      /\ IF upc = "receiving" THEN unmixed ELSE ~status.active
      => status'.recent[1].label = name'
<1>1. ASSUME IInv, [Next]_vars PROVE Names
  <2> SUFFICES ASSUME news' # news, IF upc = "receiving" THEN unmixed ELSE ~status.active
               PROVE  status'.recent[1].label = name'
    OBVIOUS
  <2>1. StatusTyped(status) /\ name \in Label /\ status.active \in BOOLEAN
    BY <1>1, TypeFields DEF IInv, TypeOK, Label
  <2>2. CASE CompleteUpload
    BY <2>1, <2>2, UploadStatusTyped DEF CompleteUpload, UploadWrites
  <2>3. CASE FailUpload
    <3>1. status.filename = name /\ name' = name /\ status' = FailShown(status, name)
      BY <1>1, <2>3 DEF FailUpload, UploadWrites, IInv, Own
    <3> QED BY <2>1, <3>1, UploadStatusTyped
  <2>4. ASSUME NEW file \in Upload, RefuseFile(file)
        PROVE  status'.recent[1].label = name'
    <3>1. file \in Label /\ ~status.active /\ name' = file /\ status' = FailShown(status, file)
      BY <2>4 DEF RefuseFile, UploadWrites, Label
    <3> QED BY <2>1, <3>1, UploadStatusTyped
  <2>5. CompleteUpload \/ FailUpload \/ \E file \in Upload : RefuseFile(file)
    <3>1. ~UNCHANGED vars
      BY DEF vars
    <3>2. ~SessionStep
      BY DEF SessionStep, BeginSession, Announce, BeginFile, MoveBytes, EndFile, EndSession,
             FailSession, SessionWrites, upload
    <3>3. ~Message
      BY DEF Message, upload
    <3> QED
      BY <1>1, <3>1, <3>2, <3>3 DEF Next, UploadStep, BeginUpload, ReceiveBytes
  <2> QED BY <2>2, <2>3, <2>4, <2>5
<1>2. Spec => [][Names]_vars
  BY <1>1, IInvHolds, PTL DEF Spec
<1> QED BY <1>2 DEF FailureNamesUpload
=============================================================================
