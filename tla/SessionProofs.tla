---------------------------- MODULE SessionProofs ----------------------------
(***************************************************************************)
(* The two ends of a session never drift apart: what PeerSync promises of  *)
(* a session (SessionAgrees, NoUnexpectedMessage, OnlyEditsMismatch and    *)
(* SyncNeverRegresses), for any number of devices, keys and contents.      *)
(*                                                                         *)
(* To what IInv says of records, the invariant adds what one end knows by  *)
(* itself, with or without a peer (Ends, Placed, Scans, Walks), and where  *)
(* two connected ends can be, with what is in flight between them          *)
(* (Together).  An end whose peer has left works on with the rest of its   *)
(* inbox (Left).  The user may edit anything meanwhile, so what a snapshot *)
(* says of an object holds while the object is untouched.                  *)
(***************************************************************************)
EXTENDS PeerSyncProofs

Active(d) == pc[d] \notin {"idle", "connect"}

Linked(i, a) ==
  /\ Active(i) /\ role[i] = "initiator" /\ partner[i] = a
  /\ Active(a) /\ role[a] = "acceptor" /\ partner[a] = i

(* What one end knows. *)

\* Who is in a session, and with whom.
Ends(d) ==
  /\ pc[d] = "idle" => partner[d] = Nobody
  /\ partner[d] # d
  /\ pc[d] \in {"connect", "step", "await_put", "await_done"} => role[d] = "initiator"
  /\ pc[d] = "serve" => role[d] = "acceptor"
  /\ pc[d] # "idle" => role[d] # "none"
  /\ pc[d] \in {"idle", "connect", "await_snapshot"} => at[d] = 1

\* A record stands at its own key.
InPlace(records) == \A k \in Key : records[k] # NoRecord => records[k].path = k

Placed(d) == InPlace(catalog[d]) /\ InPlace(mine[d]) /\ InPlace(theirs[d])

Kept(d, k) == Untouched(d, k) => catalog[d][k] = mine[d][k]
Told(d, k) == Untouched(d, k) => DescribesDisk(d, k)

\* The keys the session of d has scanned.
Scanned(d) ==
  IF pc[d] = "scan" THEN {k \in Key : k < at[d]}
  ELSE IF role[d] = "acceptor" /\ pc[d] = "await_snapshot" THEN {}
  ELSE Key

\* The keys at which the snapshot of d is still what d has.
Standing(d) ==
  IF pc[d] = "scan" THEN {k \in Key : k < at[d]}
  ELSE IF role[d] = "initiator" THEN {k \in Key : k >= at[d]}
  ELSE {}

Scans(d) ==
  Active(d) =>
    /\ \A k \in Scanned(d) : Told(d, k)
    /\ \A k \in Standing(d) : Kept(d, k)

\* The record r is newer than what d has of its object.
Offer(d, r) ==
  Untouched(d, r.path) =>
    \/ catalog[d][r.path] = NoRecord
    \/ Newer(r.version, catalog[d][r.path].version)

\* What the initiator pulls or pushes is the winner at the key it is at; what
\* anybody receives is live, and newer than what is there.
Walks(d) ==
  /\ role[d] = "initiator" /\ pc[d] \in {"await_put", "await_body"} =>
       /\ item[d] = theirs[d][at[d]]
       /\ ~item[d].deleted
       /\ Winner(mine[d][at[d]], theirs[d][at[d]]) = "remote"
  /\ role[d] = "initiator" /\ pc[d] \in {"await_resume", "await_applied"} =>
       /\ item[d] = mine[d][at[d]]
       /\ pc[d] = "await_resume" => ~item[d].deleted
       /\ Winner(mine[d][at[d]], theirs[d][at[d]]) = "local"
  /\ role[d] = "acceptor" /\ pc[d] = "await_body" =>
       /\ ~item[d].deleted
       /\ Offer(d, item[d])

Local(d) == Ends(d) /\ Placed(d) /\ Scans(d) /\ Walks(d)

(* What is left in the inbox of an end whose peer has gone. *)

Fits(d, m) ==
  /\ m.type = "Snapshot" => InPlace(m.records)
  /\ m.type = "PutStart" /\ role[d] = "acceptor" => Offer(d, m.record)

Command == {"Get", "PutStart", "Done"}

InboxFits(d) ==
  \/ Inbox(d) = <<>>
  \/ /\ Inbox(d) = <<Inbox(d)[1]>>
     /\ Inbox(d)[1].type \in Expected(d)
     /\ Fits(d, Inbox(d)[1])
  \/ /\ pc[d] = "await_applied" /\ role[d] = "acceptor"
     /\ Inbox(d) = <<Applied, Inbox(d)[2]>>
     /\ Inbox(d)[2].type \in Command
     /\ Fits(d, Inbox(d)[2])

Left == \A d \in Device : Active(d) /\ ~Paired(d) => InboxFits(d)

(* Where two connected ends can be. *)

OneInitiator ==
  \A d, e \in Device :
    Active(d) /\ Active(e) /\ partner[d] = e /\ partner[e] = d => role[d] # role[e]

Wires(i, a, toAcceptor, toInitiator) ==
  /\ net[<<i, a>>] = toAcceptor
  /\ net[<<a, i>>] = toInitiator

\* The acceptor is through with the last object but for the confirmation, and
\* has the command m, or none, to come.
Silent(i, a) ==
  \/ pc[a] = "serve" /\ Wires(i, a, <<>>, <<>>)
  \/ pc[a] = "await_applied" /\ Wires(i, a, <<Applied>>, <<>>)

Asked(i, a, m) ==
  \/ pc[a] = "serve" /\ Wires(i, a, <<m>>, <<>>)
  \/ pc[a] = "await_applied" /\ Wires(i, a, <<Applied, m>>, <<>>)

FirstScan(i, a) ==
  /\ pc[i] = "scan" /\ pc[a] = "await_snapshot"
  /\ Wires(i, a, <<>>, <<>>)

FirstSnapshot(i, a) ==
  /\ pc[i] = "await_snapshot" /\ pc[a] = "await_snapshot"
  /\ Wires(i, a, <<Snapshot(mine[i])>>, <<>>)

SecondScan(i, a) ==
  /\ pc[i] = "await_snapshot" /\ pc[a] = "scan"
  /\ Wires(i, a, <<>>, <<>>)

SecondSnapshot(i, a) ==
  /\ pc[i] = "await_snapshot" /\ pc[a] = "serve"
  /\ Wires(i, a, <<>>, <<Snapshot(mine[a])>>)
  /\ \A k \in Key : Kept(a, k)

Same(i, a, k) ==
  Untouched(i, k) /\ Untouched(a, k) => catalog[i][k] = catalog[a][k]

\* Behind the walk the two agree, ahead of it the acceptor has what it said.
Walk(i, a) ==
  /\ theirs[i] = mine[a]
  /\ \A k \in Key : k < at[i] => Same(i, a, k)
  /\ \A k \in Key : k > at[i] => Kept(a, k)

Ready(i, a) == pc[i] = "step" /\ Silent(i, a)

Requested(i, a) == pc[i] = "await_put" /\ Asked(i, a, Get(at[i]))

Offered(i, a) ==
  /\ pc[i] = "await_put" /\ pc[a] = "await_resume"
  /\ Wires(i, a, <<>>, <<PutStart(item[a])>>)
  /\ Untouched(a, at[i]) => item[a] = item[i]

Fetching(i, a) ==
  /\ pc[i] = "await_body" /\ pc[a] = "await_resume"
  /\ Wires(i, a, <<Resume>>, <<>>)
  /\ item[a] = item[i]

Fetched(i, a) ==
  /\ pc[i] = "await_body" /\ pc[a] = "await_applied"
  /\ \E c \in Content :
       /\ Wires(i, a, <<>>, <<Body(c)>>)
       /\ Untouched(a, at[i]) => c = item[i].content

Pushing(i, a) == pc[i] = "await_resume" /\ Asked(i, a, PutStart(item[i]))

Taking(i, a) ==
  /\ pc[i] = "await_resume" /\ pc[a] = "await_body"
  /\ Wires(i, a, <<>>, <<Resume>>)
  /\ item[a] = item[i]

Taken(i, a) ==
  /\ pc[i] = "await_applied" /\ pc[a] = "await_body"
  /\ item[a] = item[i]
  /\ \E c \in Content :
       /\ Wires(i, a, <<Body(c)>>, <<>>)
       /\ Untouched(i, at[i]) => c = item[i].content

Burying(i, a) ==
  /\ pc[i] = "await_applied" /\ item[i].deleted
  /\ Asked(i, a, PutStart(item[i]))

Finishing(i, a) == pc[i] = "await_done" /\ Asked(i, a, Done)

\* The acceptor has the object by now.
Confirmed(i, a) ==
  /\ pc[i] = "await_applied" /\ pc[a] = "serve"
  /\ Wires(i, a, <<>>, <<Applied>>)
  /\ Untouched(a, at[i]) => catalog[a][at[i]] = item[i]

Opening(i, a) ==
  FirstScan(i, a) \/ FirstSnapshot(i, a) \/ SecondScan(i, a) \/ SecondSnapshot(i, a)

Transferring(i, a) ==
  \/ Ready(i, a) \/ Requested(i, a) \/ Offered(i, a) \/ Fetching(i, a) \/ Fetched(i, a)
  \/ Pushing(i, a) \/ Taking(i, a) \/ Taken(i, a) \/ Burying(i, a) \/ Finishing(i, a)

\* Before the acceptor has the object, its snapshot stands at this key, too.
Pair(i, a) ==
  \/ Opening(i, a)
  \/ /\ Walk(i, a)
     /\ \/ Transferring(i, a) /\ (at[i] \in Key => Kept(a, at[i]))
        \/ Confirmed(i, a)

Together == \A i, a \in Device : Linked(i, a) => Pair(i, a)

SInv == (\A d \in Device : Local(d)) /\ OneInitiator /\ Left /\ Together
-----------------------------------------------------------------------------
(* What a step leaves alone. *)

\* The session of e is not moved, and where its files or rows are, their keys
\* are touched.
Undisturbed(e) ==
  /\ pc'[e] = pc[e] /\ role'[e] = role[e] /\ partner'[e] = partner[e]
  /\ at'[e] = at[e] /\ mine'[e] = mine[e] /\ theirs'[e] = theirs[e]
  /\ item'[e] = item[e]
  /\ InPlace(catalog'[e])
  /\ \A k \in Key : k \notin touched'[e] =>
       k \notin touched[e] /\ catalog'[e][k] = catalog[e][k] /\ file'[e][k] = file[e][k]

LEMMA LocalFrame ==
  ASSUME NEW e \in Device, Local(e), Undisturbed(e), item[e] \in issued \cup {NoRecord},
         Stamps, Phases
  PROVE  Local(e)'
<1>1. Ends(e)'
  BY DEF Local, Ends, Undisturbed
<1>2. Placed(e)'
  BY DEF Local, Placed, Undisturbed, InPlace
<1>3. Scans(e)'
  <2>1. Scanned(e)' = Scanned(e) /\ Standing(e)' = Standing(e) /\ Active(e)' = Active(e)
    BY DEF Scanned, Standing, Active, Undisturbed
  <2>2. ASSUME NEW k \in Key, Told(e, k) PROVE Told(e, k)'
    BY <2>2 DEF Told, Untouched, DescribesDisk, Undisturbed
  <2>3. ASSUME NEW k \in Key, Kept(e, k) PROVE Kept(e, k)'
    BY <2>3 DEF Kept, Untouched, Undisturbed
  <2>4. Scanned(e) \subseteq Key /\ Standing(e) \subseteq Key
    BY DEF Scanned, Standing
  <2> QED BY <2>1, <2>2, <2>3, <2>4 DEF Scans, Local
<1>4. Walks(e)'
  <2>1. ASSUME pc[e] = "await_body", Offer(e, item[e]) PROVE Offer(e, item[e])'
    <3>1. item[e].path \in Key
      BY <2>1, IssuedIsRecord DEF Phases, Transfers
    <3> QED BY <2>1, <3>1 DEF Offer, Untouched, Undisturbed
  <2> QED BY <2>1 DEF Walks, Local, Undisturbed
<1> QED BY <1>1, <1>2, <1>3, <1>4 DEF Local

\* A message waits for d as it did.
LEMMA FitsFrame ==
  ASSUME NEW d \in Device, Undisturbed(d), NEW m, Fits(d, m),
         m.type = "PutStart" => m.record.path \in Key
  PROVE  Fits(d, m)'
BY DEF Fits, Offer, Untouched, Undisturbed, InPlace

\* What is in an inbox is a message.
LEMMA InboxTyped ==
  ASSUME IInv, NEW e \in Device, NEW d \in Device, NEW n \in 1..Len(net[<<e, d>>])
  PROVE  /\ net[<<e, d>>][n].type = "PutStart" => net[<<e, d>>][n].record \in issued
         /\ net[<<e, d>>][n].type = "PutStart" => net[<<e, d>>][n].record.path \in Key
<1>1. net[<<e, d>>] \in Seq(MessageOver(issued))
  BY DEF IInv, Provenance
<1>2. net[<<e, d>>][n] \in MessageOver(issued)
  BY <1>1
<1>3. net[<<e, d>>][n].type = "PutStart" => net[<<e, d>>][n].record \in issued
  BY <1>2 DEF MessageOver
<1> QED BY <1>3, IssuedIsRecord DEF IInv

LEMMA InboxFrame ==
  ASSUME IInv, NEW d \in Device, partner[d] \in Device, Undisturbed(d),
         Inbox(d)' = Inbox(d), InboxFits(d)
  PROVE  InboxFits(d)'
<1> DEFINE m == Inbox(d)[1]
           n == Inbox(d)[2]
<1>1. pc'[d] = pc[d] /\ role'[d] = role[d] /\ Expected(d)' = Expected(d)
  BY DEF Undisturbed, Expected
<1>2. CASE Inbox(d) = <<>>
  BY <1>2 DEF InboxFits
<1>3. CASE Inbox(d) = <<m>> /\ m.type \in Expected(d) /\ Fits(d, m)
  <2>1. m.type = "PutStart" => m.record.path \in Key
    BY <1>3, InboxTyped DEF Inbox
  <2>2. Fits(d, m)'
    BY <1>3, <2>1, FitsFrame
  <2> QED BY <1>1, <1>3, <2>2 DEF InboxFits
<1>4. CASE /\ pc[d] = "await_applied" /\ role[d] = "acceptor"
           /\ Inbox(d) = <<Applied, n>> /\ n.type \in Command /\ Fits(d, n)
  <2>1. n.type = "PutStart" => n.record.path \in Key
    BY <1>4, InboxTyped DEF Inbox
  <2>2. Fits(d, n)'
    BY <1>4, <2>1, FitsFrame
  <2> QED BY <1>1, <1>4, <2>2 DEF InboxFits
<1> QED BY <1>2, <1>3, <1>4 DEF InboxFits

LEMMA PairFrame ==
  ASSUME IInv, NEW i \in Device, NEW a \in Device, Linked(i, a), Pair(i, a),
         Undisturbed(i), Undisturbed(a),
         net'[<<i, a>>] = net[<<i, a>>], net'[<<a, i>>] = net[<<a, i>>]
  PROVE  Pair(i, a)'
<1>1. /\ pc'[i] = pc[i] /\ pc'[a] = pc[a] /\ at'[i] = at[i]
      /\ mine'[i] = mine[i] /\ mine'[a] = mine[a] /\ theirs'[i] = theirs[i]
      /\ item'[i] = item[i] /\ item'[a] = item[a]
  BY DEF Undisturbed
<1>2. ASSUME NEW k \in Key PROVE Untouched(i, k)' => Untouched(i, k)
  BY DEF Undisturbed, Untouched
<1>3. ASSUME NEW k \in Key PROVE Untouched(a, k)' => Untouched(a, k)
  BY DEF Undisturbed, Untouched
<1>4. ASSUME NEW k \in Key PROVE Kept(a, k) => Kept(a, k)'
  BY DEF Undisturbed, Untouched, Kept
<1>5. ASSUME NEW k \in Key PROVE Same(i, a, k) => Same(i, a, k)'
  BY DEF Undisturbed, Untouched, Same
<1>6. Opening(i, a) => Opening(i, a)'
  BY <1>1, <1>4 DEF Opening, FirstScan, FirstSnapshot, SecondScan, SecondSnapshot, Wires, Snapshot
<1>7. Walk(i, a) => Walk(i, a)'
  BY <1>1, <1>4, <1>5 DEF Walk
<1>8. pc[i] \in Transfers => at[i] \in Key
  BY DEF IInv, Phases, Linked
<1>9. \A m : Asked(i, a, m) => Asked(i, a, m)'
  BY <1>1 DEF Asked, Wires
<1>10. Ready(i, a) \/ Requested(i, a) \/ Pushing(i, a) \/ Burying(i, a) \/ Finishing(i, a)
       => Transferring(i, a)'
  BY <1>1, <1>9 DEF Ready, Silent, Requested, Pushing, Burying, Finishing, Transferring,
     Wires, Get, PutStart, Done
<1>11. Offered(i, a) \/ Fetching(i, a) \/ Taking(i, a) => Transferring(i, a)'
  BY <1>1, <1>3, <1>8 DEF Offered, Fetching, Taking, Transferring, Wires, PutStart, Resume,
     Transfers
<1>12. Fetched(i, a) \/ Taken(i, a) => Transferring(i, a)'
  BY <1>1, <1>2, <1>3, <1>8 DEF Fetched, Taken, Transferring, Wires, Body, Transfers
<1>13. Confirmed(i, a) => Confirmed(i, a)'
  BY <1>1, <1>8 DEF Confirmed, Wires, Applied, Transfers, Untouched, Undisturbed
<1>14. Transferring(i, a) => Transferring(i, a)'
  BY <1>10, <1>11, <1>12 DEF Transferring
<1> QED BY <1>1, <1>4, <1>6, <1>7, <1>13, <1>14 DEF Pair

\* Two ends that are paired are linked, one way or the other.
LEMMA PairedLinked ==
  ASSUME IInv, SInv, NEW d \in Device
  PROVE  /\ Paired(d) => /\ partner[d] \in Device
                         /\ Linked(d, partner[d]) \/ Linked(partner[d], d)
         /\ \A e \in Device : Linked(d, e) => Paired(d) /\ partner[d] = e
         /\ \A e \in Device : Linked(e, d) => Paired(d) /\ partner[d] = e
<1>1. ASSUME Paired(d)
      PROVE  partner[d] \in Device /\ (Linked(d, partner[d]) \/ Linked(partner[d], d))
  <2>1. partner[d] \in Device
    BY <1>1 DEF IInv, Typed, Paired
  <2>2. Active(d) /\ Active(partner[d])
    BY <1>1 DEF Paired, Active
  <2>3. role[d] # role[partner[d]]
    BY <1>1, <2>1, <2>2 DEF SInv, OneInitiator, Paired
  <2>4. role[d] # "none" /\ role[partner[d]] # "none"
    BY <2>1, <2>2 DEF SInv, Local, Ends, Active
  <2>5. {role[d], role[partner[d]]} \subseteq {"none", "initiator", "acceptor"}
    BY <2>1 DEF IInv, Typed
  <2> QED BY <1>1, <2>1, <2>2, <2>3, <2>4, <2>5 DEF Linked, Paired
<1>2. ASSUME NEW e \in Device, Linked(d, e) PROVE Paired(d) /\ partner[d] = e
  BY <1>2, NobodyAssumption DEF Linked, Paired, Active, NobodyAssumption
<1>3. ASSUME NEW e \in Device, Linked(e, d) PROVE Paired(d) /\ partner[d] = e
  BY <1>3, NobodyAssumption DEF Linked, Paired, Active, NobodyAssumption
<1> QED BY <1>1, <1>2, <1>3

\* What stays of the channels when only d and its peer use theirs.
OwnWireOnly(d) ==
  \A e, f \in Device :
    <<e, f>> \notin {<<d, partner[d]>>, <<partner[d], d>>} => net'[<<e, f>>] = net[<<e, f>>]

\* A step of a session concerns its own end, and through the wire the other.
LEMMA StayFrame ==
  ASSUME IInv, SInv, NEW d \in Device, Active(d), Active(d)',
         role'[d] = role[d], partner'[d] = partner[d],
         \A e \in Device \ {d} : Undisturbed(e),
         OwnWireOnly(d),
         Local(d)',
         ~Paired(d) => InboxFits(d)',
         \A e \in Device : Linked(d, e) => Pair(d, e)',
         \A e \in Device : Linked(e, d) => Pair(e, d)'
  PROVE  SInv'
<1>1. \A e \in Device : Local(e)'
  BY LocalFrame DEF SInv, IInv, Provenance
<1>2. \A e \in Device : /\ Active(e)' = Active(e)
                        /\ role'[e] = role[e] /\ partner'[e] = partner[e]
  BY DEF Undisturbed, Active
<1>3. OneInitiator'
  BY <1>2 DEF SInv, OneInitiator
<1>4. \A i, a \in Device : Linked(i, a)' => Linked(i, a)
  BY <1>2 DEF Linked
<1>5. Together'
  <2> SUFFICES ASSUME NEW i \in Device, NEW a \in Device, Linked(i, a), d # i, d # a
               PROVE  Pair(i, a)'
    BY <1>4 DEF Together
  <2>1. net'[<<i, a>>] = net[<<i, a>>] /\ net'[<<a, i>>] = net[<<a, i>>]
    BY DEF OwnWireOnly
  <2>2. Pair(i, a)
    BY DEF SInv, Together
  <2> QED BY <2>1, <2>2, PairFrame
<1>6. Left'
  <2> SUFFICES ASSUME NEW e \in Device, Active(e)', ~Paired(e)', e # d
               PROVE  InboxFits(e)'
    <3>1. Paired(d) => Paired(d)'
      <4> SUFFICES ASSUME Paired(d) PROVE Paired(d)'
        OBVIOUS
      <4>1. partner[d] \in Device
        BY PairedLinked
      <4>2. Active(partner[d])
        BY DEF Paired, Active
      <4> QED BY <1>2, <4>1, <4>2 DEF Paired, Active
    <3> QED BY <3>1 DEF Left
  <2>1. partner[e] \in Device
    BY <1>2 DEF IInv, Phases, Active
  <2>2. ~Paired(e)
    <3> SUFFICES ASSUME Paired(e) PROVE FALSE
      OBVIOUS
    <3>1. Active(partner[e])
      BY DEF Paired, Active
    <3> QED BY <1>2, <2>1, <3>1 DEF Paired, Active
  <2>3. InboxFits(e)
    BY <1>2, <2>2 DEF SInv, Left
  <2>4. ~(partner[e] = d /\ partner[d] = e)
    BY <1>2, <2>2, NobodyAssumption DEF Paired, Active, NobodyAssumption
  <2>5. Inbox(e)' = Inbox(e)
    BY <1>2, <2>1, <2>4 DEF OwnWireOnly, Inbox
  <2> QED BY <2>1, <2>3, <2>5, InboxFrame
<1> QED BY <1>1, <1>3, <1>5, <1>6 DEF SInv
-----------------------------------------------------------------------------
(* What an end finds in its inbox. *)

LEMMA ShortSequences ==
  ASSUME NEW x, NEW m
  PROVE  /\ <<m>> # <<>> /\ Head(<<m>>) = m /\ Tail(<<m>>) = <<>> /\ Append(<<>>, m) = <<m>>
         /\ <<x, m>> # <<>> /\ Head(<<x, m>>) = x /\ Tail(<<x, m>>) = <<m>>
         /\ <<m>>[1] = m /\ <<x, m>>[1] = x /\ <<x, m>>[2] = m
<1>1. <<m>> # <<>> /\ Head(<<m>>) = m /\ <<m>>[1] = m
  OBVIOUS
<1>2. Tail(<<m>>) = <<>>
  OBVIOUS
<1>3. Append(<<>>, m) = <<m>>
  OBVIOUS
<1>4. <<x, m>> # <<>> /\ Head(<<x, m>>) = x /\ <<x, m>>[1] = x /\ <<x, m>>[2] = m
  OBVIOUS
<1>5. Tail(<<x, m>>) = <<m>>
  OBVIOUS
<1> QED BY <1>1, <1>2, <1>3, <1>4, <1>5

LEMMA AppendSecond ==
  ASSUME NEW x, NEW m, NEW q, q = <<x>>
  PROVE  Append(q, m) = <<x, m>>
<1> DEFINE S == {x, m}
           r == <<x, m>>
<1>1. q \in Seq(S) /\ Len(q) = 1 /\ q[1] = x
  OBVIOUS
<1>2. r \in Seq(S) /\ Len(r) = 2 /\ r[1] = x /\ r[2] = m
  OBVIOUS
<1>3. m \in S
  OBVIOUS
<1> HIDE DEF S, r
<1>4. /\ Append(q, m) \in Seq(S) /\ Len(Append(q, m)) = Len(q) + 1
      /\ Append(q, m)[Len(q) + 1] = m
      /\ \A n \in 1..Len(q) : Append(q, m)[n] = q[n]
  BY <1>1, <1>3, AppendProperties
<1>5. Append(q, m)[2] = m /\ Append(q, m)[1] = x /\ Len(Append(q, m)) = 2
  BY <1>1, <1>4
<1>6. Append(q, m) = r
  BY <1>2, <1>4, <1>5, SeqEqual
<1> QED BY <1>6 DEF r

LEMMA Typenames ==
  /\ \A r : Snapshot(r).type = "Snapshot" /\ Snapshot(r).records = r
  /\ \A k : Get(k).type = "Get" /\ Get(k).key = k
  /\ \A r : PutStart(r).type = "PutStart" /\ PutStart(r).record = r
  /\ \A c : Body(c).type = "Body" /\ Body(c).content = c
  /\ Resume.type = "Resume" /\ Applied.type = "Applied" /\ Done.type = "Done"
BY DEF Snapshot, Get, PutStart, Body, Resume, Applied, Done

\* While a transfer is under way its record stands at the key of the walk.
LEMMA AtKey ==
  ASSUME IInv, SInv, NEW i \in Device, role[i] = "initiator", pc[i] \in Transfers
  PROVE  /\ at[i] \in Key /\ item[i] \in issued /\ item[i].path = at[i]
         /\ Kept(i, at[i]) /\ Told(i, at[i])
         /\ pc[i] \in {"await_put", "await_body"} => item[i] = theirs[i][at[i]]
         /\ pc[i] \in {"await_resume", "await_applied"} => item[i] = mine[i][at[i]]
<1>1. at[i] \in Key /\ item[i] \in issued /\ item[i] # NoRecord
  BY DEF IInv, Phases, Provenance
<1>2. item[i] = theirs[i][at[i]] \/ item[i] = mine[i][at[i]]
  BY DEF SInv, Local, Walks, Transfers
<1>3. item[i].path = at[i]
  BY <1>1, <1>2 DEF SInv, Local, Placed, InPlace
<1>4. at[i] \in Standing(i) /\ at[i] \in Scanned(i) /\ Active(i)
  BY <1>1, KeyAssumption DEF Standing, Scanned, Transfers, Active, KeyAssumption
<1>5. Kept(i, at[i]) /\ Told(i, at[i])
  BY <1>4 DEF SInv, Local, Scans
<1> QED BY <1>1, <1>3, <1>5 DEF SInv, Local, Walks

\* What the initiator pushes is newer than what the acceptor has.
LEMMA PushOffers ==
  ASSUME IInv, SInv, NEW i \in Device, NEW a \in Device, Linked(i, a),
         pc[i] \in {"await_resume", "await_applied"}, theirs[i] = mine[a], Kept(a, at[i])
  PROVE  Offer(a, item[i])
<1>1. /\ at[i] \in Key /\ item[i].path = at[i] /\ item[i] = mine[i][at[i]]
      /\ item[i] \in issued
  BY AtKey DEF Linked, Transfers
<1>2. Winner(mine[i][at[i]], mine[a][at[i]]) = "local"
  BY DEF SInv, Local, Walks, Linked
<1>3. mine[a][at[i]] = NoRecord \/ Newer(item[i].version, mine[a][at[i]].version)
  BY <1>1, <1>2, IssuedIsRecord DEF Winner, IInv
<1> QED BY <1>1, <1>3 DEF Offer, Kept

LEMMA PairInboxes ==
  ASSUME IInv, SInv, NEW i \in Device, NEW a \in Device, Linked(i, a)
  PROVE  InboxFits(i) /\ InboxFits(a)
<1>1. Inbox(i) = net[<<a, i>>] /\ Inbox(a) = net[<<i, a>>] /\ Pair(i, a)
      /\ role[i] = "initiator" /\ role[a] = "acceptor"
  BY DEF Linked, Inbox, SInv, Together
<1>2. ASSUME NEW m, Fits(a, m), Asked(i, a, m), m.type \in Command
      PROVE  InboxFits(i) /\ InboxFits(a)
  <2>1. CASE pc[a] = "serve" /\ Wires(i, a, <<m>>, <<>>)
    BY <1>1, <1>2, <2>1, ShortSequences DEF InboxFits, Wires, Expected, Command
  <2>2. CASE pc[a] = "await_applied" /\ Wires(i, a, <<Applied, m>>, <<>>)
    BY <1>1, <1>2, <2>2, ShortSequences DEF InboxFits, Wires
  <2> QED BY <1>2, <2>1, <2>2 DEF Asked
<1>3. CASE Opening(i, a)
  BY <1>1, <1>3, Typenames, ShortSequences
  DEF Opening, FirstScan, FirstSnapshot, SecondScan, SecondSnapshot, Wires, InboxFits,
      Expected, Fits, SInv, Local, Placed
<1>4. CASE Walk(i, a) /\ Transferring(i, a) /\ (at[i] \in Key => Kept(a, at[i]))
  <2>1. CASE Ready(i, a)
    BY <1>1, <2>1, Typenames, ShortSequences
    DEF Ready, Silent, Wires, InboxFits, Expected, Fits
  <2>2. CASE Requested(i, a) \/ Finishing(i, a)
    BY <1>2, <2>2, Typenames DEF Requested, Finishing, Fits, Command
  <2>3. CASE Offered(i, a) \/ Fetching(i, a) \/ Fetched(i, a) \/ Taking(i, a) \/ Taken(i, a)
    BY <1>1, <2>3, Typenames, ShortSequences
    DEF Offered, Fetching, Fetched, Taking, Taken, Wires, InboxFits, Expected, Fits
  <2>4. CASE Pushing(i, a) \/ Burying(i, a)
    <3>1. Offer(a, item[i])
      <4>1. pc[i] \in {"await_resume", "await_applied"}
        BY <2>4 DEF Pushing, Burying
      <4>2. at[i] \in Key
        BY <1>1, <4>1, AtKey DEF Transfers
      <4> QED BY <1>4, <4>1, <4>2, PushOffers DEF Walk
    <3> QED BY <1>2, <2>4, <3>1, Typenames DEF Pushing, Burying, Fits, Command
  <2> QED BY <1>4, <2>1, <2>2, <2>3, <2>4 DEF Transferring
<1>5. CASE Confirmed(i, a)
  BY <1>1, <1>5, Typenames, ShortSequences DEF Confirmed, Wires, InboxFits, Expected, Fits
<1> QED BY <1>1, <1>3, <1>4, <1>5 DEF Pair

\* Whoever is in a session has an inbox it knows what to do with.
LEMMA AllInboxes ==
  ASSUME IInv, SInv, NEW d \in Device, Active(d)
  PROVE  InboxFits(d)
<1>1. CASE Paired(d)
  BY <1>1, PairedLinked, PairInboxes
<1>2. CASE ~Paired(d)
  BY <1>2 DEF SInv, Left
<1> QED BY <1>1, <1>2

\* The head of such an inbox.
LEMMA HeadFits ==
  ASSUME IInv, SInv, NEW d \in Device, Active(d), Inbox(d) # <<>>
  PROVE  Received(d).type \in Expected(d) /\ Fits(d, Received(d))
<1>1. InboxFits(d)
  BY AllInboxes
<1> QED BY <1>1, Typenames, ShortSequences DEF InboxFits, Received, Fits, Expected

\* What the initiator knows of the acceptor when it is its turn.
LEMMA TurnOfInitiator ==
  ASSUME IInv, SInv, NEW i \in Device, NEW a \in Device, Linked(i, a)
  PROVE  /\ pc[i] = "scan" => FirstScan(i, a)
         /\ pc[i] = "step" =>
              Walk(i, a) /\ Ready(i, a) /\ (at[i] \in Key => Kept(a, at[i]))
         /\ Inbox(i) # <<>> =>
              /\ pc[i] = "await_snapshot" => SecondSnapshot(i, a)
              /\ pc[i] \in Transfers => Walk(i, a)
              /\ pc[i] \in Transfers \ {"await_applied"} => Kept(a, at[i])
              /\ pc[i] = "await_put" => Offered(i, a)
              /\ pc[i] = "await_body" => Fetched(i, a)
              /\ pc[i] = "await_resume" => Taking(i, a)
              /\ pc[i] = "await_applied" => Confirmed(i, a)
              /\ pc[i] # "await_done"
<1>1. Inbox(i) = net[<<a, i>>] /\ Pair(i, a)
  BY DEF Linked, Inbox, SInv, Together
<1>2. pc[i] \in Transfers => at[i] \in Key
  BY AtKey DEF Linked
<1>3. CASE Opening(i, a)
  BY <1>1, <1>3 DEF Opening, FirstScan, FirstSnapshot, SecondScan, SecondSnapshot, Wires,
     Transfers
<1>4. CASE Walk(i, a) /\ Transferring(i, a) /\ (at[i] \in Key => Kept(a, at[i]))
  <2>1. \A m : Asked(i, a, m) => Inbox(i) = <<>>
    BY <1>1 DEF Asked, Wires
  <2>2. Transferring(i, a) =>
          /\ pc[i] \notin {"scan", "await_snapshot"}
          /\ pc[i] = "step" => Ready(i, a)
          /\ Inbox(i) # <<>> =>
               /\ pc[i] = "await_put" => Offered(i, a)
               /\ pc[i] = "await_body" => Fetched(i, a)
               /\ pc[i] = "await_resume" => Taking(i, a)
               /\ pc[i] \notin {"await_applied", "await_done"}
    BY <1>1, <2>1 DEF Transferring, Ready, Silent, Requested, Offered, Fetching, Fetched, Pushing,
       Taking, Taken, Burying, Finishing, Wires
  <2> QED BY <1>2, <1>4, <2>2
<1>5. CASE Walk(i, a) /\ Confirmed(i, a)
  BY <1>1, <1>5 DEF Confirmed, Transfers
<1> QED BY <1>1, <1>3, <1>4, <1>5 DEF Pair

\* What the acceptor knows of the initiator when it is its turn.
LEMMA TurnOfAcceptor ==
  ASSUME IInv, SInv, NEW i \in Device, NEW a \in Device, Linked(i, a)
  PROVE  /\ pc[a] = "scan" => SecondScan(i, a)
         /\ Inbox(a) # <<>> =>
              /\ pc[a] = "await_snapshot" => FirstSnapshot(i, a)
              /\ pc[a] \in {"serve", "await_resume", "await_body", "await_applied"} =>
                   Walk(i, a) /\ (at[i] \in Key => Kept(a, at[i]))
              /\ pc[a] = "await_resume" => Fetching(i, a)
              /\ pc[a] = "await_body" => Taken(i, a)
              /\ pc[a] = "serve" =>
                   Requested(i, a) \/ Pushing(i, a) \/ Burying(i, a) \/ Finishing(i, a)
              /\ pc[a] = "await_applied" =>
                   \/ Ready(i, a)
                   \/ Requested(i, a) \/ Pushing(i, a) \/ Burying(i, a) \/ Finishing(i, a)
<1>1. Inbox(a) = net[<<i, a>>] /\ Pair(i, a)
  BY DEF Linked, Inbox, SInv, Together
<1>2. CASE Opening(i, a)
  BY <1>1, <1>2 DEF Opening, FirstScan, FirstSnapshot, SecondScan, SecondSnapshot, Wires
<1>3. CASE Walk(i, a) /\ Transferring(i, a) /\ (at[i] \in Key => Kept(a, at[i]))
  <2>1. \A m : Asked(i, a, m) => pc[a] \in {"serve", "await_applied"}
    BY DEF Asked
  <2>2. Transferring(i, a) =>
          /\ pc[a] \notin {"scan", "await_snapshot"}
          /\ Inbox(a) # <<>> =>
               /\ pc[a] = "await_resume" => Fetching(i, a)
               /\ pc[a] = "await_body" => Taken(i, a)
               /\ pc[a] = "serve" =>
                    Requested(i, a) \/ Pushing(i, a) \/ Burying(i, a) \/ Finishing(i, a)
               /\ pc[a] = "await_applied" =>
                    \/ Ready(i, a)
                    \/ Requested(i, a) \/ Pushing(i, a) \/ Burying(i, a) \/ Finishing(i, a)
    <3>1. CASE Ready(i, a)
      BY <1>1, <3>1 DEF Ready, Silent, Wires
    <3>2. CASE Requested(i, a) \/ Pushing(i, a) \/ Burying(i, a) \/ Finishing(i, a)
      BY <2>1, <3>2 DEF Requested, Pushing, Burying, Finishing
    <3>3. CASE Offered(i, a) \/ Fetching(i, a) \/ Fetched(i, a) \/ Taking(i, a) \/ Taken(i, a)
      BY <1>1, <3>3 DEF Offered, Fetching, Fetched, Taking, Taken, Wires
    <3> QED BY <3>1, <3>2, <3>3 DEF Transferring
  <2> QED BY <1>3, <2>2
<1>4. CASE Walk(i, a) /\ Confirmed(i, a)
  BY <1>1, <1>4 DEF Confirmed, Wires
<1> QED BY <1>1, <1>2, <1>3, <1>4 DEF Pair
-----------------------------------------------------------------------------
(* Sessions begin and end. *)

\* The peer of an end that leaves goes on with the rest of its inbox.
LEMMA LeaveFrame ==
  ASSUME IInv, SInv, NEW d \in Device, NEW p \in Device, partner[d] = p, End(d),
         UNCHANGED <<file, catalog, touched>>, OwnWireOnly(d),
         Active(p) /\ partner[p] = d => InboxFits(p)'
  PROVE  SInv'
<1>1. /\ pc'[d] = "idle" /\ partner'[d] = Nobody /\ at'[d] = 1
      /\ mine'[d] = NoSnapshot /\ theirs'[d] = NoSnapshot
  BY DEF End, Goto, IInv, Typed, Provenance
<1>2. \A e \in Device \ {d} : Undisturbed(e)
  BY DEF End, Goto, IInv, Typed, Provenance, Undisturbed, SInv, Local, Placed
<1>3. Local(d)'
  <2>1. Ends(d)' /\ Scans(d)' /\ Walks(d)'
    BY <1>1, NobodyAssumption DEF Ends, Scans, Walks, Active, NobodyAssumption
  <2>2. Placed(d)'
    BY <1>1 DEF SInv, Local, Placed, InPlace, NoSnapshot
  <2> QED BY <2>1, <2>2 DEF Local
<1>4. \A e \in Device : Local(e)'
  BY <1>2, <1>3, LocalFrame DEF SInv, IInv, Provenance
<1>5. \A e \in Device : Active(e)' =>
        /\ e # d /\ Active(e)
        /\ role'[e] = role[e] /\ partner'[e] = partner[e]
  BY <1>1, <1>2 DEF Undisturbed, Active
<1>6. OneInitiator'
  BY <1>5 DEF SInv, OneInitiator
<1>7. \A i, a \in Device : Linked(i, a)' => Linked(i, a) /\ i # d /\ a # d
  BY <1>5 DEF Linked
<1>8. Together'
  <2> SUFFICES ASSUME NEW i \in Device, NEW a \in Device, Linked(i, a), d # i, d # a
               PROVE  Pair(i, a)'
    BY <1>7 DEF Together
  <2>1. net'[<<i, a>>] = net[<<i, a>>] /\ net'[<<a, i>>] = net[<<a, i>>]
    BY DEF OwnWireOnly
  <2>2. Pair(i, a)
    BY DEF SInv, Together
  <2> QED BY <1>2, <2>1, <2>2, PairFrame
<1>9. Left'
  <2> SUFFICES ASSUME NEW e \in Device, Active(e)', ~Paired(e)'
               PROVE  InboxFits(e)'
    BY DEF Left
  <2>1. e # d /\ Active(e) /\ partner'[e] = partner[e] /\ partner[e] \in Device
    BY <1>5 DEF IInv, Phases, Active
  <2>2. InboxFits(e)
    BY <2>1, AllInboxes
  <2>3. CASE partner[e] = d /\ partner[d] = e
    BY <2>1, <2>3
  <2>4. CASE ~(partner[e] = d /\ partner[d] = e)
    <3>1. Inbox(e)' = Inbox(e)
      BY <2>1, <2>4 DEF OwnWireOnly, Inbox
    <3> QED BY <1>2, <2>1, <2>2, <3>1, InboxFrame
  <2> QED BY <2>3, <2>4
<1> QED BY <1>4, <1>6, <1>8, <1>9 DEF SInv

\* An error, a timeout or a crash: what was sent reaches the other end, or not.
LEMMA AbortKeeps ==
  ASSUME IInv, SInv, NEW d \in Device, pc[d] # "idle", Abort(d)
  PROVE  SInv'
<1>0. PICK p \in Device : p = partner[d]
  BY DEF IInv, Phases
<1>1. p # d
  BY <1>0 DEF SInv, Local, Ends
<1>2. PICK left \in {net[<<d, p>>], <<>>} :
        net' = [net EXCEPT ![<<p, d>>] = <<>>,
                           ![<<d, p>>] = IF partner[p] = d THEN left ELSE <<>>]
  BY <1>0 DEF Abort, Hangup
<1>3. OwnWireOnly(d)
  BY <1>0, <1>1, <1>2 DEF OwnWireOnly, IInv, Provenance
<1>4. End(d) /\ UNCHANGED <<file, catalog, touched>>
  BY DEF Abort, disk, history
<1>5. ASSUME Active(p), partner[p] = d PROVE InboxFits(p)'
  <2>1. Undisturbed(p) /\ partner'[p] = d
    BY <1>0, <1>1, <1>4, <1>5 DEF End, Goto, IInv, Typed, Provenance, Undisturbed, SInv, Local, Placed
  <2>2. Inbox(p)' = net[<<d, p>>] \/ Inbox(p)' = <<>>
    BY <1>0, <1>1, <1>2, <1>5, <2>1 DEF Inbox, IInv, Provenance
  <2>3. CASE Inbox(p)' = net[<<d, p>>]
    <3>1. Inbox(p)' = Inbox(p)
      BY <1>0, <1>5, <2>3 DEF Inbox
    <3> QED BY <1>0, <1>1, <1>5, <2>1, <3>1, AllInboxes, InboxFrame
  <2>4. CASE Inbox(p)' = <<>>
    BY <2>4 DEF InboxFits
  <2> QED BY <2>2, <2>3, <2>4
<1> QED BY <1>0, <1>1, <1>3, <1>4, <1>5, LeaveFrame

LEMMA RefuseKeeps ==
  ASSUME IInv, SInv, NEW d \in Device, NEW p \in Device, Refuse(d, p)
  PROVE  SInv'
<1>1. /\ pc[p] = "connect" /\ partner[p] = d /\ End(p) /\ p # d
      /\ UNCHANGED <<file, catalog, touched, net>>
  BY DEF Refuse, Connecting, disk, history, SInv, Local, Ends
<1>2. OwnWireOnly(p)
  BY <1>1 DEF OwnWireOnly
<1>3. ASSUME Active(d), partner[d] = p PROVE InboxFits(d)'
  <2>1. Undisturbed(d)
    BY <1>1 DEF End, Goto, IInv, Typed, Provenance, Undisturbed, SInv, Local, Placed
  <2>2. Inbox(d)' = Inbox(d)
    BY <1>1, <1>3, <2>1 DEF Inbox, Undisturbed
  <2> QED BY <1>3, <2>1, <2>2, AllInboxes, InboxFrame
<1> QED BY <1>1, <1>2, <1>3, LeaveFrame

\* The acceptor leaves with its answer "Done" on the wire.
LEMMA ServeDoneKeeps ==
  ASSUME IInv, SInv, NEW d \in Device, ServeDone(d)
  PROVE  SInv'
<1>0. PICK p \in Device : p = partner[d]
  BY DEF ServeDone, IInv, Phases
<1>1. /\ p # d /\ Active(d) /\ role[d] = "acceptor" /\ pc[d] = "serve"
      /\ Inbox(d) # <<>> /\ Received(d).type = "Done"
  BY <1>0 DEF ServeDone, IInv, Phases, SInv, Local, Ends, Active, Receives, Received
<1>2. End(d) /\ UNCHANGED <<file, catalog, touched>> /\ Reply(d, Done)
  BY DEF ServeDone, disk, history
<1>3. OwnWireOnly(d)
  BY <1>0, <1>1, <1>2 DEF OwnWireOnly, Reply, IInv, Provenance
<1>4. ASSUME Active(p), partner[p] = d PROVE InboxFits(p)'
  <2>1. Linked(p, d)
    <3>1. Paired(d)
      BY <1>0, <1>1, <1>4, NobodyAssumption DEF Paired, Active, NobodyAssumption
    <3>2. role[p] # "acceptor"
      BY <1>0, <1>1, <1>4 DEF SInv, OneInitiator
    <3> QED BY <1>0, <1>1, <1>4, <3>1, <3>2, PairedLinked DEF Linked
  <2>2. Requested(p, d) \/ Pushing(p, d) \/ Burying(p, d) \/ Finishing(p, d)
    BY <1>0, <1>1, <2>1, TurnOfAcceptor
  <2>3. Inbox(d) = net[<<p, d>>]
    BY <1>0 DEF Inbox
  <2>4. Finishing(p, d)
    BY <1>0, <1>1, <2>2, <2>3, Typenames, ShortSequences
    DEF Requested, Pushing, Burying, Asked, Wires, Received
  <2>5. net[<<d, p>>] = <<>> /\ pc[p] = "await_done" /\ role[p] = "initiator"
    BY <1>0, <2>1, <2>4 DEF Finishing, Asked, Wires, Linked
  <2>6. net'[<<d, p>>] = <<Done>>
    BY <1>0, <1>1, <1>2, <2>5, ShortSequences DEF Reply, IInv, Provenance
  <2>7. partner'[p] = d /\ pc'[p] = "await_done"
    BY <1>0, <1>1, <1>2, <1>4, <2>5 DEF End, Goto, IInv, Typed
  <2>8. Inbox(p)' = <<Done>> /\ Expected(p)' = {"Done"}
    BY <2>6, <2>7 DEF Inbox, Expected
  <2>9. Fits(p, Done)'
    BY Typenames DEF Fits, Done
  <2> QED BY <2>8, <2>9, ShortSequences, Typenames DEF InboxFits, Done
<1> QED BY <1>0, <1>1, <1>2, <1>3, <1>4, LeaveFrame

\* The initiator has nothing more to say when it leaves.
LEMMA ReceiveDoneKeeps ==
  ASSUME IInv, SInv, NEW d \in Device, ReceiveDone(d)
  PROVE  SInv'
<1>0. PICK p \in Device : p = partner[d]
  BY DEF ReceiveDone, IInv, Phases
<1>1. /\ p # d /\ Active(d) /\ role[d] = "initiator"
      /\ pc[d] = "await_done" /\ Inbox(d) # <<>>
  BY <1>0 DEF ReceiveDone, IInv, Phases, SInv, Local, Ends, Active, Receives
<1>2. End(d) /\ UNCHANGED <<file, catalog, touched>> /\ Consume(d)
  BY DEF ReceiveDone, disk, history
<1>3. OwnWireOnly(d)
  BY <1>0, <1>1, <1>2 DEF OwnWireOnly, Consume, IInv, Provenance
<1>4. ~Paired(d)
  <2> SUFFICES ASSUME Paired(d) PROVE FALSE
    OBVIOUS
  <2>1. Linked(d, p)
    BY <1>0, <1>1, PairedLinked DEF Linked
  <2> QED BY <1>0, <1>1, <2>1, TurnOfInitiator
<1>5. ~(Active(p) /\ partner[p] = d)
  BY <1>0, <1>1, <1>4, NobodyAssumption DEF Paired, Active, NobodyAssumption
<1> QED BY <1>0, <1>1, <1>2, <1>3, <1>5, LeaveFrame

LEMMA BeginKeeps ==
  ASSUME IInv, SInv, NEW d \in Device, NEW p \in Device, Begin(d, p)
  PROVE  SInv'
<1>1. /\ pc[d] = "idle" /\ pc' = [pc EXCEPT ![d] = "connect"]
      /\ role' = [role EXCEPT ![d] = "initiator"]
      /\ partner' = [partner EXCEPT ![d] = p] /\ p # d
      /\ UNCHANGED <<file, catalog, touched, at, mine, theirs, item, net>>
  BY DEF Begin, Goto, disk, history
<1>2. \A e \in Device \ {d} : Undisturbed(e)
  BY <1>1 DEF Undisturbed, IInv, Typed, SInv, Local, Placed
<1>3. Local(d)'
  <2>1. pc'[d] = "connect" /\ role'[d] = "initiator" /\ partner'[d] = p /\ at'[d] = 1
    BY <1>1 DEF IInv, Typed, SInv, Local, Ends
  <2>2. Ends(d)' /\ Scans(d)' /\ Walks(d)'
    BY <1>1, <2>1 DEF Ends, Scans, Walks, Active
  <2>3. Placed(d)'
    BY <1>1 DEF SInv, Local, Placed, InPlace
  <2> QED BY <2>2, <2>3 DEF Local
<1>4. \A e \in Device : Local(e)'
  BY <1>2, <1>3, LocalFrame DEF SInv, IInv, Provenance
<1>5. \A e \in Device : Active(e)' =>
        /\ e # d /\ Active(e)
        /\ role'[e] = role[e] /\ partner'[e] = partner[e]
  BY <1>1, <1>2 DEF Undisturbed, Active, IInv, Typed
<1>6. OneInitiator'
  BY <1>5 DEF SInv, OneInitiator
<1>7. Together'
  <2> SUFFICES ASSUME NEW i \in Device, NEW a \in Device, Linked(i, a)'
               PROVE  Pair(i, a)'
    BY DEF Together
  <2>1. Linked(i, a) /\ i # d /\ a # d
    BY <1>5 DEF Linked
  <2> QED BY <1>1, <1>2, <2>1, PairFrame DEF SInv, Together
<1>8. Left'
  <2> SUFFICES ASSUME NEW e \in Device, Active(e)' PROVE InboxFits(e)'
    BY DEF Left
  <2>1. e # d /\ Active(e) /\ partner'[e] = partner[e] /\ partner[e] \in Device
    BY <1>5 DEF IInv, Phases, Active
  <2>2. Inbox(e)' = Inbox(e)
    BY <1>1, <2>1 DEF Inbox
  <2> QED BY <1>2, <2>1, <2>2, AllInboxes, InboxFrame
<1> QED BY <1>4, <1>6, <1>7, <1>8 DEF SInv

LEMMA AcceptKeeps ==
  ASSUME IInv, SInv, NEW d \in Device, NEW p \in Device, Accept(d, p)
  PROVE  SInv'
<1>1. /\ pc[d] = "idle" /\ pc[p] = "connect" /\ partner[p] = d /\ p # d
      /\ pc' = [pc EXCEPT ![d] = "await_snapshot", ![p] = "scan"]
      /\ role' = [role EXCEPT ![d] = "acceptor"]
      /\ partner' = [partner EXCEPT ![d] = p]
      /\ net' = [net EXCEPT ![<<p, d>>] = <<>>, ![<<d, p>>] = <<>>]
      /\ UNCHANGED <<file, catalog, touched, at, mine, theirs, item>>
  BY DEF Accept, Connecting, disk, history, SInv, Local, Ends
<1>2. \A e \in Device \ {d, p} : Undisturbed(e)
  BY <1>1 DEF Undisturbed, IInv, Typed, SInv, Local, Placed
<1>3. /\ pc'[d] = "await_snapshot" /\ role'[d] = "acceptor" /\ partner'[d] = p /\ at'[d] = 1
      /\ pc'[p] = "scan" /\ role'[p] = "initiator" /\ partner'[p] = d /\ at'[p] = 1
  BY <1>1 DEF IInv, Typed, SInv, Local, Ends
<1>4. Local(d)'
  <2>1. Ends(d)' /\ Walks(d)'
    BY <1>1, <1>3 DEF Ends, Walks
  <2>2. Scans(d)'
    BY <1>3 DEF Scans, Scanned, Standing
  <2>3. Placed(d)'
    BY <1>1 DEF SInv, Local, Placed, InPlace
  <2> QED BY <2>1, <2>2, <2>3 DEF Local
<1>5. Local(p)'
  <2>1. Ends(p)' /\ Walks(p)'
    BY <1>1, <1>3 DEF Ends, Walks
  <2>2. Scans(p)'
    BY <1>3, KeyAssumption DEF Scans, Scanned, Standing, KeyAssumption
  <2>3. Placed(p)'
    BY <1>1 DEF SInv, Local, Placed, InPlace
  <2> QED BY <2>1, <2>2, <2>3 DEF Local
<1>6. \A e \in Device : Local(e)'
  BY <1>2, <1>4, <1>5, LocalFrame DEF SInv, IInv, Provenance
<1>7. \A e \in Device \ {d, p} :
        Active(e)' => Active(e) /\ role'[e] = role[e] /\ partner'[e] = partner[e]
  BY <1>2 DEF Undisturbed, Active
<1>8. OneInitiator'
  BY <1>3, <1>7 DEF SInv, OneInitiator
<1>9. Together'
  <2> SUFFICES ASSUME NEW i \in Device, NEW a \in Device, Linked(i, a)'
               PROVE  Pair(i, a)'
    BY DEF Together
  <2>1. CASE i \in {d, p} \/ a \in {d, p}
    <3>1. i = p /\ a = d
      BY <1>3, <2>1 DEF Linked
    <3>2. net'[<<p, d>>] = <<>> /\ net'[<<d, p>>] = <<>>
      BY <1>1 DEF IInv, Provenance
    <3> QED BY <1>3, <3>1, <3>2 DEF Pair, Opening, FirstScan, Wires
  <2>2. CASE i \notin {d, p} /\ a \notin {d, p}
    <3>1. Linked(i, a)
      BY <1>7, <2>2 DEF Linked
    <3>2. net'[<<i, a>>] = net[<<i, a>>] /\ net'[<<a, i>>] = net[<<a, i>>]
      BY <1>1, <2>2 DEF IInv, Provenance
    <3> QED BY <1>2, <2>2, <3>1, <3>2, PairFrame DEF SInv, Together
  <2> QED BY <2>1, <2>2
<1>10. Left'
  <2> SUFFICES ASSUME NEW e \in Device, Active(e)', ~Paired(e)' PROVE InboxFits(e)'
    BY DEF Left
  <2>1. e \notin {d, p}
    BY <1>1, <1>3, NobodyAssumption DEF Paired, NobodyAssumption
  <2>2. Active(e) /\ partner'[e] = partner[e] /\ partner[e] \in Device
    BY <1>7, <2>1 DEF IInv, Phases, Active
  <2>3. Inbox(e)' = Inbox(e)
    BY <1>1, <2>1, <2>2 DEF Inbox, IInv, Provenance
  <2> QED BY <1>2, <2>1, <2>2, <2>3, AllInboxes, InboxFrame
<1> QED BY <1>6, <1>8, <1>9, <1>10 DEF SInv
-----------------------------------------------------------------------------
(* The steps of a session. *)

LEMMA SendWires ==
  ASSUME IInv, NEW d \in Device, NEW p \in Device, p = partner[d], p # d,
         NEW m, Send(d, m)
  PROVE  /\ OwnWireOnly(d)
         /\ net'[<<d, p>>] = Append(net[<<d, p>>], m)
         /\ net'[<<p, d>>] = Inbox(d)
BY DEF Send, OwnWireOnly, Inbox, IInv, Provenance

LEMMA ConsumeWires ==
  ASSUME IInv, NEW d \in Device, NEW p \in Device, p = partner[d], p # d, Consume(d)
  PROVE  /\ OwnWireOnly(d)
         /\ net'[<<d, p>>] = net[<<d, p>>]
         /\ net'[<<p, d>>] = Tail(Inbox(d))
BY DEF Consume, OwnWireOnly, Inbox, IInv, Provenance

LEMMA ReplyWires ==
  ASSUME IInv, NEW d \in Device, NEW p \in Device, p = partner[d], p # d,
         NEW m, Reply(d, m)
  PROVE  /\ OwnWireOnly(d)
         /\ net'[<<d, p>>] = Append(net[<<d, p>>], m)
         /\ net'[<<p, d>>] = Tail(Inbox(d))
BY DEF Reply, OwnWireOnly, Inbox, IInv, Provenance

\* An end in a session has a peer other than itself.
LEMMA PeerOf ==
  ASSUME IInv, SInv, NEW d \in Device, pc[d] # "idle"
  PROVE  partner[d] \in Device /\ partner[d] # d /\ role[d] \in {"initiator", "acceptor"}
BY DEF IInv, Phases, Typed, SInv, Local, Ends

LEMMA NothingToCome ==
  ASSUME IInv, SInv, NEW d \in Device, pc[d] \in {"scan", "step"}
  PROVE  Inbox(d) = <<>>
BY AllInboxes DEF Active, InboxFits, Expected

LEMMA LastToCome ==
  ASSUME IInv, SInv, NEW d \in Device, Active(d), Inbox(d) # <<>>,
         ~(pc[d] = "await_applied" /\ role[d] = "acceptor")
  PROVE  Inbox(d) = <<Received(d)>> /\ Tail(Inbox(d)) = <<>>
<1>1. Inbox(d) = <<Inbox(d)[1]>>
  BY AllInboxes DEF InboxFits
<1> QED BY <1>1, ShortSequences DEF Received

\* A step that touches no data keeps what the end knows of its own.
LEMMA ScansStay ==
  ASSUME IInv, SInv, NEW d \in Device, Active(d),
         UNCHANGED <<file, catalog, mine, touched>>,
         Scanned(d)' \subseteq Scanned(d), Standing(d)' \subseteq Standing(d)
  PROVE  Scans(d)'
BY DEF SInv, Local, Scans, Told, Kept, Untouched, DescribesDisk, Live

LEMMA PlacedStay ==
  ASSUME SInv, NEW d \in Device, UNCHANGED <<catalog, mine, theirs>>
  PROVE  Placed(d)'
BY DEF SInv, Local, Placed, InPlace

\* Whoever has all inboxes empty after a step fits.
LEMMA EmptyFits ==
  ASSUME NEW d \in Device, NEW p \in Device, partner'[d] = p, net'[<<p, d>>] = <<>>
  PROVE  InboxFits(d)'
BY DEF InboxFits, Inbox

\* The scan brings the row of a key in line with the disk and into the snapshot.
LEMMA ScannedRow ==
  ASSUME IInv, SInv, NEW d \in Device, NEW k, k = at[d], ScanRoot(d)
  PROVE  /\ k \in Key /\ at'[d] = k + 1
         /\ catalog'[d][k] = mine'[d][k]
         /\ DescribesDisk(d, k)'
         /\ catalog'[d][k] # NoRecord => catalog'[d][k].path = k
         /\ \A j \in Key \ {k} : catalog'[d][j] = catalog[d][j] /\ mine'[d][j] = mine[d][j]
         /\ touched'[d] = touched[d] \ {k}
<1> DEFINE f == file[d][k]
           r == catalog[d][k]
<1> USE DEF IInv, Typed, Provenance
<1>1. /\ k \in Key /\ at'[d] = k + 1 /\ file' = file
      /\ touched'[d] = touched[d] \ {k}
  BY KeyAssumption DEF ScanRoot, KeyAssumption
<1>2. CASE /\ IF f = NoFile THEN ~Live(r) ELSE Live(r) /\ r.content = f.content
           /\ mine' = [mine EXCEPT ![d][k] = r]
           /\ UNCHANGED <<catalog, counter, issued>>
  <2>1. DescribesDisk(d, k)'
    BY <1>1, <1>2 DEF DescribesDisk, Live
  <2>2. r # NoRecord => r.path = k
    BY <1>1 DEF SInv, Local, Placed, InPlace
  <2> QED BY <1>1, <1>2, <2>1, <2>2
<1>3. ASSUME NEW c \in Content, NEW del \in BOOLEAN, NEW base \in Nat,
             Issue(d, k, Recorded(d, k, c, del, base)),
             mine' = [mine EXCEPT ![d][k] = Recorded(d, k, c, del, base)],
             IF del THEN f = NoFile ELSE f # NoFile /\ c = f.content
      PROVE  /\ catalog'[d][k] = mine'[d][k]
             /\ DescribesDisk(d, k)'
             /\ catalog'[d][k] # NoRecord => catalog'[d][k].path = k
             /\ \A j \in Key \ {k} : catalog'[d][j] = catalog[d][j] /\ mine'[d][j] = mine[d][j]
  <2> DEFINE new == Recorded(d, k, c, del, base)
  <2>1. new \in ObjectRecord
    BY <1>1, <1>3, IssueKeepsStamps
  <2>2. new # NoRecord
    BY <2>1, NoRecordAssumption DEF NoRecordAssumption
  <2>3. new.path = k /\ new.content = c /\ new.deleted = del
    BY DEF Recorded
  <2>4. catalog' = [catalog EXCEPT ![d][k] = new] /\ mine' = [mine EXCEPT ![d][k] = new]
    BY <1>3 DEF Issue
  <2> HIDE DEF new
  <2>5. catalog'[d][k] = new /\ mine'[d][k] = new /\ file'[d][k] = f
    BY <1>1, <2>4
  <2>6. DescribesDisk(d, k)'
    BY <1>1, <1>3, <2>2, <2>3, <2>5 DEF DescribesDisk, Live
  <2> QED BY <1>1, <2>3, <2>4, <2>5, <2>6
<1>4. CASE /\ f # NoFile
           /\ Issue(d, k, Recorded(d, k, f.content, FALSE, f.mtime))
           /\ mine' = [mine EXCEPT ![d][k] = Recorded(d, k, f.content, FALSE, f.mtime)]
  <2>1. f.content \in Content /\ f.mtime \in Nat
    BY <1>1, <1>4 DEF File
  <2> QED BY <1>1, <1>3, <1>4, <2>1
<1>5. CASE /\ f = NoFile /\ Live(r)
           /\ Issue(d, k, Recorded(d, k, r.content, TRUE, clock[d]))
           /\ mine' = [mine EXCEPT ![d][k] = Recorded(d, k, r.content, TRUE, clock[d])]
  <2>1. r \in issued
    BY <1>1, <1>5 DEF Live
  <2>2. r.content \in Content /\ clock[d] \in Nat
    BY <2>1, IssuedIsRecord
  <2> QED BY <1>1, <1>3, <1>5, <2>2
<1> QED BY <1>1, <1>2, <1>4, <1>5 DEF ScanRoot

LEMMA ScanRootKeeps ==
  ASSUME IInv, SInv, NEW d \in Device, ScanRoot(d)
  PROVE  SInv'
<1>0. PICK p \in Device : p = partner[d]
  BY PeerOf DEF ScanRoot
<1>1. /\ pc[d] = "scan" /\ p # d /\ Active(d)
      /\ UNCHANGED <<pc, role, partner, theirs, item, net, file>>
  BY <1>0, PeerOf DEF ScanRoot, Active
<1>2. /\ \A e \in Device \ {d} : Undisturbed(e)
      /\ OwnWireOnly(d)
  <2>1. \A e \in Device \ {d} :
          /\ catalog'[e] = catalog[e] /\ mine'[e] = mine[e]
          /\ at'[e] = at[e] /\ touched'[e] = touched[e]
    BY DEF ScanRoot, Issue, IInv, Typed, Provenance
  <2> QED BY <1>1, <2>1 DEF Undisturbed, OwnWireOnly, SInv, Local, Placed
<1>3. Local(d)'
  <2>1. Ends(d)' /\ Walks(d)'
    BY <1>1 DEF Ends, Walks, SInv, Local
  <2>2. Placed(d)'
    BY <1>1, ScannedRow DEF SInv, Local, Placed, InPlace
  <2>3. Scans(d)'
    <3>1. ASSUME NEW k \in Key, k < at'[d] PROVE Told(d, k)' /\ Kept(d, k)'
      <4>1. CASE k = at[d]
        BY <4>1, ScannedRow DEF Told, Kept
      <4>2. CASE k # at[d]
        <5>1. k < at[d]
          BY <3>1, <4>2, ScannedRow, KeyAssumption DEF KeyAssumption, IInv, Typed
        <5>2. Told(d, k) /\ Kept(d, k)
          BY <1>1, <5>1 DEF SInv, Local, Scans, Scanned, Standing
        <5>3. catalog'[d][k] = catalog[d][k] /\ mine'[d][k] = mine[d][k]
              /\ (Untouched(d, k)' => Untouched(d, k)) /\ file' = file
          BY <1>1, <4>2, ScannedRow DEF Untouched
        <5> QED BY <5>2, <5>3 DEF Told, Kept, DescribesDisk
      <4> QED BY <4>1, <4>2
    <3> QED BY <1>1, <3>1 DEF Scans, Scanned, Standing
  <2> QED BY <2>1, <2>2, <2>3 DEF Local
<1>4. InboxFits(d)'
  BY <1>0, <1>1, NothingToCome, EmptyFits DEF Inbox
<1>5. ASSUME NEW e \in Device, Linked(d, e) PROVE Pair(d, e)'
  BY <1>1, <1>5, TurnOfInitiator DEF FirstScan, Wires, Pair, Opening
<1>6. ASSUME NEW e \in Device, Linked(e, d) PROVE Pair(e, d)'
  BY <1>1, <1>6, TurnOfAcceptor DEF SecondScan, Wires, Pair, Opening
<1> QED BY <1>1, <1>2, <1>3, <1>4, <1>5, <1>6, StayFrame DEF Active

LEMMA SendSnapshotKeeps ==
  ASSUME IInv, SInv, NEW d \in Device, SendSnapshot(d)
  PROVE  SInv'
<1>0. PICK p \in Device : p = partner[d]
  BY PeerOf DEF SendSnapshot
<1>1. /\ pc[d] = "scan" /\ p # d /\ Active(d) /\ role[d] \in {"initiator", "acceptor"}
      /\ at[d] = Last + 1 /\ at'[d] = 1 /\ Send(d, Snapshot(mine[d]))
      /\ pc'[d] = IF role[d] = "initiator" THEN "await_snapshot" ELSE "serve"
      /\ UNCHANGED <<file, catalog, mine, touched, role, partner, theirs, item>>
  BY <1>0, PeerOf DEF SendSnapshot, Active, Goto, disk, history, IInv, Typed
<1>2. \A e \in Device \ {d} : Undisturbed(e)
  BY DEF SendSnapshot, Goto, disk, history, Undisturbed, SInv, Local, Placed, IInv, Typed
<1>3. /\ net'[<<d, p>>] = Append(net[<<d, p>>], Snapshot(mine[d]))
      /\ net'[<<p, d>>] = Inbox(d) /\ Inbox(d) = <<>> /\ OwnWireOnly(d)
  BY <1>0, <1>1, SendWires, NothingToCome
<1>4. Local(d)'
  <2>1. Ends(d)' /\ Walks(d)'
    BY <1>1 DEF Ends, Walks, SInv, Local
  <2>2. Scans(d)'
    <3>1. Scanned(d) = Key /\ Standing(d) = Key
      BY <1>1, KeyAssumption DEF KeyAssumption, Scanned, Standing
    <3> QED BY <1>1, <3>1, ScansStay DEF Scanned, Standing
  <2> QED BY <1>1, <2>1, <2>2, PlacedStay DEF Local
<1>5. InboxFits(d)'
  BY <1>0, <1>1, <1>3, EmptyFits
<1>6. ASSUME NEW e \in Device, Linked(d, e) PROVE Pair(d, e)'
  <2>1. e = p /\ FirstScan(d, p) /\ role[d] = "initiator"
    BY <1>0, <1>1, <1>6, TurnOfInitiator DEF Linked
  <2>2. net'[<<d, p>>] = <<Snapshot(mine[d])>> /\ net'[<<p, d>>] = <<>>
    BY <1>3, <2>1, ShortSequences DEF FirstScan, Wires
  <2>3. pc'[p] = pc[p]
    BY <1>1, <1>2 DEF Undisturbed
  <2> QED BY <1>1, <2>1, <2>2, <2>3
      DEF FirstScan, FirstSnapshot, Wires, Pair, Opening, Snapshot
<1>7. ASSUME NEW e \in Device, Linked(e, d) PROVE Pair(e, d)'
  <2>1. e = p /\ SecondScan(p, d) /\ role[d] = "acceptor"
    BY <1>0, <1>1, <1>7, TurnOfAcceptor DEF Linked
  <2>2. net'[<<d, p>>] = <<Snapshot(mine[d])>> /\ net'[<<p, d>>] = <<>>
    BY <1>3, <2>1, ShortSequences DEF SecondScan, Wires
  <2>3. pc'[p] = pc[p]
    BY <1>1, <1>2 DEF Undisturbed
  <2>4. \A k \in Key : Kept(d, k)'
    BY <1>1, KeyAssumption DEF SInv, Local, Scans, Standing, Kept, Untouched, KeyAssumption
  <2> QED BY <1>1, <2>1, <2>2, <2>3, <2>4
      DEF SecondScan, SecondSnapshot, Wires, Pair, Opening, Snapshot
<1> QED BY <1>1, <1>2, <1>3, <1>4, <1>5, <1>6, <1>7, StayFrame DEF Active

LEMMA ReceiveSnapshotKeeps ==
  ASSUME IInv, SInv, NEW d \in Device, ReceiveSnapshot(d)
  PROVE  SInv'
<1>0. PICK p \in Device : p = partner[d]
  BY PeerOf DEF ReceiveSnapshot
<1>1. /\ pc[d] = "await_snapshot" /\ p # d /\ Active(d)
      /\ role[d] \in {"initiator", "acceptor"} /\ at[d] = 1
      /\ Inbox(d) # <<>> /\ Received(d).type = "Snapshot" /\ Consume(d)
      /\ theirs'[d] = Received(d).records
      /\ pc'[d] = IF role[d] = "initiator" THEN "step" ELSE "scan"
      /\ UNCHANGED <<file, catalog, mine, touched, role, partner, at, item>>
  BY <1>0, PeerOf DEF ReceiveSnapshot, Active, Goto, disk, history, IInv, Typed, Provenance,
     SInv, Local, Ends, Receives, Received
<1>2. \A e \in Device \ {d} : Undisturbed(e)
  BY DEF ReceiveSnapshot, Goto, disk, history, Undisturbed, SInv, Local, Placed,
     IInv, Typed, Provenance
<1>3. /\ net'[<<d, p>>] = net[<<d, p>>] /\ net'[<<p, d>>] = Tail(Inbox(d))
      /\ Tail(Inbox(d)) = <<>> /\ OwnWireOnly(d) /\ Inbox(d) = <<Received(d)>>
  BY <1>0, <1>1, ConsumeWires, LastToCome
<1>4. Local(d)'
  <2>1. Ends(d)' /\ Walks(d)'
    BY <1>1 DEF Ends, Walks, SInv, Local
  <2>2. Scans(d)'
    BY <1>1, ScansStay, KeyAssumption DEF Scanned, Standing, KeyAssumption
  <2>3. Placed(d)'
    <3>1. InPlace(Received(d).records)
      BY <1>1, HeadFits DEF Fits
    <3> QED BY <1>1, <3>1 DEF SInv, Local, Placed, InPlace
  <2> QED BY <2>1, <2>2, <2>3 DEF Local
<1>5. InboxFits(d)'
  BY <1>0, <1>1, <1>3, EmptyFits
<1>6. ASSUME NEW e \in Device, Linked(d, e) PROVE Pair(d, e)'
  <2>1. e = p /\ SecondSnapshot(d, p) /\ role[d] = "initiator"
    BY <1>0, <1>1, <1>6, TurnOfInitiator DEF Linked
  <2>2. theirs'[d] = mine[p]
    BY <1>0, <1>1, <2>1, ShortSequences, Typenames DEF SecondSnapshot, Wires, Inbox, Received
  <2>3. pc'[p] = "serve" /\ mine'[p] = mine[p] /\ net'[<<d, p>>] = <<>> /\ net'[<<p, d>>] = <<>>
    BY <1>1, <1>2, <1>3, <2>1 DEF Undisturbed, SecondSnapshot, Wires
  <2>4. \A k \in Key : Kept(p, k)'
    BY <1>1, <2>1 DEF SecondSnapshot, Kept, Untouched
  <2>5. Walk(d, p)'
    BY <1>1, <2>2, <2>3, <2>4, KeyAssumption DEF Walk, KeyAssumption
  <2> QED BY <1>1, <2>1, <2>3, <2>4, <2>5 DEF Ready, Silent, Wires, Pair, Transferring
<1>7. ASSUME NEW e \in Device, Linked(e, d) PROVE Pair(e, d)'
  <2>1. e = p /\ FirstSnapshot(p, d) /\ role[d] = "acceptor"
    BY <1>0, <1>1, <1>7, TurnOfAcceptor DEF Linked
  <2>2. pc'[p] = pc[p]
    BY <1>1, <1>2 DEF Undisturbed
  <2> QED BY <1>1, <1>3, <2>1, <2>2
      DEF FirstSnapshot, SecondScan, Wires, Pair, Opening
<1> QED BY <1>1, <1>2, <1>3, <1>4, <1>5, <1>6, <1>7, StayFrame DEF Active

\* Equal versions are equal records: nothing is lost by transferring neither.
LEMMA EqualRecords ==
  ASSUME IInv, NEW r \in issued \cup {NoRecord}, NEW s \in issued \cup {NoRecord},
         Winner(r, s) = "equal"
  PROVE  r = s
<1>1. CASE r # NoRecord /\ s # NoRecord
  <2>1. r.version \in VersionStamp /\ s.version \in VersionStamp
    BY <1>1, IssuedIsRecord DEF IInv, ObjectRecord
  <2>2. r.version = s.version
    BY <1>1, <2>1, NewerTotal DEF Winner
  <2> QED BY <1>1, <2>2 DEF IInv, Stamps
<1> QED BY <1>1 DEF Winner

\* One object further: behind it the two agree.
LEMMA WalkOn ==
  ASSUME IInv, NEW i \in Device, NEW a \in Device, Walk(i, a),
         NEW k, k = at[i], at'[i] = k + 1, theirs'[i] = theirs[i], mine'[a] = mine[a],
         k \in Key => Same(i, a, k)',
         \A j \in Key \ {k} : /\ Same(i, a, j) => Same(i, a, j)'
                              /\ Kept(a, j) => Kept(a, j)'
  PROVE  Walk(i, a)' /\ (at[i] \in Key => Kept(a, at[i]))'
<1> USE KeyAssumption DEF KeyAssumption, IInv, Typed
<1>1. \A j \in Key : j < k + 1 => Same(i, a, j)'
  <2> TAKE j \in Key
  <2>1. CASE j = k
    BY <2>1
  <2>2. CASE j # k
    BY <2>2 DEF Walk
  <2> QED BY <2>1, <2>2
<1>2. \A j \in Key : j > k => Kept(a, j)'
  BY DEF Walk
<1>3. at'[i] \in Key => at'[i] > k
  OBVIOUS
<1>4. Walk(i, a)'
  BY <1>1, <1>2 DEF Walk
<1> QED BY <1>2, <1>3, <1>4

LEMMA WalkStays ==
  ASSUME NEW i \in Device, NEW a \in Device, Walk(i, a),
         UNCHANGED <<catalog, touched, mine, theirs, at>>
  PROVE  /\ Walk(i, a)'
         /\ (at[i] \in Key => Kept(a, at[i])) => (at[i] \in Key => Kept(a, at[i]))'
BY DEF Walk, Same, Kept, Untouched

\* Where the walk is, neither snapshot is out of date but by an edit.
LEMMA AtStep ==
  ASSUME IInv, SInv, NEW d \in Device, NEW p \in Device, p = partner[d], pc[d] = "step",
         NEW k, k = at[d]
  PROVE  /\ p # d /\ Active(d) /\ role[d] = "initiator"
         /\ k \in Key => Kept(d, k) /\ Told(d, k)
         /\ \A e \in Device : Linked(d, e) =>
              e = p /\ Walk(d, p) /\ Ready(d, p) /\ (k \in Key => Kept(p, k))
         /\ \A e \in Device : ~Linked(e, d)
         /\ Inbox(d) = <<>>
<1>1. p # d /\ Active(d) /\ role[d] = "initiator"
  BY DEF SInv, Local, Ends, Active
<1>2. k \in Key => Kept(d, k) /\ Told(d, k)
  BY <1>1, KeyAssumption DEF SInv, Local, Scans, Scanned, Standing, KeyAssumption
<1>3. ASSUME NEW e \in Device, Linked(d, e)
      PROVE  e = p /\ Walk(d, p) /\ Ready(d, p) /\ (k \in Key => Kept(p, k))
  <2>1. e = p
    BY <1>3 DEF Linked
  <2> QED BY <1>3, <2>1, TurnOfInitiator
<1>4. \A e \in Device : ~Linked(e, d)
  BY <1>1 DEF Linked
<1> QED BY <1>1, <1>2, <1>3, <1>4, NothingToCome

LEMMA StepEqualKeeps ==
  ASSUME IInv, SInv, NEW d \in Device, StepEqual(d)
  PROVE  SInv'
<1>0. PICK p \in Device : p = partner[d]
  BY PeerOf DEF StepEqual, AtWinner
<1> DEFINE k == at[d]
<1>1. /\ pc[d] = "step" /\ k \in Key /\ at'[d] = k + 1
      /\ Winner(mine[d][k], theirs[d][k]) = "equal"
      /\ UNCHANGED <<pc, role, partner, file, catalog, mine, theirs, item, net, touched>>
  BY DEF StepEqual, AtWinner, disk, history, IInv, Typed
<1>2. \A e \in Device \ {d} : Undisturbed(e)
  BY DEF StepEqual, disk, history, Undisturbed, SInv, Local, Placed, IInv, Typed
<1>3. /\ p # d /\ Active(d) /\ role[d] = "initiator" /\ Inbox(d) = <<>>
      /\ \A e \in Device : ~Linked(e, d)
  BY <1>0, <1>1, AtStep
<1>4. Local(d)'
  <2>1. Ends(d)' /\ Walks(d)'
    BY <1>1 DEF Ends, Walks, SInv, Local
  <2>2. Scans(d)'
    BY <1>1, <1>3, ScansStay, KeyAssumption DEF Scanned, Standing, KeyAssumption
  <2> QED BY <1>1, <2>1, <2>2, PlacedStay DEF Local
<1>5. InboxFits(d)'
  BY <1>1, <1>3 DEF InboxFits, Inbox
<1>6. ASSUME NEW e \in Device, Linked(d, e) PROVE Pair(d, e)'
  <2>1. PICK j \in Key : j = at[d]
    BY <1>1
  <2>2. /\ e = p /\ Walk(d, p) /\ Ready(d, p) /\ Kept(p, j) /\ Kept(d, j)
    BY <1>0, <1>1, <1>6, <2>1, AtStep
  <2>3. mine[d][j] = mine[p][j]
    <3>1. Winner(mine[d][j], mine[p][j]) = "equal"
      BY <1>1, <2>1, <2>2 DEF Walk
    <3>2. mine[d][j] \in issued \cup {NoRecord} /\ mine[p][j] \in issued \cup {NoRecord}
      BY DEF IInv, Provenance
    <3> QED BY <3>1, <3>2, EqualRecords
  <2>4. Same(d, p, j)'
    BY <1>1, <2>2, <2>3 DEF Same, Kept, Untouched
  <2>5. Walk(d, p)' /\ (at[d] \in Key => Kept(p, at[d]))'
    BY <1>1, <2>1, <2>2, <2>4, WalkOn DEF Same, Kept, Untouched
  <2>6. Ready(d, p)'
    BY <1>1, <2>2 DEF Ready, Silent, Wires, Applied
  <2> QED BY <2>2, <2>5, <2>6 DEF Pair, Transferring
<1> QED BY <1>1, <1>2, <1>3, <1>4, <1>5, <1>6, StayFrame DEF Active, OwnWireOnly

LEMMA StepDeleteHereKeeps ==
  ASSUME IInv, SInv, NEW d \in Device, StepDeleteHere(d)
  PROVE  SInv'
<1>0. PICK p \in Device : p = partner[d]
  BY PeerOf DEF StepDeleteHere, AtWinner
<1>00. PICK k \in Key : k = at[d]
  BY DEF StepDeleteHere, AtWinner
<1> DEFINE r == theirs[d][k]
<1>1. /\ pc[d] = "step" /\ at'[d] = k + 1 /\ r.deleted
      /\ Winner(mine[d][k], r) = "remote"
      /\ UNCHANGED <<pc, role, partner, mine, theirs, item, net, touched>>
  BY <1>00 DEF StepDeleteHere, AtWinner, disk, history, IInv, Typed
<1>2. r # NoRecord /\ r.path = k
  BY <1>1, WinnerExists DEF SInv, Local, Placed, InPlace
<1>3. /\ file' = [file EXCEPT ![d][k] = NoFile]
      /\ catalog' = [catalog EXCEPT ![d][k] = r]
  BY <1>00, <1>2 DEF StepDeleteHere, ApplyTombstone
<1> HIDE DEF r
<1>4. /\ file'[d][k] = NoFile /\ catalog'[d][k] = r
      /\ \A j \in Key \ {k} : file'[d][j] = file[d][j] /\ catalog'[d][j] = catalog[d][j]
      /\ \A e \in Device \ {d} : file'[e] = file[e] /\ catalog'[e] = catalog[e] /\ at'[e] = at[e]
  BY <1>3 DEF StepDeleteHere, IInv, Typed, Provenance
<1>5. \A e \in Device \ {d} : Undisturbed(e)
  BY <1>1, <1>4 DEF Undisturbed, SInv, Local, Placed
<1>6. /\ p # d /\ Active(d) /\ role[d] = "initiator" /\ Inbox(d) = <<>>
      /\ \A e \in Device : ~Linked(e, d)
  BY <1>0, <1>1, AtStep
<1>7. Local(d)'
  <2>1. Ends(d)' /\ Walks(d)'
    BY <1>1 DEF Ends, Walks, SInv, Local
  <2>2. Scans(d)'
    <3>1. ASSUME NEW j \in Key PROVE Told(d, j)'
      <4>1. CASE j = k
        BY <1>1, <1>4, <4>1 DEF Told, DescribesDisk, Live, r
      <4>2. CASE j # k
        <5>1. Told(d, j)
          BY <1>1, <1>6 DEF SInv, Local, Scans, Scanned
        <5> QED BY <1>1, <1>4, <4>2, <5>1 DEF Told, DescribesDisk, Untouched
      <4> QED BY <4>1, <4>2
    <3>2. ASSUME NEW j \in Key, j >= at'[d] PROVE Kept(d, j)'
      <4>1. j # k /\ j >= at[d]
        BY <1>00, <1>1, <3>2, KeyAssumption DEF KeyAssumption
      <4>2. Kept(d, j)
        BY <1>1, <1>6, <4>1 DEF SInv, Local, Scans, Standing
      <4> QED BY <1>1, <1>4, <4>1, <4>2 DEF Kept, Untouched
    <3> QED BY <1>1, <1>6, <3>1, <3>2 DEF Scans, Scanned, Standing
  <2>3. Placed(d)'
    BY <1>1, <1>2, <1>4 DEF SInv, Local, Placed, InPlace
  <2> QED BY <2>1, <2>2, <2>3 DEF Local
<1>8. InboxFits(d)'
  BY <1>1, <1>6 DEF InboxFits, Inbox
<1>9. ASSUME NEW e \in Device, Linked(d, e) PROVE Pair(d, e)'
  <2>1. /\ e = p /\ Walk(d, p) /\ Ready(d, p) /\ Kept(p, k)
    BY <1>0, <1>00, <1>1, <1>9, AtStep
  <2>2. Same(d, p, k)'
    <3>1. r = mine[p][k]
      BY <2>1 DEF Walk, r
    <3> QED BY <1>1, <1>4, <1>6, <2>1, <3>1 DEF Same, Kept, Untouched
  <2>3. \A j \in Key \ {k} : (Same(d, p, j) => Same(d, p, j)') /\ (Kept(p, j) => Kept(p, j)')
    BY <1>1, <1>4, <1>6 DEF Same, Kept, Untouched
  <2>4. Walk(d, p)' /\ (at[d] \in Key => Kept(p, at[d]))'
    BY <1>00, <1>1, <2>1, <2>2, <2>3, WalkOn
  <2>5. Ready(d, p)'
    BY <1>1, <2>1 DEF Ready, Silent, Wires, Applied
  <2> QED BY <2>1, <2>4, <2>5 DEF Pair, Transferring
<1> QED BY <1>1, <1>5, <1>6, <1>7, <1>8, <1>9, StayFrame DEF Active, OwnWireOnly

\* The acceptor hears the command m next, whatever it is finishing.
LEMMA AskedNext ==
  ASSUME IInv, NEW d \in Device, NEW p \in Device, p = partner[d], p # d,
         Ready(d, p), NEW m, Send(d, m), pc'[p] = pc[p]
  PROVE  Asked(d, p, m)'
<1>1. net'[<<d, p>>] = Append(net[<<d, p>>], m) /\ net'[<<p, d>>] = net[<<p, d>>]
  BY SendWires DEF Inbox
<1>2. CASE pc[p] = "serve" /\ Wires(d, p, <<>>, <<>>)
  BY <1>1, <1>2, ShortSequences DEF Asked, Wires
<1>3. CASE pc[p] = "await_applied" /\ Wires(d, p, <<Applied>>, <<>>)
  <2>1. net'[<<d, p>>] = <<Applied, m>>
    BY <1>1, <1>3, AppendSecond DEF Wires
  <2>2. net'[<<p, d>>] = <<>>
    BY <1>1, <1>3 DEF Wires
  <2> QED BY <1>3, <2>1, <2>2 DEF Asked, Wires, Applied
<1> QED BY <1>2, <1>3 DEF Ready, Silent

LEMMA StepPullKeeps ==
  ASSUME IInv, SInv, NEW d \in Device, StepPull(d)
  PROVE  SInv'
<1>0. PICK p \in Device : p = partner[d]
  BY PeerOf DEF StepPull, AtWinner
<1>00. PICK k \in Key : k = at[d]
  BY DEF StepPull, AtWinner
<1>1. /\ pc[d] = "step" /\ pc'[d] = "await_put" /\ Send(d, Get(k))
      /\ Winner(mine[d][k], theirs[d][k]) = "remote"
      /\ ~theirs[d][k].deleted /\ item'[d] = theirs[d][k]
      /\ UNCHANGED <<role, partner, at, file, catalog, mine, theirs, touched>>
  BY <1>00 DEF StepPull, AtWinner, Goto, disk, history, IInv, Typed, Provenance
<1>2. \A e \in Device \ {d} : Undisturbed(e)
  BY DEF StepPull, Goto, disk, history, Undisturbed, SInv, Local, Placed, IInv, Typed, Provenance
<1>3. /\ p # d /\ Active(d) /\ role[d] = "initiator" /\ Inbox(d) = <<>>
      /\ \A e \in Device : ~Linked(e, d)
  BY <1>0, <1>1, AtStep
<1>4. OwnWireOnly(d) /\ net'[<<p, d>>] = <<>>
  BY <1>0, <1>1, <1>3, SendWires
<1>5. Local(d)'
  <2>1. Ends(d)' /\ Walks(d)'
    BY <1>00, <1>1, <1>3 DEF Ends, Walks, SInv, Local
  <2>2. Scans(d)'
    BY <1>1, <1>3, ScansStay DEF Scanned, Standing
  <2> QED BY <1>1, <2>1, <2>2, PlacedStay DEF Local
<1>6. InboxFits(d)'
  BY <1>0, <1>1, <1>4, EmptyFits
<1>7. ASSUME NEW e \in Device, Linked(d, e) PROVE Pair(d, e)'
  <2>1. /\ e = p /\ Walk(d, p) /\ Ready(d, p) /\ Kept(p, at[d])
    BY <1>0, <1>00, <1>1, <1>7, AtStep
  <2>2. Walk(d, p)' /\ (at[d] \in Key => Kept(p, at[d]))'
    BY <1>1, <2>1, WalkStays
  <2>3. pc'[p] = pc[p]
    BY <1>2, <1>3 DEF Undisturbed
  <2>4. Asked(d, p, Get(k))'
    BY <1>0, <1>1, <1>3, <2>1, <2>3, AskedNext
  <2>5. Requested(d, p)'
    BY <1>00, <1>1, <2>4 DEF Requested, Asked, Get, Applied, Wires
  <2> QED BY <2>1, <2>2, <2>5 DEF Pair, Transferring
<1> QED BY <1>1, <1>2, <1>3, <1>4, <1>5, <1>6, <1>7, StayFrame DEF Active

LEMMA StepPushKeeps ==
  ASSUME IInv, SInv, NEW d \in Device, StepPush(d)
  PROVE  SInv'
<1>0. PICK p \in Device : p = partner[d]
  BY PeerOf DEF StepPush, AtWinner
<1>00. PICK k \in Key : k = at[d]
  BY DEF StepPush, AtWinner
<1>000. PICK r : r = mine[d][k]
  OBVIOUS
<1>1. /\ pc[d] = "step" /\ Send(d, PutStart(r)) /\ Winner(r, theirs[d][k]) = "local"
      /\ pc'[d] = IF r.deleted THEN "await_applied" ELSE "await_resume"
      /\ item'[d] = r
      /\ UNCHANGED <<role, partner, at, file, catalog, mine, theirs, touched>>
  BY <1>00, <1>000 DEF StepPush, AtWinner, Goto, disk, history, IInv, Typed, Provenance
<1>2. \A e \in Device \ {d} : Undisturbed(e)
  BY DEF StepPush, Goto, disk, history, Undisturbed, SInv, Local, Placed, IInv, Typed, Provenance
<1>3. /\ p # d /\ Active(d) /\ role[d] = "initiator" /\ Inbox(d) = <<>>
      /\ \A e \in Device : ~Linked(e, d)
  BY <1>0, <1>1, AtStep
<1>4. OwnWireOnly(d) /\ net'[<<p, d>>] = <<>>
  BY <1>0, <1>1, <1>3, SendWires
<1>5. Local(d)'
  <2>1. Ends(d)' /\ Walks(d)'
    BY <1>00, <1>000, <1>1, <1>3 DEF Ends, Walks, SInv, Local
  <2>2. Scans(d)'
    BY <1>1, <1>3, ScansStay DEF Scanned, Standing
  <2> QED BY <1>1, <2>1, <2>2, PlacedStay DEF Local
<1>6. InboxFits(d)'
  BY <1>0, <1>1, <1>4, EmptyFits
<1>7. ASSUME NEW e \in Device, Linked(d, e) PROVE Pair(d, e)'
  <2>1. /\ e = p /\ Walk(d, p) /\ Ready(d, p) /\ Kept(p, at[d])
    BY <1>0, <1>00, <1>1, <1>7, AtStep
  <2>2. Walk(d, p)' /\ (at[d] \in Key => Kept(p, at[d]))'
    BY <1>1, <2>1, WalkStays
  <2>3. pc'[p] = pc[p]
    BY <1>2, <1>3 DEF Undisturbed
  <2>4. Asked(d, p, PutStart(r))'
    BY <1>0, <1>1, <1>3, <2>1, <2>3, AskedNext
  <2>5. Asked(d, p, PutStart(item[d]))'
    BY <1>1, <2>4 DEF Asked, PutStart, Applied, Wires
  <2>6. Pushing(d, p)' \/ Burying(d, p)'
    BY <1>1, <2>5 DEF Pushing, Burying
  <2> QED BY <2>1, <2>2, <2>6 DEF Pair, Transferring
<1> QED BY <1>1, <1>2, <1>3, <1>4, <1>5, <1>6, <1>7, StayFrame DEF Active

LEMMA StepDoneKeeps ==
  ASSUME IInv, SInv, NEW d \in Device, StepDone(d)
  PROVE  SInv'
<1>0. PICK p \in Device : p = partner[d]
  BY PeerOf DEF StepDone
<1>1. /\ pc[d] = "step" /\ pc'[d] = "await_done" /\ Send(d, Done) /\ at[d] = Last + 1
      /\ UNCHANGED <<role, partner, at, file, catalog, mine, theirs, touched, item>>
  BY DEF StepDone, Goto, disk, history, IInv, Typed, Provenance
<1>2. \A e \in Device \ {d} : Undisturbed(e)
  BY DEF StepDone, Goto, disk, history, Undisturbed, SInv, Local, Placed, IInv, Typed, Provenance
<1>3. /\ p # d /\ Active(d) /\ role[d] = "initiator" /\ Inbox(d) = <<>>
      /\ \A e \in Device : ~Linked(e, d)
  BY <1>0, <1>1, AtStep
<1>4. OwnWireOnly(d) /\ net'[<<p, d>>] = <<>>
  BY <1>0, <1>1, <1>3, SendWires
<1>5. Local(d)'
  <2>1. Ends(d)' /\ Walks(d)'
    BY <1>1, <1>3 DEF Ends, Walks, SInv, Local
  <2>2. Scans(d)'
    BY <1>1, <1>3, ScansStay DEF Scanned, Standing
  <2> QED BY <1>1, <2>1, <2>2, PlacedStay DEF Local
<1>6. InboxFits(d)'
  BY <1>0, <1>1, <1>4, EmptyFits
<1>7. ASSUME NEW e \in Device, Linked(d, e) PROVE Pair(d, e)'
  <2>1. /\ e = p /\ Walk(d, p) /\ Ready(d, p) /\ (at[d] \in Key => Kept(p, at[d]))
    BY <1>0, <1>1, <1>7, AtStep
  <2>2. Walk(d, p)' /\ (at[d] \in Key => Kept(p, at[d]))'
    BY <1>1, <2>1, WalkStays
  <2>3. pc'[p] = pc[p]
    BY <1>2, <1>3 DEF Undisturbed
  <2>4. Asked(d, p, Done)'
    BY <1>0, <1>1, <1>3, <2>1, <2>3, AskedNext DEF Asked, Done
  <2> QED BY <1>1, <2>1, <2>2, <2>4 DEF Pair, Transferring, Finishing
<1> QED BY <1>1, <1>2, <1>3, <1>4, <1>5, <1>6, <1>7, StayFrame DEF Active

LEMMA AwaitPutKeeps ==
  ASSUME IInv, SInv, NEW d \in Device, AwaitPut(d)
  PROVE  SInv'
<1>0. PICK p \in Device : p = partner[d]
  BY PeerOf DEF AwaitPut
<1>1. /\ pc[d] = "await_put" /\ p # d /\ Active(d) /\ role[d] = "initiator"
      /\ Inbox(d) # <<>> /\ Received(d).type = "PutStart" /\ Received(d).record = item[d]
      /\ pc'[d] = "await_body" /\ Reply(d, Resume)
      /\ UNCHANGED <<role, partner, at, file, catalog, mine, theirs, touched, item>>
  BY <1>0, PeerOf DEF AwaitPut, Unannounced, Receives, Received, Active, Goto, disk, history,
     IInv, Typed, Provenance, SInv, Local, Ends
<1>2. \A e \in Device \ {d} : Undisturbed(e)
  BY DEF AwaitPut, Goto, disk, history, Undisturbed, SInv, Local, Placed, IInv, Typed, Provenance
<1>3. /\ net'[<<d, p>>] = Append(net[<<d, p>>], Resume) /\ net'[<<p, d>>] = <<>>
      /\ OwnWireOnly(d) /\ Inbox(d) = <<Received(d)>>
  BY <1>0, <1>1, ReplyWires, LastToCome
<1>4. Local(d)'
  <2>1. Ends(d)' /\ Walks(d)'
    BY <1>1 DEF Ends, Walks, SInv, Local
  <2>2. Scans(d)'
    BY <1>1, ScansStay DEF Scanned, Standing
  <2> QED BY <1>1, <2>1, <2>2, PlacedStay DEF Local
<1>5. InboxFits(d)'
  BY <1>0, <1>1, <1>3, EmptyFits
<1>6. ASSUME NEW e \in Device, Linked(d, e) PROVE Pair(d, e)'
  <2>1. e = p /\ Walk(d, p) /\ Offered(d, p) /\ Kept(p, at[d])
    BY <1>0, <1>1, <1>6, TurnOfInitiator DEF Linked, Transfers
  <2>2. Walk(d, p)' /\ (at[d] \in Key => Kept(p, at[d]))'
    BY <1>1, <2>1, WalkStays
  <2>3. pc'[p] = "await_resume"
    BY <1>1, <1>2, <2>1 DEF Undisturbed, Offered
  <2>4. item[p] = item[d]
    BY <1>0, <1>1, <2>1, Typenames, ShortSequences DEF Offered, Wires, Inbox, Received
  <2>5. net'[<<d, p>>] = <<Resume>>
    BY <1>3, <2>1, ShortSequences DEF Offered, Wires
  <2>6. Fetching(d, p)'
    BY <1>1, <1>3, <2>3, <2>4, <2>5 DEF Fetching, Wires, Resume
  <2> QED BY <2>1, <2>2, <2>6 DEF Pair, Transferring
<1>7. \A e \in Device : ~Linked(e, d)
  BY <1>1 DEF Linked
<1> QED BY <1>1, <1>2, <1>3, <1>4, <1>5, <1>6, <1>7, StayFrame DEF Active

\* What the acceptor finds when it reads a command, by its type.
LEMMA CommandOf ==
  ASSUME IInv, SInv, NEW i \in Device, NEW a \in Device, Linked(i, a),
         pc[a] = "serve", Inbox(a) # <<>>
  PROVE  /\ net[<<a, i>>] = <<>> /\ Walk(i, a) /\ (at[i] \in Key => Kept(a, at[i]))
         /\ Received(a).type = "Get" => pc[i] = "await_put" /\ Received(a).key = at[i]
         /\ Received(a).type = "PutStart" =>
              /\ Received(a).record = item[i]
              /\ \/ pc[i] = "await_resume"
                 \/ pc[i] = "await_applied" /\ item[i].deleted
         /\ Received(a).type \in Command
<1>1. /\ Walk(i, a) /\ (at[i] \in Key => Kept(a, at[i]))
      /\ Requested(i, a) \/ Pushing(i, a) \/ Burying(i, a) \/ Finishing(i, a)
  BY TurnOfAcceptor
<1>2. Inbox(a) = net[<<i, a>>]
  BY DEF Linked, Inbox
<1>3. \A m : Asked(i, a, m) => Received(a) = m /\ net[<<a, i>>] = <<>>
  BY <1>2, ShortSequences DEF Asked, Wires, Received
<1>4. CASE Requested(i, a)
  BY <1>1, <1>3, <1>4, Typenames DEF Requested, Command
<1>5. CASE Pushing(i, a)
  BY <1>1, <1>3, <1>5, Typenames DEF Pushing, Command
<1>6. CASE Burying(i, a)
  BY <1>1, <1>3, <1>6, Typenames DEF Burying, Command
<1>7. CASE Finishing(i, a)
  BY <1>1, <1>3, <1>7, Typenames DEF Finishing, Command
<1> QED BY <1>1, <1>4, <1>5, <1>6, <1>7

LEMMA ServeGetKeeps ==
  ASSUME IInv, SInv, NEW d \in Device, ServeGet(d)
  PROVE  SInv'
<1>0. PICK p \in Device : p = partner[d]
  BY PeerOf DEF ServeGet
<1>00. PICK r : r = catalog[d][Received(d).key]
  OBVIOUS
<1>1. /\ pc[d] = "serve" /\ p # d /\ Active(d) /\ role[d] = "acceptor"
      /\ Inbox(d) # <<>> /\ Received(d).type = "Get" /\ Live(r)
      /\ pc'[d] = "await_resume" /\ Reply(d, PutStart(r)) /\ item'[d] = r
      /\ UNCHANGED <<role, partner, at, file, catalog, mine, theirs, touched>>
  BY <1>0, <1>00, PeerOf DEF ServeGet, MissingObject, Receives, Received, Active, Goto, disk,
     history, IInv, Typed, Provenance, SInv, Local, Ends
<1>2. \A e \in Device \ {d} : Undisturbed(e)
  BY DEF ServeGet, Goto, disk, history, Undisturbed, SInv, Local, Placed, IInv, Typed, Provenance
<1>3. /\ net'[<<d, p>>] = Append(net[<<d, p>>], PutStart(r)) /\ net'[<<p, d>>] = <<>>
      /\ OwnWireOnly(d)
  BY <1>0, <1>1, ReplyWires, LastToCome
<1>4. Local(d)'
  <2>1. Ends(d)' /\ Walks(d)'
    BY <1>1 DEF Ends, Walks, SInv, Local
  <2>2. Scans(d)'
    BY <1>1, ScansStay DEF Scanned, Standing
  <2> QED BY <1>1, <2>1, <2>2, PlacedStay DEF Local
<1>5. InboxFits(d)'
  BY <1>0, <1>1, <1>3, EmptyFits
<1>6. ASSUME NEW e \in Device, Linked(e, d) PROVE Pair(e, d)'
  <2>1. /\ e = p /\ Walk(p, d) /\ net[<<d, p>>] = <<>> /\ Received(d).key = at[p]
        /\ pc[p] = "await_put" /\ role[p] = "initiator" /\ (at[p] \in Key => Kept(d, at[p]))
    BY <1>0, <1>1, <1>6, CommandOf DEF Linked
  <2>2. at[p] \in Key /\ item[p] = mine[d][at[p]]
    BY <2>1, AtKey DEF Transfers, Walk
  <2>3. Walk(p, d)' /\ (at[p] \in Key => Kept(d, at[p]))'
    BY <1>1, <2>1, WalkStays
  <2>4. pc'[p] = "await_put" /\ item'[p] = item[p]
    BY <1>1, <1>2, <2>1 DEF Undisturbed
  <2>5. Untouched(d, at[p]) => r = item[p]
    BY <1>00, <2>1, <2>2 DEF Kept
  <2>6. net'[<<d, p>>] = <<PutStart(r)>>
    BY <1>3, <2>1, ShortSequences
  <2>7. Offered(p, d)'
    BY <1>1, <1>3, <2>4, <2>5, <2>6 DEF Offered, Wires, PutStart, Untouched
  <2> QED BY <2>1, <2>3, <2>7 DEF Pair, Transferring
<1>7. \A e \in Device : ~Linked(d, e)
  BY <1>1 DEF Linked
<1> QED BY <1>1, <1>2, <1>3, <1>4, <1>5, <1>6, <1>7, StayFrame DEF Active

LEMMA ServePutKeeps ==
  ASSUME IInv, SInv, NEW d \in Device, ServePut(d)
  PROVE  SInv'
<1>0. PICK p \in Device : p = partner[d]
  BY PeerOf DEF ServePut
<1>00. PICK r : r = Received(d).record
  OBVIOUS
<1>1. /\ pc[d] = "serve" /\ p # d /\ Active(d) /\ role[d] = "acceptor"
      /\ Inbox(d) # <<>> /\ Received(d).type = "PutStart" /\ ~r.deleted
      /\ pc'[d] = "await_body" /\ Reply(d, Resume) /\ item'[d] = r
      /\ UNCHANGED <<role, partner, at, file, catalog, mine, theirs, touched>>
  BY <1>0, <1>00, PeerOf DEF ServePut, Receives, Received, Active, Goto, disk,
     history, IInv, Typed, Provenance, SInv, Local, Ends
<1>2. \A e \in Device \ {d} : Undisturbed(e)
  BY DEF ServePut, Goto, disk, history, Undisturbed, SInv, Local, Placed, IInv, Typed, Provenance
<1>3. /\ net'[<<d, p>>] = Append(net[<<d, p>>], Resume) /\ net'[<<p, d>>] = <<>>
      /\ OwnWireOnly(d)
  BY <1>0, <1>1, ReplyWires, LastToCome
<1>4. Local(d)'
  <2>1. Offer(d, r)
    BY <1>00, <1>1, HeadFits DEF Fits
  <2>2. Offer(d, item[d])'
    BY <1>1, <2>1 DEF Offer, Untouched
  <2>3. Ends(d)' /\ Walks(d)'
    BY <1>1, <2>2 DEF Ends, Walks, SInv, Local
  <2>4. Scans(d)'
    BY <1>1, ScansStay DEF Scanned, Standing
  <2> QED BY <1>1, <2>3, <2>4, PlacedStay DEF Local
<1>5. InboxFits(d)'
  BY <1>0, <1>1, <1>3, EmptyFits
<1>6. ASSUME NEW e \in Device, Linked(e, d) PROVE Pair(e, d)'
  <2>1. /\ e = p /\ Walk(p, d) /\ net[<<d, p>>] = <<>> /\ r = item[p]
        /\ pc[p] = "await_resume" /\ (at[p] \in Key => Kept(d, at[p]))
    BY <1>0, <1>00, <1>1, <1>6, CommandOf DEF Linked
  <2>2. Walk(p, d)' /\ (at[p] \in Key => Kept(d, at[p]))'
    BY <1>1, <2>1, WalkStays
  <2>3. pc'[p] = "await_resume" /\ item'[p] = item[p]
    BY <1>1, <1>2, <2>1 DEF Undisturbed
  <2>4. net'[<<d, p>>] = <<Resume>>
    BY <1>3, <2>1, ShortSequences
  <2>5. Taking(p, d)'
    BY <1>1, <1>3, <2>1, <2>3, <2>4 DEF Taking, Wires, Resume
  <2> QED BY <2>1, <2>2, <2>5 DEF Pair, Transferring
<1>7. \A e \in Device : ~Linked(d, e)
  BY <1>1 DEF Linked
<1> QED BY <1>1, <1>2, <1>3, <1>4, <1>5, <1>6, <1>7, StayFrame DEF Active

\* A record that d takes over describes what d then has, at its key only.
LEMMA Adopted ==
  ASSUME IInv, SInv, NEW d \in Device, NEW r \in issued, NEW f,
         catalog' = [catalog EXCEPT ![d][r.path] = r],
         file' = [file EXCEPT ![d][r.path] = f],
         IF r.deleted THEN f = NoFile ELSE f # NoFile /\ f.content = r.content,
         UNCHANGED touched
  PROVE  /\ r.path \in Key /\ catalog'[d][r.path] = r
         /\ \A j \in Key \ {r.path} : catalog'[d][j] = catalog[d][j]
         /\ \A e \in Device \ {d} : catalog'[e] = catalog[e] /\ file'[e] = file[e]
         /\ InPlace(catalog'[d])
         /\ (\A j \in Key : Told(d, j)) => (\A j \in Key : Told(d, j)')
<1>1. r.path \in Key /\ r # NoRecord
  BY IssuedIsRecord DEF IInv
<1>2. /\ catalog'[d][r.path] = r /\ file'[d][r.path] = f
      /\ \A j \in Key \ {r.path} :
           catalog'[d][j] = catalog[d][j] /\ file'[d][j] = file[d][j]
      /\ \A e \in Device \ {d} : catalog'[e] = catalog[e] /\ file'[e] = file[e]
  BY <1>1 DEF IInv, Typed, Provenance
<1>3. InPlace(catalog'[d])
  BY <1>1, <1>2 DEF SInv, Local, Placed, InPlace
<1>4. ASSUME NEW j \in Key, Told(d, j) PROVE Told(d, j)'
  <2>1. CASE j = r.path
    BY <1>1, <1>2, <2>1 DEF Told, DescribesDisk, Live
  <2>2. CASE j # r.path
    BY <1>2, <1>4, <2>2 DEF Told, DescribesDisk, Live, Untouched
  <2> QED BY <2>1, <2>2
<1> QED BY <1>1, <1>2, <1>3, <1>4

\* The acceptor takes over the object the walk is at.
LEMMA TakenOver ==
  ASSUME IInv, NEW i \in Device, NEW a \in Device, i # a, Walk(i, a),
         UNCHANGED <<touched, mine, theirs, at>>, catalog'[i] = catalog[i],
         \A j \in Key \ {at[i]} : catalog'[a][j] = catalog[a][j]
  PROVE  Walk(i, a)'
BY KeyAssumption DEF Walk, Same, Kept, Untouched, IInv, Typed, KeyAssumption

LEMMA ServeTombstoneKeeps ==
  ASSUME IInv, SInv, NEW d \in Device, ServeTombstone(d)
  PROVE  SInv'
<1>0. PICK p \in Device : p = partner[d]
  BY PeerOf DEF ServeTombstone
<1>00. PICK r : r = Received(d).record
  OBVIOUS
<1>1. /\ pc[d] = "serve" /\ p # d /\ Active(d) /\ role[d] = "acceptor"
      /\ Inbox(d) # <<>> /\ Received(d).type = "PutStart" /\ r.deleted
      /\ Reply(d, Applied)
      /\ catalog' = [catalog EXCEPT ![d][r.path] = r]
      /\ file' = [file EXCEPT ![d][r.path] = NoFile]
      /\ UNCHANGED <<pc, role, partner, at, mine, theirs, touched, item>>
  BY <1>0, <1>00, PeerOf DEF ServeTombstone, ApplyTombstone, Receives, Received, Active,
     session, history, SInv, Local, Ends
<1>2. r \in issued
  BY <1>0, <1>00, <1>1, ReceivedWellFormed DEF IInv, Provenance
<1>3. /\ r.path \in Key /\ catalog'[d][r.path] = r
      /\ \A j \in Key \ {r.path} : catalog'[d][j] = catalog[d][j]
      /\ \A e \in Device \ {d} : catalog'[e] = catalog[e] /\ file'[e] = file[e]
      /\ InPlace(catalog'[d])
      /\ (\A j \in Key : Told(d, j)) => (\A j \in Key : Told(d, j)')
  BY <1>1, <1>2, Adopted
<1>4. \A e \in Device \ {d} : Undisturbed(e)
  BY <1>1, <1>3 DEF Undisturbed, SInv, Local, Placed
<1>5. /\ net'[<<d, p>>] = Append(net[<<d, p>>], Applied) /\ net'[<<p, d>>] = <<>>
      /\ OwnWireOnly(d)
  BY <1>0, <1>1, ReplyWires, LastToCome
<1>6. Local(d)'
  <2>1. Ends(d)' /\ Walks(d)'
    BY <1>1 DEF Ends, Walks, SInv, Local
  <2>2. Scans(d)'
    BY <1>1, <1>3 DEF Scans, Scanned, Standing, SInv, Local
  <2>3. Placed(d)'
    BY <1>1, <1>3 DEF SInv, Local, Placed, InPlace
  <2> QED BY <2>1, <2>2, <2>3 DEF Local
<1>7. InboxFits(d)'
  BY <1>0, <1>1, <1>5, EmptyFits
<1>8. ASSUME NEW e \in Device, Linked(e, d) PROVE Pair(e, d)'
  <2>1. /\ e = p /\ Walk(p, d) /\ net[<<d, p>>] = <<>> /\ r = item[p]
        /\ role[p] = "initiator" /\ pc[p] \in {"await_resume", "await_applied"}
    BY <1>0, <1>00, <1>1, <1>8, CommandOf DEF Linked
  <2>2. pc[p] = "await_applied"
    BY <1>1, <2>1 DEF SInv, Local, Walks
  <2>3. r.path = at[p]
    BY <2>1, <2>2, AtKey DEF Transfers
  <2>4. Walk(p, d)'
    BY <1>1, <1>3, <2>1, <2>3, TakenOver
  <2>5. net'[<<d, p>>] = <<Applied>>
    BY <1>5, <2>1, ShortSequences
  <2>6. Confirmed(p, d)'
    BY <1>1, <1>3, <1>5, <2>1, <2>2, <2>3, <2>5 DEF Confirmed, Wires, Applied
  <2> QED BY <2>1, <2>4, <2>6 DEF Pair
<1>9. \A e \in Device : ~Linked(d, e)
  BY <1>1 DEF Linked
<1> QED BY <1>1, <1>4, <1>5, <1>6, <1>7, <1>8, <1>9, StayFrame DEF Active

LEMMA SendBodyKeeps ==
  ASSUME IInv, SInv, NEW d \in Device, SendBody(d)
  PROVE  SInv'
<1>0. PICK p \in Device : p = partner[d]
  BY PeerOf DEF SendBody
<1>00. PICK c : c = file[d][item[d].path].content
  OBVIOUS
<1>1. /\ pc[d] = "await_resume" /\ p # d /\ Active(d)
      /\ role[d] \in {"initiator", "acceptor"}
      /\ Inbox(d) # <<>> /\ file[d][item[d].path] # NoFile
      /\ pc'[d] = "await_applied" /\ Reply(d, Body(c))
      /\ UNCHANGED <<role, partner, at, file, catalog, mine, theirs, touched, item>>
  BY <1>0, <1>00, PeerOf DEF SendBody, SourceGone, Receives, Active, Goto, disk, history,
     IInv, Typed
<1>2. \A e \in Device \ {d} : Undisturbed(e)
  BY DEF SendBody, Goto, disk, history, Undisturbed, SInv, Local, Placed, IInv, Typed
<1>3. /\ net'[<<d, p>>] = Append(net[<<d, p>>], Body(c)) /\ net'[<<p, d>>] = <<>>
      /\ OwnWireOnly(d)
  BY <1>0, <1>1, ReplyWires, LastToCome
<1>4. c \in Content
  <2>1. item[d] \in issued
    BY <1>1 DEF IInv, Phases, Provenance, Transfers
  <2> QED BY <1>00, <1>1, <2>1, IssuedIsRecord DEF IInv, Typed, File
<1>5. Local(d)'
  <2>1. Ends(d)' /\ Walks(d)'
    BY <1>1 DEF Ends, Walks, SInv, Local
  <2>2. Scans(d)'
    BY <1>1, ScansStay DEF Scanned, Standing
  <2> QED BY <1>1, <2>1, <2>2, PlacedStay DEF Local
<1>6. InboxFits(d)'
  BY <1>0, <1>1, <1>3, EmptyFits
<1>7. ASSUME NEW e \in Device, Linked(d, e) PROVE Pair(d, e)'
  <2>1. e = p /\ Walk(d, p) /\ Taking(d, p) /\ Kept(p, at[d]) /\ role[d] = "initiator"
    BY <1>0, <1>1, <1>7, TurnOfInitiator DEF Linked, Transfers
  <2>2. Walk(d, p)' /\ (at[d] \in Key => Kept(p, at[d]))'
    BY <1>1, <2>1, WalkStays
  <2>3. /\ at[d] \in Key /\ item[d].path = at[d] /\ item[d] = mine[d][at[d]]
        /\ Kept(d, at[d]) /\ Told(d, at[d])
    BY <1>1, <2>1, AtKey DEF Transfers
  <2>4. Untouched(d, at[d]) => c = item[d].content
    BY <1>00, <1>1, <2>3 DEF Kept, Told, DescribesDisk
  <2>5. pc'[p] = "await_body"
    BY <1>1, <1>2, <2>1 DEF Undisturbed, Taking
  <2>6. net'[<<d, p>>] = <<Body(c)>>
    BY <1>3, <2>1, ShortSequences DEF Taking, Wires
  <2>7. Taken(d, p)'
    BY <1>1, <1>3, <1>4, <2>1, <2>4, <2>5, <2>6 DEF Taken, Taking, Wires, Body, Untouched
  <2> QED BY <2>1, <2>2, <2>7 DEF Pair, Transferring
<1>8. ASSUME NEW e \in Device, Linked(e, d) PROVE Pair(e, d)'
  <2>1. /\ e = p /\ Walk(p, d) /\ Fetching(p, d) /\ (at[p] \in Key => Kept(d, at[p]))
        /\ role[p] = "initiator" /\ role[d] = "acceptor"
    BY <1>0, <1>1, <1>8, TurnOfAcceptor DEF Linked
  <2>2. Walk(p, d)' /\ (at[p] \in Key => Kept(d, at[p]))'
    BY <1>1, <2>1, WalkStays
  <2>3. /\ at[p] \in Key /\ item[d] = item[p] /\ item[p].path = at[p]
        /\ item[p] = mine[d][at[p]]
    BY <2>1, AtKey DEF Transfers, Walk, Fetching
  <2>4. Kept(d, at[p]) /\ Told(d, at[p])
    BY <1>1, <2>1, <2>3 DEF SInv, Local, Scans, Scanned
  <2>5. Untouched(d, at[p]) => c = item[p].content
    BY <1>00, <1>1, <2>3, <2>4 DEF Kept, Told, DescribesDisk
  <2>6. pc'[p] = "await_body"
    BY <1>1, <1>2, <2>1 DEF Undisturbed, Fetching
  <2>7. net'[<<d, p>>] = <<Body(c)>>
    BY <1>3, <2>1, ShortSequences DEF Fetching, Wires
  <2>8. Fetched(p, d)'
    BY <1>1, <1>3, <1>4, <2>5, <2>6, <2>7 DEF Fetched, Wires, Body, Untouched
  <2> QED BY <2>1, <2>2, <2>8 DEF Pair, Transferring
<1> QED BY <1>1, <1>2, <1>3, <1>5, <1>6, <1>7, <1>8, StayFrame DEF Active

LEMMA ReceiveBodyKeeps ==
  ASSUME IInv, SInv, NEW d \in Device, ReceiveBody(d)
  PROVE  SInv'
<1>0. PICK p \in Device : p = partner[d]
  BY PeerOf DEF ReceiveBody
<1>00. PICK r : r = item[d]
  OBVIOUS
<1>1. /\ pc[d] = "await_body" /\ p # d /\ Active(d)
      /\ role[d] \in {"initiator", "acceptor"}
      /\ Inbox(d) # <<>> /\ Reply(d, Applied)
      /\ catalog' = [catalog EXCEPT ![d][r.path] = r]
      /\ file' = [file EXCEPT ![d][r.path] = [content |-> r.content, mtime |-> clock[d]]]
      /\ pc'[d] = IF role[d] = "initiator" THEN "step" ELSE "serve"
      /\ at'[d] = IF role[d] = "initiator" THEN at[d] + 1 ELSE at[d]
      /\ UNCHANGED <<role, partner, mine, theirs, touched>>
  BY <1>0, <1>00, PeerOf DEF ReceiveBody, Commit, Proceed, Receives, Active, Goto, history,
     IInv, Typed
<1>2. r \in issued /\ ~r.deleted /\ clock[d] \in Nat
  BY <1>00, <1>1 DEF IInv, Typed, Phases, Provenance, Transfers, SInv, Local, Walks
<1>3. [content |-> r.content, mtime |-> clock[d]] # NoFile
  <2>1. r.content \in Content
    BY <1>2, IssuedIsRecord DEF IInv
  <2> QED BY <1>2, <2>1, NoFileAssumption DEF NoFileAssumption, File
<1>4. /\ r.path \in Key /\ catalog'[d][r.path] = r
      /\ \A j \in Key \ {r.path} : catalog'[d][j] = catalog[d][j]
      /\ \A e \in Device \ {d} : catalog'[e] = catalog[e] /\ file'[e] = file[e]
      /\ InPlace(catalog'[d])
      /\ (\A j \in Key : Told(d, j)) => (\A j \in Key : Told(d, j)')
  BY <1>1, <1>2, <1>3, Adopted
<1>5. \A e \in Device \ {d} :
        pc'[e] = pc[e] /\ at'[e] = at[e] /\ item'[e] = item[e]
  BY DEF ReceiveBody, Proceed, Goto, IInv, Typed, Provenance
<1>6. \A e \in Device \ {d} : Undisturbed(e)
  BY <1>1, <1>4, <1>5 DEF Undisturbed, SInv, Local, Placed
<1>7. /\ net'[<<d, p>>] = Append(net[<<d, p>>], Applied) /\ net'[<<p, d>>] = <<>>
      /\ OwnWireOnly(d)
  BY <1>0, <1>1, ReplyWires, LastToCome
<1>8. role[d] = "initiator" =>
        r.path = at[d] /\ r = theirs[d][at[d]] /\ at[d] \in Key
  BY <1>00, <1>1, AtKey DEF Transfers
<1>9. Local(d)'
  <2>1. Ends(d)' /\ Walks(d)'
    BY <1>1 DEF Ends, Walks, SInv, Local
  <2>2. Scans(d)'
    <3>1. \A j \in Key : Told(d, j)'
      BY <1>1, <1>4 DEF Scans, Scanned, SInv, Local
    <3>2. ASSUME NEW j \in Key, role[d] = "initiator", j >= at'[d] PROVE Kept(d, j)'
      <4>1. j # r.path /\ j >= at[d]
        BY <1>1, <1>8, <3>2, KeyAssumption DEF KeyAssumption
      <4>2. Kept(d, j)
        BY <1>1, <3>2, <4>1 DEF SInv, Local, Scans, Standing
      <4> QED BY <1>1, <1>4, <4>1, <4>2 DEF Kept, Untouched
    <3> QED BY <1>1, <3>1, <3>2 DEF Scans, Scanned, Standing
  <2>3. Placed(d)'
    BY <1>1, <1>4 DEF SInv, Local, Placed, InPlace
  <2> QED BY <2>1, <2>2, <2>3 DEF Local
<1>10. InboxFits(d)'
  BY <1>0, <1>1, <1>7, EmptyFits
<1>11. ASSUME NEW e \in Device, Linked(d, e) PROVE Pair(d, e)'
  <2>1. e = p /\ Walk(d, p) /\ Fetched(d, p) /\ Kept(p, at[d]) /\ role[d] = "initiator"
    BY <1>0, <1>1, <1>11, TurnOfInitiator DEF Linked, Transfers
  <2>2. PICK k \in Key : k = at[d]
    BY <1>8, <2>1
  <2>3. Same(d, p, k)'
    <3>1. r = mine[p][k] /\ catalog'[d][k] = r /\ catalog'[p][k] = catalog[p][k]
      BY <1>1, <1>4, <1>8, <2>1, <2>2 DEF Walk
    <3> QED BY <1>1, <2>1, <2>2, <3>1 DEF Same, Kept, Untouched
  <2>4. \A j \in Key \ {k} : (Same(d, p, j) => Same(d, p, j)') /\ (Kept(p, j) => Kept(p, j)')
    BY <1>1, <1>4, <1>8, <2>1, <2>2 DEF Same, Kept, Untouched
  <2>5. Walk(d, p)' /\ (at[d] \in Key => Kept(p, at[d]))'
    BY <1>1, <2>1, <2>2, <2>3, <2>4, WalkOn
  <2>6. pc'[p] = "await_applied" /\ net'[<<d, p>>] = <<Applied>>
    BY <1>1, <1>5, <1>7, <2>1, ShortSequences DEF Fetched, Wires
  <2>7. Ready(d, p)'
    BY <1>1, <1>7, <2>1, <2>6 DEF Ready, Silent, Wires, Applied
  <2> QED BY <2>1, <2>5, <2>7 DEF Pair, Transferring
<1>12. ASSUME NEW e \in Device, Linked(e, d) PROVE Pair(e, d)'
  <2>1. /\ e = p /\ Walk(p, d) /\ Taken(p, d) /\ role[p] = "initiator"
        /\ role[d] = "acceptor"
    BY <1>0, <1>1, <1>12, TurnOfAcceptor DEF Linked
  <2>2. r = item[p] /\ r.path = at[p] /\ pc[p] = "await_applied"
    BY <1>00, <2>1, AtKey DEF Taken, Transfers
  <2>3. at' = at /\ item'[p] = item[p] /\ pc'[p] = pc[p]
    BY <1>1, <1>5, <2>1 DEF ReceiveBody, Proceed
  <2>4. Walk(p, d)'
    BY <1>1, <1>4, <2>1, <2>2, <2>3, TakenOver
  <2>5. net'[<<d, p>>] = <<Applied>>
    BY <1>7, <2>1, ShortSequences DEF Taken, Wires
  <2>6. Confirmed(p, d)'
    BY <1>1, <1>4, <1>7, <2>1, <2>2, <2>3, <2>5 DEF Confirmed, Wires, Applied
  <2> QED BY <2>1, <2>4, <2>6 DEF Pair
<1> QED BY <1>1, <1>6, <1>7, <1>9, <1>10, <1>11, <1>12, StayFrame DEF Active

LEMMA ReceiveAppliedKeeps ==
  ASSUME IInv, SInv, NEW d \in Device, ReceiveApplied(d)
  PROVE  SInv'
<1>0. PICK p \in Device : p = partner[d]
  BY PeerOf DEF ReceiveApplied
<1>1. /\ pc[d] = "await_applied" /\ p # d /\ Active(d)
      /\ role[d] \in {"initiator", "acceptor"}
      /\ Inbox(d) # <<>> /\ Received(d) = Head(Inbox(d)) /\ Consume(d)
      /\ pc'[d] = IF role[d] = "initiator" THEN "step" ELSE "serve"
      /\ at'[d] = IF role[d] = "initiator" THEN at[d] + 1 ELSE at[d]
      /\ UNCHANGED <<role, partner, mine, theirs, touched, catalog, file>>
  BY <1>0, PeerOf DEF ReceiveApplied, Proceed, Receives, Received, Active, Goto, disk,
     history, IInv, Typed
<1>2. \A e \in Device \ {d} :
        pc'[e] = pc[e] /\ at'[e] = at[e] /\ item'[e] = item[e]
  BY DEF ReceiveApplied, Proceed, Goto, IInv, Typed, Provenance
<1>3. \A e \in Device \ {d} : Undisturbed(e)
  BY <1>1, <1>2 DEF Undisturbed, SInv, Local, Placed
<1>4. /\ net'[<<d, p>>] = net[<<d, p>>] /\ net'[<<p, d>>] = Tail(Inbox(d))
      /\ OwnWireOnly(d)
  BY <1>0, <1>1, ConsumeWires
<1>5. Local(d)'
  <2>1. Ends(d)' /\ Walks(d)'
    BY <1>1 DEF Ends, Walks, SInv, Local
  <2>2. Scans(d)'
    <3>1. Standing(d)' \subseteq Standing(d)
      BY <1>1, KeyAssumption DEF Standing, IInv, Typed, KeyAssumption
    <3> QED BY <1>1, <3>1, ScansStay DEF Scanned
  <2> QED BY <1>1, <2>1, <2>2, PlacedStay DEF Local
<1>6. InboxFits(d)'
  <2>1. CASE Tail(Inbox(d)) = <<>>
    BY <1>0, <1>1, <1>4, <2>1, EmptyFits
  <2>2. CASE Tail(Inbox(d)) # <<>>
    <3>1. PICK n : n = Inbox(d)[2]
      OBVIOUS
    <3>2. /\ role[d] = "acceptor" /\ Inbox(d) = <<Applied, n>>
          /\ n.type \in Command /\ Fits(d, n)
      <4>1. InboxFits(d)
        BY <1>1, AllInboxes
      <4>2. Inbox(d) # <<Inbox(d)[1]>>
        BY <2>2, ShortSequences
      <4> QED BY <1>1, <3>1, <4>1, <4>2 DEF InboxFits
    <3>3. Inbox(d)' = <<n>>
      BY <1>0, <1>1, <1>4, <3>2, ShortSequences DEF Inbox
    <3>4. Fits(d, n)'
      BY <1>1, <3>2 DEF Fits, InPlace, Offer, Untouched
    <3>5. Expected(d)' = Command
      BY <1>1, <3>2 DEF Expected, Command
    <3> QED BY <3>2, <3>3, <3>4, <3>5, ShortSequences DEF InboxFits
  <2> QED BY <2>1, <2>2
<1>7. ASSUME NEW e \in Device, Linked(d, e) PROVE Pair(d, e)'
  <2>1. e = p /\ Walk(d, p) /\ Confirmed(d, p) /\ role[d] = "initiator"
    BY <1>0, <1>1, <1>7, TurnOfInitiator DEF Linked, Transfers
  <2>2. PICK k \in Key : k = at[d]
    BY <1>1, <2>1, AtKey DEF Transfers
  <2>3. Kept(d, k) /\ item[d] = mine[d][k]
    BY <1>1, <2>1, <2>2, AtKey DEF Transfers
  <2>4. Same(d, p, k)'
    BY <1>1, <2>1, <2>2, <2>3 DEF Same, Kept, Untouched, Confirmed
  <2>5. \A j \in Key \ {k} : (Same(d, p, j) => Same(d, p, j)') /\ (Kept(p, j) => Kept(p, j)')
    BY <1>1 DEF Same, Kept, Untouched
  <2>6. Walk(d, p)' /\ (at[d] \in Key => Kept(p, at[d]))'
    BY <1>1, <2>1, <2>2, <2>4, <2>5, WalkOn
  <2>7. pc'[p] = "serve" /\ net'[<<d, p>>] = <<>> /\ net'[<<p, d>>] = <<>>
    BY <1>0, <1>1, <1>2, <1>4, <2>1, ShortSequences DEF Confirmed, Wires, Inbox
  <2>8. Ready(d, p)'
    BY <1>1, <2>1, <2>7 DEF Ready, Silent, Wires
  <2> QED BY <2>1, <2>6, <2>8 DEF Pair, Transferring
<1>8. ASSUME NEW e \in Device, Linked(e, d) PROVE Pair(e, d)'
  <2>1. /\ e = p /\ Walk(p, d) /\ (at[p] \in Key => Kept(d, at[p]))
        /\ \/ Ready(p, d)
           \/ Requested(p, d) \/ Pushing(p, d) \/ Burying(p, d) \/ Finishing(p, d)
        /\ role[d] = "acceptor"
    BY <1>0, <1>1, <1>8, TurnOfAcceptor DEF Linked
  <2>2. at' = at /\ item'[p] = item[p] /\ pc'[p] = pc[p] /\ pc'[d] = "serve"
    BY <1>1, <1>2, <2>1 DEF ReceiveApplied, Proceed
  <2>3. Walk(p, d)' /\ (at[p] \in Key => Kept(d, at[p]))'
    BY <1>1, <2>1, <2>2, WalkStays
  <2>4. Inbox(d) = net[<<p, d>>]
    BY <1>0 DEF Inbox
  <2>5. \A m : Asked(p, d, m) => net'[<<p, d>>] = <<m>> /\ net'[<<d, p>>] = <<>>
    <3> SUFFICES ASSUME NEW m, Asked(p, d, m)
                 PROVE  net'[<<p, d>>] = <<m>> /\ net'[<<d, p>>] = <<>>
      OBVIOUS
    <3>1. Inbox(d) = <<Applied, m>> /\ net[<<d, p>>] = <<>>
      BY <1>1, <2>4 DEF Asked, Wires
    <3>2. Tail(Inbox(d)) = <<m>>
      BY <3>1, ShortSequences
    <3> QED BY <1>4, <3>1, <3>2
  <2>6. Ready(p, d) => Ready(p, d)'
    <3> SUFFICES ASSUME Ready(p, d) PROVE Ready(p, d)'
      OBVIOUS
    <3>1. Inbox(d) = <<Applied>> /\ net[<<d, p>>] = <<>> /\ pc[p] = "step"
      BY <1>1, <2>4 DEF Ready, Silent, Wires
    <3>2. Tail(Inbox(d)) = <<>>
      BY <3>1, ShortSequences
    <3> QED BY <1>4, <2>2, <3>1, <3>2 DEF Ready, Silent, Wires
  <2>7. Requested(p, d) => Requested(p, d)'
    BY <2>2, <2>5 DEF Requested, Asked, Wires, Get
  <2>8. Pushing(p, d) => Pushing(p, d)'
    BY <2>2, <2>5 DEF Pushing, Asked, Wires, PutStart
  <2>9. Burying(p, d) => Burying(p, d)'
    BY <2>2, <2>5 DEF Burying, Asked, Wires, PutStart
  <2>10. Finishing(p, d) => Finishing(p, d)'
    BY <2>2, <2>5 DEF Finishing, Asked, Wires, Done
  <2> QED BY <2>1, <2>3, <2>6, <2>7, <2>8, <2>9, <2>10 DEF Pair, Transferring
<1> QED BY <1>1, <1>3, <1>4, <1>5, <1>6, <1>7, <1>8, StayFrame DEF Active
-----------------------------------------------------------------------------
(* The invariant is inductive. *)

LEMMA SInit == Init => SInv
<1> SUFFICES ASSUME Init PROVE SInv
  OBVIOUS
<1>1. \A d \in Device : pc[d] = "idle" /\ partner[d] = Nobody /\ at[d] = 1
  BY DEF Init
<1>2. \A d \in Device : Local(d)
  BY <1>1, NobodyAssumption DEF Init, Local, Ends, Placed, InPlace, NoSnapshot, Scans, Walks,
     Active, NobodyAssumption
<1>3. \A d \in Device : ~Active(d)
  BY <1>1 DEF Active
<1> QED BY <1>2, <1>3 DEF SInv, OneInitiator, Left, Together, Linked

LEMMA QuietStep ==
  ASSUME IInv, SInv, \A e \in Device : Undisturbed(e), UNCHANGED net
  PROVE  SInv'
<1>1. \A e \in Device : Local(e)'
  BY LocalFrame DEF SInv, IInv, Provenance
<1>2. \A e \in Device : /\ Active(e)' = Active(e)
                        /\ role'[e] = role[e] /\ partner'[e] = partner[e]
  BY DEF Undisturbed, Active
<1>3. OneInitiator'
  BY <1>2 DEF SInv, OneInitiator
<1>4. Together'
  <2> SUFFICES ASSUME NEW i \in Device, NEW a \in Device, Linked(i, a)'
               PROVE  Pair(i, a)'
    BY DEF Together
  <2>1. Linked(i, a)
    BY <1>2 DEF Linked
  <2> QED BY <2>1, PairFrame DEF SInv, Together
<1>5. Left'
  <2> SUFFICES ASSUME NEW e \in Device, Active(e)' PROVE InboxFits(e)'
    BY DEF Left
  <2>1. Active(e) /\ partner[e] \in Device
    BY <1>2 DEF IInv, Phases, Active
  <2>2. Inbox(e)' = Inbox(e)
    BY <1>2 DEF Inbox
  <2> QED BY <2>1, <2>2, AllInboxes, InboxFrame
<1> QED BY <1>1, <1>3, <1>4, <1>5 DEF SInv

\* Whoever writes a file or records an upload touches the key.
LEMMA OutsideKeeps ==
  ASSUME IInv, SInv, NEW d \in Device, LocalStep(d)
  PROVE  SInv'
<1> USE DEF IInv, Typed, Provenance
<1>1. UNCHANGED <<session, net>>
  BY DEF LocalStep, Tick, UserWrite, UserDelete, UploadPublish, UploadRecord
<1>2. ASSUME NEW k \in Key, catalog' = catalog, touched' = [touched EXCEPT ![d] = @ \cup {k}],
             \A e \in Device, j \in Key : e # d \/ j # k => file'[e][j] = file[e][j]
      PROVE  SInv'
  <2>1. \A e \in Device : Undisturbed(e)
    BY <1>1, <1>2 DEF Undisturbed, session, SInv, Local, Placed
  <2> QED BY <1>1, <2>1, QuietStep
<1>3. CASE Tick(d)
  <2>1. \A e \in Device : Undisturbed(e)
    BY <1>1, <1>3 DEF Tick, Undisturbed, session, disk, history, SInv, Local, Placed
  <2> QED BY <1>1, <2>1, QuietStep
<1>4. ASSUME NEW k \in Key, NEW c, NEW t, UserWrite(d, k, c, t) PROVE SInv'
  BY <1>2, <1>4 DEF UserWrite, Edit, Touch
<1>5. ASSUME NEW k \in Key, UserDelete(d, k) PROVE SInv'
  BY <1>2, <1>5 DEF UserDelete, Edit, Touch
<1>6. ASSUME NEW k \in Key, NEW c, UploadPublish(d, k, c) PROVE SInv'
  BY <1>2, <1>6 DEF UploadPublish, Edit, Touch
<1>7. CASE UploadRecord(d)
  <2>1. PICK k \in Key : k = uploading[d]
    BY <1>7 DEF UploadRecord
  <2>2. CASE file[d][k] = NoFile
    <3>1. \A e \in Device : Undisturbed(e)
      BY <1>1, <1>7, <2>1, <2>2 DEF UploadRecord, Undisturbed, session, SInv, Local, Placed
    <3> QED BY <1>1, <3>1, QuietStep
  <2>3. CASE file[d][k] # NoFile
    <3> DEFINE r == Recorded(d, k, file[d][k].content, FALSE, clock[d])
    <3>1. /\ catalog' = [catalog EXCEPT ![d][k] = r]
          /\ touched' = [touched EXCEPT ![d] = @ \cup {k}] /\ file' = file
      BY <1>7, <2>1, <2>3 DEF UploadRecord, Issue, Touch
    <3>2. r.path = k
      BY DEF Recorded
    <3> HIDE DEF r
    <3>3. /\ \A e \in Device : InPlace(catalog'[e])
          /\ \A e \in Device, j \in Key : e # d \/ j # k => catalog'[e][j] = catalog[e][j]
      BY <3>1, <3>2 DEF SInv, Local, Placed, InPlace
    <3>4. \A e \in Device : Undisturbed(e)
      BY <1>1, <3>1, <3>3 DEF Undisturbed, session
    <3> QED BY <1>1, <3>4, QuietStep
  <2> QED BY <2>2, <2>3
<1> QED BY <1>3, <1>4, <1>5, <1>6, <1>7 DEF LocalStep

THEOREM SInvInductive == IInv /\ SInv /\ [Next]_vars => SInv'
<1> SUFFICES ASSUME IInv, SInv, [Next]_vars PROVE SInv'
  OBVIOUS
<1>1. CASE UNCHANGED vars
  <2>1. \A e \in Device : Undisturbed(e)
    BY <1>1 DEF vars, Undisturbed, SInv, Local, Placed
  <2> QED BY <1>1, <2>1, QuietStep DEF vars
<1>2. ASSUME NEW d \in Device, LocalStep(d) PROVE SInv'
  BY <1>2, OutsideKeeps
<1>3. ASSUME NEW d \in Device, InitiatorStep(d) PROVE SInv'
  BY <1>3, StepEqualKeeps, StepDeleteHereKeeps, StepPullKeeps, StepPushKeeps, StepDoneKeeps,
     AwaitPutKeeps, ReceiveDoneKeeps DEF InitiatorStep
<1>4. ASSUME NEW d \in Device, AcceptorStep(d) PROVE SInv'
  BY <1>4, ServeGetKeeps, ServeTombstoneKeeps, ServePutKeeps, ServeDoneKeeps DEF AcceptorStep
<1>5. ASSUME NEW d \in Device, Reject(d) \/ Fail(d) PROVE SInv'
  BY <1>5, AbortKeeps DEF Reject, Fail, Mismatch, MissingObject, Unannounced, SourceGone,
     WrongContent
<1>6. ASSUME NEW d \in Device, SharedStep(d) PROVE SInv'
  BY <1>5, <1>6, ScanRootKeeps, SendSnapshotKeeps, ReceiveSnapshotKeeps, SendBodyKeeps,
     ReceiveBodyKeeps, ReceiveAppliedKeeps DEF SharedStep
<1>7. ASSUME NEW d \in Device, NEW p \in Device, Begin(d, p) \/ Answer(d, p) PROVE SInv'
  BY <1>7, BeginKeeps, AcceptKeeps, RefuseKeeps DEF Answer
<1> QED BY <1>1, <1>2, <1>3, <1>4, <1>5, <1>6, <1>7 DEF Next, SessionStep

THEOREM SessionInvariance == Spec => [](IInv /\ SInv)
<1>1. Init => IInv /\ SInv
  BY InitIInv, SInit
<1>2. IInv /\ SInv /\ [Next]_vars => (IInv /\ SInv)'
  BY IInvInductive, SInvInductive
<1> QED BY <1>1, <1>2, PTL DEF Spec
-----------------------------------------------------------------------------
(* What follows from it. *)

\* Whoever waits for a message finds one it knows what to do with, whatever is
\* edited, fails or crashes meanwhile, and whoever its peer turned to since.
THEOREM NeverOutOfStep == Spec => []NoUnexpectedMessage
<1>1. IInv /\ SInv => NoUnexpectedMessage
  <2> SUFFICES ASSUME IInv, SInv, NEW d \in Device, pc[d] \notin {"idle", "connect"},
                      Inbox(d) # <<>>
               PROVE  Head(Inbox(d)).type \in Expected(d)
    BY DEF NoUnexpectedMessage
  <2> QED BY HeadFits DEF Active, Received
<1> QED BY <1>1, SessionInvariance, PTL

\* While the initiator walks the snapshots, the two devices have the same row of
\* every object behind it, deletions included, and it says what is on both disks,
\* unless somebody edited the object since it was scanned.
THEOREM SessionsAgree == Spec => []SessionAgrees
<1>1. IInv /\ SInv => SessionAgrees
  <2> SUFFICES ASSUME IInv, SInv, NEW i \in Device, Paired(i), role[i] = "initiator",
                      pc[i] \notin {"scan", "await_snapshot"},
                      NEW k \in 1..(at[i] - 1),
                      Untouched(i, k), Untouched(partner[i], k)
               PROVE  /\ catalog[i][k] = catalog[partner[i]][k]
                      /\ DescribesDisk(i, k)
                      /\ DescribesDisk(partner[i], k)
    BY DEF SessionAgrees
  <2>1. PICK a \in Device : a = partner[i]
    BY PairedLinked
  <2>2. Linked(i, a)
    BY <2>1, PairedLinked DEF Linked
  <2>3. k \in Key /\ k < at[i]
    BY KeyAssumption DEF KeyAssumption, IInv, Typed
  <2>4. Pair(i, a) /\ ~Opening(i, a)
    BY <2>2 DEF SInv, Together, Opening, FirstScan, FirstSnapshot, SecondScan, SecondSnapshot
  <2>5. Same(i, a, k) /\ pc[a] \notin {"scan", "await_snapshot"}
    <3>1. Walk(i, a) /\ (Transferring(i, a) \/ Confirmed(i, a))
      BY <2>4 DEF Pair
    <3>2. \A m : Asked(i, a, m) => pc[a] \in {"serve", "await_applied"}
      BY DEF Asked
    <3>3. pc[a] \notin {"scan", "await_snapshot"}
      BY <3>1, <3>2 DEF Transferring, Confirmed, Ready, Silent, Requested, Offered, Fetching,
         Fetched, Pushing, Taking, Taken, Burying, Finishing
    <3> QED BY <2>3, <3>1, <3>3 DEF Walk
  <2>6. Told(i, k) /\ Told(a, k)
    BY <2>2, <2>3, <2>5 DEF SInv, Local, Scans, Scanned, Linked
  <2> QED BY <2>1, <2>5, <2>6 DEF Same, Told
<1> QED BY <1>1, SessionInvariance, PTL

\* Between two devices that stay connected, only an edit makes a session break
\* off over a missing object, an unannounced version or a wrong hash.
THEOREM OnlyEditsBreakOff == Spec => []OnlyEditsMismatch
<1>1. IInv /\ SInv => OnlyEditsMismatch
  <2> SUFFICES ASSUME IInv, SInv, NEW d \in Device, Paired(d), Mismatch(d),
                      touched[d] \cup touched[partner[d]] = {}
               PROVE  FALSE
    BY DEF OnlyEditsMismatch
  <2>1. PICK p \in Device : p = partner[d] /\ (Linked(d, p) \/ Linked(p, d))
    BY PairedLinked
  <2>2. \A k : Untouched(d, k) /\ Untouched(p, k)
    BY <2>1 DEF Untouched
  <2>3. Inbox(d) # <<>> /\ Active(d)
    BY DEF Mismatch, MissingObject, Unannounced, SourceGone, WrongContent, Receives, Paired,
       Active
  <2>4. CASE Linked(d, p)
    <3>0. role[d] = "initiator" /\ partner[d] = p
      BY <2>4 DEF Linked
    <3>1. Inbox(d) = net[<<p, d>>]
      BY <3>0 DEF Inbox
    <3>2. CASE Unannounced(d)
      <4>1. Offered(d, p)
        BY <2>3, <2>4, <3>2, TurnOfInitiator DEF Unannounced
      <4> QED BY <2>2, <3>1, <3>2, <4>1, Typenames, ShortSequences
          DEF Offered, Wires, Unannounced, Received
    <3>3. CASE SourceGone(d)
      <4>1. /\ item[d].path = at[d] /\ item[d] = mine[d][at[d]] /\ ~item[d].deleted
            /\ item[d] # NoRecord /\ Kept(d, at[d]) /\ Told(d, at[d])
        BY <3>0, <3>3, AtKey, IssuedIsRecord
        DEF SourceGone, Transfers, SInv, Local, Walks, IInv
      <4> QED BY <2>2, <3>3, <4>1 DEF SourceGone, Kept, Told, DescribesDisk, Live
    <3>4. CASE WrongContent(d)
      <4>1. Fetched(d, p)
        BY <2>3, <2>4, <3>4, TurnOfInitiator DEF WrongContent
      <4> QED BY <2>2, <3>1, <3>4, <4>1, Typenames, ShortSequences
          DEF Fetched, Wires, WrongContent, Received
    <3>5. ~MissingObject(d)
      BY <3>0 DEF MissingObject, SInv, Local, Ends
    <3> QED BY <3>2, <3>3, <3>4, <3>5 DEF Mismatch
  <2>5. CASE Linked(p, d)
    <3>0. role[d] = "acceptor" /\ partner[d] = p /\ role[p] = "initiator"
      BY <2>5 DEF Linked
    <3>1. Inbox(d) = net[<<p, d>>]
      BY <3>0 DEF Inbox
    <3>2. CASE MissingObject(d)
      <4>1. /\ Walk(p, d) /\ pc[p] = "await_put" /\ Received(d).key = at[p]
            /\ (at[p] \in Key => Kept(d, at[p]))
        BY <2>3, <2>5, <3>2, CommandOf DEF MissingObject, Receives, Received
      <4>2. /\ at[p] \in Key /\ item[p] \in issued /\ item[p] = mine[d][at[p]]
            /\ ~item[p].deleted
        BY <3>0, <4>1, AtKey DEF Transfers, Walk, SInv, Local, Walks
      <4> QED BY <2>2, <3>2, <4>1, <4>2, IssuedIsRecord DEF MissingObject, Kept, Live, IInv
    <3>3. CASE SourceGone(d)
      <4>1. Walk(p, d) /\ Fetching(p, d) /\ (at[p] \in Key => Kept(d, at[p]))
        BY <2>3, <2>5, <3>3, TurnOfAcceptor DEF SourceGone
      <4>2. /\ at[p] \in Key /\ item[p] \in issued /\ item[p].path = at[p]
            /\ item[p] = mine[d][at[p]] /\ ~item[p].deleted /\ item[d] = item[p]
        BY <3>0, <4>1, AtKey DEF Transfers, Walk, Fetching, SInv, Local, Walks
      <4>3. Told(d, at[p])
        BY <2>3, <3>3, <4>2 DEF SourceGone, SInv, Local, Scans, Scanned
      <4> QED BY <2>2, <3>3, <4>1, <4>2, <4>3, IssuedIsRecord
          DEF SourceGone, Kept, Told, DescribesDisk, Live, IInv
    <3>4. CASE WrongContent(d)
      <4>1. Taken(p, d)
        BY <2>3, <2>5, <3>4, TurnOfAcceptor DEF WrongContent
      <4> QED BY <2>2, <3>1, <3>4, <4>1, Typenames, ShortSequences
          DEF Taken, Wires, WrongContent, Received
    <3>5. ~Unannounced(d)
      BY <3>0 DEF Unannounced, SInv, Local, Ends
    <3> QED BY <3>2, <3>3, <3>4, <3>5 DEF Mismatch
  <2> QED BY <2>1, <2>4, <2>5
<1> QED BY <1>1, SessionInvariance, PTL

(* No session goes back to an older version. *)

Forwards == \A d \in Device, k \in Key : Untouched(d, k) => ~Regresses(d, k)

LEMMA OfferedForwards ==
  ASSUME IInv, NEW d \in Device, NEW r \in issued, Offer(d, r),
         catalog' = [catalog EXCEPT ![d][r.path] = r]
  PROVE  Forwards
<1>1. /\ catalog'[d][r.path] = r
      /\ \A e \in Device, k \in Key : e # d \/ k # r.path => catalog'[e][k] = catalog[e][k]
  <2>1. r.path \in Key
    BY IssuedIsRecord DEF IInv
  <2> QED BY <2>1 DEF IInv, Provenance
<1>2. SUFFICES ASSUME NEW e \in Device, NEW k \in Key, Untouched(e, k), Regresses(e, k)
               PROVE  FALSE
  BY DEF Forwards
<1>3. e = d /\ k = r.path
  BY <1>1, <1>2 DEF Regresses, Adopts
<1> QED BY <1>1, <1>2, <1>3 DEF Offer, Regresses

LEMMA IssuedForwards ==
  ASSUME IInv, NEW d \in Device, NEW k \in Key, NEW c \in Content,
         NEW del \in BOOLEAN, NEW base \in Nat,
         Issue(d, k, Recorded(d, k, c, del, base))
  PROVE  Forwards
<1> DEFINE r == Recorded(d, k, c, del, base)
<1>1. r \notin issued
  BY IssueKeepsStamps DEF IInv, Typed
<1>2. catalog' = [catalog EXCEPT ![d][k] = r]
  BY DEF Issue
<1> HIDE DEF r
<1>3. /\ catalog'[d][k] = r
      /\ \A e \in Device, j \in Key : e # d \/ j # k => catalog'[e][j] = catalog[e][j]
  BY <1>2 DEF IInv, Provenance
<1> QED BY <1>1, <1>3 DEF Forwards, Regresses, Adopts

LEMMA LocalStepForwards ==
  ASSUME IInv, NEW d \in Device, LocalStep(d)
  PROVE  Forwards \/ UNCHANGED catalog
<1>1. CASE UploadRecord(d)
  <2>1. PICK k \in Key : k = uploading[d]
    BY <1>1 DEF UploadRecord, IInv, Typed
  <2>2. CASE file[d][k] = NoFile
    BY <1>1, <2>1, <2>2 DEF UploadRecord
  <2>3. CASE file[d][k] # NoFile
    <3>1. Issue(d, k, Recorded(d, k, file[d][k].content, FALSE, clock[d]))
      BY <1>1, <2>1, <2>3 DEF UploadRecord
    <3>2. file[d][k].content \in Content /\ clock[d] \in Nat
      BY <2>3 DEF IInv, Typed, File
    <3> QED BY <3>1, <3>2, IssuedForwards
  <2> QED BY <2>2, <2>3
<1>2. CASE Tick(d)
  BY <1>2 DEF Tick, disk
<1>3. ASSUME NEW k \in Key, NEW c, NEW t,
             UserWrite(d, k, c, t) \/ UserDelete(d, k) \/ UploadPublish(d, k, c)
      PROVE  UNCHANGED catalog
  BY <1>3 DEF UserWrite, UserDelete, UploadPublish
<1>4. ASSUME NEW k \in Key, UserDelete(d, k) PROVE UNCHANGED catalog
  BY <1>4 DEF UserDelete
<1> QED BY <1>1, <1>2, <1>3, <1>4 DEF LocalStep

\* What a session adopts is offered: the initiator compared it with its own
\* snapshot, which still stands at this key, the acceptor was sent the winner.
LEMMA SessionStepForwards ==
  ASSUME IInv, SInv, NEW d \in Device, SessionStep(d)
  PROVE  Forwards \/ UNCHANGED catalog
<1>1. ASSUME NEW k \in Key, k = at[d], Kept(d, k), theirs[d][k] # NoRecord,
             Winner(mine[d][k], theirs[d][k]) = "remote"
      PROVE  theirs[d][k] \in issued /\ theirs[d][k].path = k /\ Offer(d, theirs[d][k])
  <2>1. theirs[d][k] \in issued /\ theirs[d][k].path = k
    BY <1>1 DEF IInv, Provenance, SInv, Local, Placed, InPlace
  <2>2. mine[d][k] = NoRecord \/ Newer(theirs[d][k].version, mine[d][k].version)
    BY <1>1 DEF Winner
  <2> QED BY <1>1, <2>1, <2>2 DEF Offer, Kept
<1>2. CASE StepDeleteHere(d)
  <2>1. PICK p \in Device : p = partner[d]
    BY <1>2, PeerOf DEF StepDeleteHere, AtWinner
  <2>2. PICK k \in Key : k = at[d]
    BY <1>2 DEF StepDeleteHere, AtWinner
  <2>3. pc[d] = "step" /\ Winner(mine[d][k], theirs[d][k]) = "remote"
    BY <1>2, <2>2 DEF StepDeleteHere, AtWinner
  <2>4. theirs[d][k] # NoRecord /\ Kept(d, k)
    BY <2>1, <2>2, <2>3, AtStep, WinnerExists
  <2>5. theirs[d][k] \in issued /\ Offer(d, theirs[d][k])
    BY <1>1, <2>2, <2>3, <2>4
  <2>6. catalog' = [catalog EXCEPT ![d][theirs[d][k].path] = theirs[d][k]]
    BY <1>2, <2>2 DEF StepDeleteHere, ApplyTombstone
  <2> QED BY <2>5, <2>6, OfferedForwards
<1>3. CASE ServeTombstone(d)
  <2>1. /\ partner[d] \in Device /\ Active(d) /\ role[d] = "acceptor"
        /\ Inbox(d) # <<>> /\ Received(d).type = "PutStart"
    BY <1>3 DEF ServeTombstone, Receives, Received, IInv, Phases, Active, SInv, Local, Ends
  <2>2. Received(d).record \in issued
    BY <2>1, ReceivedWellFormed DEF IInv, Provenance
  <2>3. Offer(d, Received(d).record)
    BY <2>1, HeadFits DEF Fits
  <2>4. catalog' = [catalog EXCEPT ![d][Received(d).record.path] = Received(d).record]
    BY <1>3 DEF ServeTombstone, ApplyTombstone
  <2> QED BY <2>2, <2>3, <2>4, OfferedForwards
<1>4. CASE ReceiveBody(d)
  <2>1. pc[d] = "await_body" /\ item[d] \in issued
    BY <1>4 DEF ReceiveBody, IInv, Phases, Provenance, Transfers
  <2>2. Offer(d, item[d])
    <3>1. CASE role[d] = "initiator"
      <4>1. PICK k \in Key : k = at[d]
        BY <2>1, <3>1, AtKey DEF Transfers
      <4>2. Kept(d, k) /\ item[d] = theirs[d][k]
        BY <2>1, <3>1, <4>1, AtKey DEF Transfers
      <4>3. Winner(mine[d][k], theirs[d][k]) = "remote"
        BY <2>1, <3>1, <4>1 DEF SInv, Local, Walks
      <4> QED BY <1>1, <4>1, <4>2, <4>3, WinnerExists
    <3>2. CASE role[d] = "acceptor"
      BY <2>1, <3>2 DEF SInv, Local, Walks
    <3> QED BY <2>1, <3>1, <3>2 DEF SInv, Local, Ends, IInv, Typed
  <2>3. catalog' = [catalog EXCEPT ![d][item[d].path] = item[d]]
    BY <1>4 DEF ReceiveBody, Commit
  <2> QED BY <2>1, <2>2, <2>3, OfferedForwards
<1>5. CASE ScanRoot(d)
  <2>1. PICK k \in Key : k = at[d]
    BY <1>5 DEF ScanRoot
  <2>2. file[d][k] # NoFile => file[d][k].content \in Content /\ file[d][k].mtime \in Nat
    BY DEF IInv, Typed, File
  <2>3. /\ clock[d] \in Nat
        /\ Live(catalog[d][k]) => catalog[d][k].content \in Content
    BY IssuedIsRecord DEF IInv, Typed, Provenance, Live
  <2>4. \/ UNCHANGED catalog
        \/ /\ file[d][k] # NoFile
           /\ Issue(d, k, Recorded(d, k, file[d][k].content, FALSE, file[d][k].mtime))
        \/ /\ Live(catalog[d][k])
           /\ Issue(d, k, Recorded(d, k, catalog[d][k].content, TRUE, clock[d]))
    BY <1>5, <2>1 DEF ScanRoot
  <2> QED BY <2>2, <2>3, <2>4, IssuedForwards
<1>6. CASE StepEqual(d) \/ StepPull(d) \/ StepPush(d) \/ StepDone(d)
  BY <1>6 DEF StepEqual, StepPull, StepPush, StepDone, disk
<1>7. CASE AwaitPut(d) \/ SendBody(d) \/ ReceiveApplied(d) \/ ReceiveDone(d)
  BY <1>7 DEF AwaitPut, SendBody, ReceiveApplied, ReceiveDone, disk
<1>8. CASE ServeGet(d) \/ ServePut(d) \/ ServeDone(d)
  BY <1>8 DEF ServeGet, ServePut, ServeDone, disk
<1>9. CASE SendSnapshot(d) \/ ReceiveSnapshot(d) \/ Reject(d)
  BY <1>9 DEF SendSnapshot, ReceiveSnapshot, Reject, Abort, disk
<1> QED BY <1>2, <1>3, <1>4, <1>5, <1>6, <1>7, <1>8, <1>9
    DEF SessionStep, InitiatorStep, AcceptorStep, SharedStep

\* A session never replaces a row by an older one, provided the object was not
\* edited on this device since the session scanned it.
THEOREM NeverRegresses == Spec => SyncNeverRegresses
<1>1. IInv /\ SInv /\ [Next]_vars => [Forwards]_vars
  <2> SUFFICES ASSUME IInv, SInv, Next PROVE Forwards \/ UNCHANGED vars
    OBVIOUS
  <2>0. UNCHANGED catalog => Forwards
    BY DEF Forwards, Regresses, Adopts
  <2>1. ASSUME NEW d \in Device, LocalStep(d) PROVE Forwards
    BY <2>0, <2>1, LocalStepForwards
  <2>2. ASSUME NEW d \in Device, SessionStep(d) PROVE Forwards
    BY <2>0, <2>2, SessionStepForwards
  <2>3. ASSUME NEW d \in Device, NEW p \in Device, Begin(d, p) \/ Answer(d, p) PROVE Forwards
    BY <2>0, <2>3 DEF Begin, Answer, Accept, Refuse, disk
  <2>4. ASSUME NEW d \in Device, Fail(d) PROVE Forwards
    BY <2>0, <2>4 DEF Fail, Abort, disk
  <2> QED BY <2>1, <2>2, <2>3, <2>4 DEF Next
<1> QED BY <1>1, SessionInvariance, PTL DEF Spec, SyncNeverRegresses, Forwards
=============================================================================
