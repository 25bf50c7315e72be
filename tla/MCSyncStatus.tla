---------------------------- MODULE MCSyncStatus ----------------------------
(***************************************************************************)
(* Instances of SyncStatus for TLC: two objects, of which each device has  *)
(* no record, a file or a tombstone, of an older or a newer version.       *)
(***************************************************************************)
EXTENDS SyncStatus

TwoKeys == 1..2
Origins == {1, 2}
SizeOf(content) == content

\* A record of a version that is the n-th of the object; the records of this
\* device and of the peer differ in size.
Record(k, n, origin, deleted) ==
  [path |-> k, content |-> origin, deleted |-> deleted,
   version |-> [wall |-> n, counter |-> n, origin |-> origin]]

\* What this device holds of an object, and the peer: nothing, the same, or
\* an older or newer version of its own.
Here(k) == {NoRecord} \cup {Record(k, 2, 1, d) : d \in BOOLEAN}
There(k) == Here(k) \cup {Record(k, n, 2, d) : n \in {1, 3}, d \in BOOLEAN}

LocalSnapshots == {<<a, b>> : a \in Here(1), b \in Here(2)}
RemoteSnapshots == {<<a, b>> : a \in There(1), b \in There(2)}
Pieces == 0..2
=============================================================================
