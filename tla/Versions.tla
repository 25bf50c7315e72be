------------------------------ MODULE Versions ------------------------------
(***************************************************************************)
(* Version stamps and object records of the sync catalog (catalog.rs) and  *)
(* the rule that picks the winner of two records (peer/summary.rs).        *)
(*                                                                         *)
(* A device is a number: the code orders origins as hexadecimal strings,   *)
(* and only the order matters.  The content of a record stands for its     *)
(* size, hash and mode.                                                    *)
(***************************************************************************)
EXTENDS Integers

CONSTANTS Device,     \* identities of the devices, the origins of versions
          Key,        \* objects: (kind, path) pairs in the order winners() visits them
          Content,    \* what a file can hold
          NoRecord    \* the catalog has no row for the object

ASSUME DeviceAssumption == Device \subseteq Nat

VersionStamp == [wall : Nat, counter : Nat, origin : Device]

ObjectRecord ==
  [path : Key, content : Content, version : VersionStamp, deleted : BOOLEAN]

ASSUME NoRecordAssumption == NoRecord \notin ObjectRecord

\* Wall time first, then the counter, then the origin.
Newer(a, b) ==
  \/ a.wall > b.wall
  \/ a.wall = b.wall /\ a.counter > b.counter
  \/ a.wall = b.wall /\ a.counter = b.counter /\ a.origin > b.origin

Live(r) == r # NoRecord /\ ~r.deleted

\* Fault: versions of the same wall time are taken as equal.
WinnerByWallTime(local, remote) ==
  CASE local = NoRecord /\ remote = NoRecord -> "equal"
    [] remote = NoRecord -> "local"
    [] local = NoRecord -> "remote"
    [] OTHER -> IF remote.version.wall > local.version.wall THEN "remote"
                ELSE IF local.version.wall > remote.version.wall THEN "local"
                ELSE "equal"

\* Fault: the remote side wins unless the local wall time is later.
WinnerTieRemote(local, remote) ==
  CASE local = NoRecord /\ remote = NoRecord -> "equal"
    [] local # NoRecord /\ remote = NoRecord -> "local"
    [] local = NoRecord /\ remote # NoRecord -> "remote"
    [] OTHER -> IF local.version = remote.version THEN "equal"
                ELSE IF local.version.wall > remote.version.wall THEN "local"
                ELSE "remote"

Winner(local, remote) ==
  CASE local = NoRecord /\ remote = NoRecord -> "equal"
    [] local # NoRecord /\ remote = NoRecord -> "local"
    [] local = NoRecord /\ remote # NoRecord -> "remote"
    [] OTHER -> IF Newer(local.version, remote.version) THEN "local"
                ELSE IF Newer(remote.version, local.version) THEN "remote"
                ELSE "equal"
=============================================================================
