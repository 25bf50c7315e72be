--------------------------- MODULE ReplicatedStore ---------------------------
(***************************************************************************)
(* What the catalogs of a group of devices promise, without protocol: a    *)
(* device either issues a record under a stamp nobody ever used, or adopts *)
(* a record that some device issued for the same object.  Nothing else     *)
(* ever appears in a catalog: a session cannot invent, mix or alter one.   *)
(***************************************************************************)
EXTENDS Versions

VARIABLES store,    \* [Device -> [Key -> record]]
          issued    \* every record issued so far

storeVars == <<store, issued>>

StoreInit ==
  /\ store = [d \in Device |-> [k \in Key |-> NoRecord]]
  /\ issued = {}

Issue(d, k, r) ==
  /\ r \in ObjectRecord
  /\ r.path = k
  /\ r.version.origin = d
  /\ \A s \in issued : s.version # r.version
  /\ issued' = issued \cup {r}
  /\ store' = [store EXCEPT ![d][k] = r]

Adopt(d, k, r) ==
  /\ r \in issued
  /\ r.path = k
  /\ store' = [store EXCEPT ![d][k] = r]
  /\ UNCHANGED issued

StoreNext ==
  \E d \in Device, k \in Key :
    Issue(d, k, store'[d][k]) \/ Adopt(d, k, store'[d][k])

StoreSpec == StoreInit /\ [][StoreNext]_storeVars
=============================================================================
