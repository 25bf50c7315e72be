----------------------------- MODULE MCPeerSync -----------------------------
(* Small instances of PeerSync for TLC. *)
EXTENDS PeerSync, TLC

CONSTANTS c1, c2
TwoContents == {c1, c2}
TwoDevices == {1, 2}
OneKey == 1..1
TwoKeys == 1..2
Contents == Permutations(TwoContents)
=============================================================================
