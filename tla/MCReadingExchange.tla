-------------------------- MODULE MCReadingExchange --------------------------
(* A small instance of ReadingExchange for TLC. *)
EXTENDS ReadingExchange, TLC

CONSTANTS p1, p2, l1, l2, m1
TwoDevices == {1, 2}
OneBook == {1}
TwoTimes == {1, 2}
Positions == {p1, p2}
Layouts == {l1, l2}
Marks == {m1}
\* Everything, what is ticked at first, the settings of documents alone.
ThreeSelections ==
  {SyncItem, SyncItem \ {"document_settings"}, {"books", "document_settings"}}
Symmetry == Permutations(Positions) \cup Permutations(Layouts)
=============================================================================
