--------------------------- MODULE MCFileTransfer ---------------------------
(***************************************************************************)
(* A small instance of FileTransfer for TLC: a file, a longer one of which *)
(* it is a prefix, and one of the longer size that differs in its first    *)
(* block and that the receiver finds invalid.                              *)
(***************************************************************************)
EXTENDS FileTransfer

ThreeContents == {<<1, 2>>, <<1, 2, 3>>, <<4, 2, 3>>}
ValidContents == {<<1, 2>>, <<1, 2, 3>>}
=============================================================================
