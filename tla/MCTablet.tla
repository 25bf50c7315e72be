------------------------------ MODULE MCTablet ------------------------------
(* A small instance of Tablet for TLC. *)
EXTENDS Tablet
OneBook == {1}
=============================================================================
