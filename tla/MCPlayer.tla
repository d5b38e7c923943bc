------------------------------ MODULE MCPlayer ------------------------------
(* Player for TLC.                                                         *)
EXTENDS Player
=============================================================================
