----------------------------- MODULE MCSimpleCli -----------------------------
(* SimpleCli for TLC.                                                      *)
EXTENDS SimpleCli
=============================================================================
