----------------------------- MODULE MCPstreambuf -----------------------------
(* Pstreambuf for TLC: programs that are written to and read from.         *)
EXTENDS Pstreambuf

SomeModes == {{"pstdin", "newpg"}, {"pstdout", "pstderr"}}
=============================================================================
