---------------------------- MODULE MCPstreamData ----------------------------
(* PstreamData for TLC.  Each class of stream has bounds of its own: an    *)
(* ipstream only reads and an opstream only writes.                        *)
EXTENDS PstreamData

Input == {"ipstream"}
Every == {"ipstream", "opstream", "pstream"}
SomeRequests == [ipstream |-> {{}, {"pstdout", "pstderr"}},
                 opstream |-> {{}},
                 pstream |-> {{"pstdin", "pstdout"}}]
Starts == [ipstream |-> 2, opstream |-> 2, pstream |-> 1]
Puts == [ipstream |-> 0, opstream |-> 5, pstream |-> 4]
Said == [ipstream |-> 2, opstream |-> 0, pstream |-> 2]
=============================================================================
