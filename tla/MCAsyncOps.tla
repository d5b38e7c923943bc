----------------------------- MODULE MCAsyncOps -----------------------------
(* AsyncOps for TLC: two waits, with or without the token, or three        *)
(* operations on the socket, which one of them connects.  Nothing tells    *)
(* the calls apart but what they are calls of.                             *)
EXTENDS AsyncOps

CONSTANTS o1, o2, o3

ThreeCalls == {o1, o2, o3}
Three(a, b, c) == o1 :> a @@ o2 :> b @@ o3 :> c

TwoWaitsOrASocket ==
  { Three("wait with token", "wait with token", "none"),
    Three("wait with token", "wait", "none"),
    Three("connect", "connect", "send"),
    Three("connect", "send", "send"),
    Three("connect", "send", "receive"),
    Three("connect", "receive", "receive"),
    Three("connect", "receive", "receive_from"),
    Three("connect", "receive_from", "receive_from") }
=============================================================================
