----------------------------- MODULE MCHeartbeat -----------------------------
(* Heartbeat for TLC: the nonce type is five values wide, so that it wraps *)
(* after a handful of heartbeats and every counter stays finite.           *)
EXTENDS Heartbeat

(* TLC's only bound: how many answers may be under way when loops overlap. *)
(* In order at most two are, so no behaviour without overlap is cut.       *)
FlightBound == Len(flight) <= 3
=============================================================================
