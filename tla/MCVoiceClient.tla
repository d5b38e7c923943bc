---------------------------- MODULE MCVoiceClient ----------------------------
(* VoiceClient for TLC.                                                    *)
EXTENDS VoiceClient

(* With two sessions, behaviours are cut after three heartbeats in all, or *)
(* two under way; the run with one session lets the nonce wrap.            *)
BeatBound == Len(flight) <= 2 /\ nonce < 3
=============================================================================
