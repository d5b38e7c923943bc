------------------------------- MODULE Player -------------------------------
(***************************************************************************)
(* The player of lib/player.cpp: play and stop, the chain of continuations *)
(* that transmits a frame every 20 ms, and the loop that transcodes frames *)
(* into _frames.                                                           *)
(*                                                                         *)
(* Every call of play or stop is a process of its own: the part that runs  *)
(* in the caller, and the continuations it leaves behind.  Cancellation    *)
(* sources are numbered in the order play creates them.                    *)
(***************************************************************************)
EXTENDS Integers, FiniteSets

CONSTANTS
  MaxCalls,   \* bound: how many calls are made
  MaxTangled, \* bound: how many when they overlap
  MaxQueue    \* bound: how many frames wait in _frames, which has no capacity

ASSUME PlayerAssumption ==
  MaxCalls \in Nat /\ MaxTangled \in Nat /\ MaxQueue \in Nat

VARIABLES
  playing,        \* _playing
  source,         \* _cancel_token_source: the number of the current source, the
                  \* latest that was created
  cancelled,      \* the sources that were cancelled
  transmitTask,   \* _transmit_task: the call whose chain it is, 0 when empty
  transcodeTask,  \* _transcode_task, likewise
  queued,         \* frames in _frames
  call,           \* for every call: its kind and how far it is
  chain,          \* for every call: the transmit chain it started
  lastSent,       \* history: the last frame given to the voice client
  hasty           \* history: "tangled" when a call was made while another ran in its
                  \* caller, "early" when only before a play had started its loops

vars == <<playing, source, cancelled, transmitTask, transcodeTask, queued,
          call, chain, lastSent, hasty>>

-----------------------------------------------------------------------------
Calls == 1 .. MaxCalls

NotMade == [kind |-> "none", pc |-> "none", token |-> 0]
NoChain == [pc |-> "none", token |-> 0]

(* Where a call is still running in its caller.                            *)
InCaller(c) == call[c].pc \in {"entered", "swapped", "cancelled"}

(* Where play has a continuation that has not yet started its loops.       *)
Starting(c) ==
  call[c].kind = "play" /\ call[c].pc \in {"speaking", "transmitting", "transmitted"}

(* The first frame is sent by the continuation of play, the others by      *)
(* those of the chain.                                                     *)
Sends(c) == chain[c].pc \in {"first", "ready"}
Running(c) == chain[c].pc \in {"first", "ready", "pausing"}

Goto(c, pc) == call' = [call EXCEPT ![c].pc = pc]

At(c, kind, pc) == call[c].kind = kind /\ call[c].pc = pc

(* Callers may let a call return before they make the next, but cannot     *)
(* wait for the task of play, which is only done once the player is        *)
(* stopped.                                                                *)
Overlaps == \E b \in Calls : InCaller(b)

Make(c, kind) ==
  /\ Overlaps \/ hasty = "tangled" => c <= MaxTangled
  /\ call[c].pc = "none" /\ \A b \in 1 .. c - 1 : call[b].pc # "none"
  /\ call' = [call EXCEPT ![c] = [kind |-> kind, pc |-> "entered", token |-> 0]]
  /\ hasty' = CASE Overlaps -> "tangled"
                [] ~Overlaps /\ hasty = "no" /\ (\E b \in Calls : Starting(b)) -> "early"
                [] OTHER -> hasty
  /\ UNCHANGED <<playing, source, cancelled, transmitTask, transcodeTask,
                 queued, chain, lastSent>>

Play(c) == Make(c, "play")
Stop(c) == Make(c, "stop")

(* compare_exchange_strong decides who acts and who returns at once.       *)
PlaySwap(c) ==
  /\ At(c, "play", "entered")
  /\ playing' = TRUE
  /\ Goto(c, IF playing THEN "done" ELSE "swapped")
  /\ UNCHANGED <<source, cancelled, transmitTask, transcodeTask, queued,
                 chain, lastSent, hasty>>

(* A new cancellation source, and set_speaking is under way.               *)
PlaySource(c) ==
  /\ At(c, "play", "swapped")
  /\ source' = source + 1
  /\ Goto(c, "speaking")
  /\ UNCHANGED <<playing, cancelled, transmitTask, transcodeTask, queued,
                 chain, lastSent, hasty>>

(* set_speaking failed: the continuation never runs, and _playing stays.   *)
SpeakingFails(c) ==
  /\ At(c, "play", "speaking")
  /\ Goto(c, "failed")
  /\ UNCHANGED <<playing, source, cancelled, transmitTask, transcodeTask,
                 queued, chain, lastSent, hasty>>

(* The continuation asks the source that is current by now for its token,  *)
(* and calls transmit, which sends the first frame and leaves the rest of  *)
(* the chain behind; only when it returns is _transmit_task assigned.      *)
StartTransmit(c) ==
  /\ At(c, "play", "speaking")
  /\ chain' = [chain EXCEPT ![c] = [pc |-> "first", token |-> source]]
  /\ Goto(c, "transmitting")
  /\ UNCHANGED <<playing, source, cancelled, transmitTask, transcodeTask, queued,
                 lastSent, hasty>>

AssignTransmit(c) ==
  /\ At(c, "play", "transmitting") /\ chain[c].pc # "first"
  /\ transmitTask' = c
  /\ Goto(c, "transmitted")
  /\ UNCHANGED <<playing, source, cancelled, transcodeTask, queued, chain,
                 lastSent, hasty>>

(* A frame that cannot be sent is gone, if it was one of the queue's.      *)
Lost(c) ==
  \/ UNCHANGED queued
  \/ queued > 0 /\ chain[c].token \notin cancelled /\ queued' = queued - 1

(* transmit throws with the first frame: _transmit_task stays what it was. *)
TransmitThrows(c) ==
  /\ At(c, "play", "transmitting") /\ chain[c].pc = "first"
  /\ Lost(c)
  /\ chain' = [chain EXCEPT ![c].pc = "broken"]
  /\ Goto(c, "failed")
  /\ UNCHANGED <<playing, source, cancelled, transmitTask, transcodeTask,
                 lastSent, hasty>>

StartTranscode(c) ==
  /\ At(c, "play", "transmitted")
  /\ call' = [call EXCEPT ![c].pc = "transcoding", ![c].token = source]
  /\ UNCHANGED <<playing, source, cancelled, transmitTask, transcodeTask,
                 queued, chain, lastSent, hasty>>

(* transcode calls itself, on the thread of the continuation, until its    *)
(* token is cancelled; only then is _transcode_task assigned.              *)
Transcode(c) ==
  /\ At(c, "play", "transcoding") /\ call[c].token \notin cancelled
  /\ queued < MaxQueue
  /\ queued' = queued + 1
  /\ UNCHANGED <<playing, source, cancelled, transmitTask, transcodeTask,
                 call, chain, lastSent, hasty>>

TranscodeEnds(c) ==
  /\ At(c, "play", "transcoding") /\ call[c].token \in cancelled
  /\ transcodeTask' = c
  /\ Goto(c, "done")
  /\ UNCHANGED <<playing, source, cancelled, transmitTask, queued, chain,
                 lastSent, hasty>>

(* The transcoder threw: _transcode_task stays what it was.                *)
TranscodeThrows(c) ==
  /\ At(c, "play", "transcoding") /\ call[c].token \notin cancelled
  /\ Goto(c, "failed")
  /\ UNCHANGED <<playing, source, cancelled, transmitTask, transcodeTask,
                 queued, chain, lastSent, hasty>>

-----------------------------------------------------------------------------
StopSwap(c) ==
  /\ At(c, "stop", "entered")
  /\ playing' = FALSE
  /\ Goto(c, IF playing THEN "swapped" ELSE "done")
  /\ UNCHANGED <<source, cancelled, transmitTask, transcodeTask, queued,
                 chain, lastSent, hasty>>

StopKeepsToken(c) ==
  /\ At(c, "stop", "swapped")
  /\ Goto(c, "cancelled")
  /\ UNCHANGED <<playing, source, cancelled, transmitTask, transcodeTask,
                 queued, chain, lastSent, hasty>>

StopCancel(c) ==
  /\ At(c, "stop", "swapped")
  /\ cancelled' = cancelled \cup {source}
  /\ Goto(c, "cancelled")
  /\ UNCHANGED <<playing, source, transmitTask, transcodeTask, queued, chain,
                 lastSent, hasty>>

(* stop continues after the transmit task it finds; an empty task throws.  *)
StopFollows(c) ==
  /\ At(c, "stop", "cancelled")
  /\ call' = [call EXCEPT ![c].pc = IF transmitTask = 0 THEN "failed" ELSE "waiting",
                          ![c].token = transmitTask]
  /\ UNCHANGED <<playing, source, cancelled, transmitTask, transcodeTask,
                 queued, chain, lastSent, hasty>>

(* When the chain is over, after the transcode task it finds then; what is *)
(* assigned there is complete.  An empty task throws again, and a chain    *)
(* that broke makes stop fail with it.                                     *)
StopSpeaking(c) ==
  /\ At(c, "stop", "waiting") /\ ~Running(call[c].token)
  /\ Goto(c, IF chain[call[c].token].pc = "over" /\ transcodeTask # 0 THEN "done"
                                                                      ELSE "failed")
  /\ UNCHANGED <<playing, source, cancelled, transmitTask, transcodeTask,
                 queued, chain, lastSent, hasty>>

-----------------------------------------------------------------------------
SendFrame(c, next, frame) ==
  /\ chain' = [chain EXCEPT ![c].pc = next]
  /\ lastSent' = frame
  /\ UNCHANGED <<playing, source, cancelled, transmitTask, transcodeTask,
                 call, hasty>>

(* A cancelled chain sends silence once more and is over.                  *)
EndsAbruptly(c) ==
  /\ Sends(c) /\ chain[c].token \in cancelled
  /\ SendFrame(c, "over", lastSent)
  /\ UNCHANGED queued

LastSilence(c) ==
  /\ Sends(c) /\ chain[c].token \in cancelled
  /\ SendFrame(c, "over", "silence")
  /\ UNCHANGED queued

TransmitFrame(c) ==
  /\ Sends(c) /\ chain[c].token \notin cancelled
  /\ queued > 0 /\ queued' = queued - 1
  /\ SendFrame(c, "pausing", "audio")

TransmitSilence(c) ==
  /\ Sends(c) /\ chain[c].token \notin cancelled
  /\ queued = 0 /\ UNCHANGED queued
  /\ SendFrame(c, "pausing", "silence")

(* The frame cannot be sent: the task fails, and with it the whole chain.  *)
FrameFails(c) ==
  /\ Sends(c)
  /\ Lost(c)
  /\ SendFrame(c, "broken", lastSent)

(* The rest of the 20 ms.                                                  *)
Pause(c) ==
  /\ chain[c].pc = "pausing"
  /\ chain' = [chain EXCEPT ![c].pc = "ready"]
  /\ UNCHANGED <<playing, source, cancelled, transmitTask, transcodeTask,
                 queued, call, lastSent, hasty>>

-----------------------------------------------------------------------------
(* _playing is read before anything is written to it: std::atomic_bool     *)
(* leaves it uninitialised.                                                *)
Init ==
  /\ playing \in BOOLEAN
  /\ source = 0 /\ cancelled = {}
  /\ transmitTask = 0 /\ transcodeTask = 0 /\ queued = 0
  /\ call = [c \in Calls |-> NotMade]
  /\ chain = [c \in Calls |-> NoChain]
  /\ lastSent = "none"
  /\ hasty = "no"

PlayStep(c) ==
  PlaySwap(c) \/ PlaySource(c) \/ SpeakingFails(c) \/ StartTransmit(c)
    \/ AssignTransmit(c) \/ TransmitThrows(c)
    \/ StartTranscode(c) \/ Transcode(c) \/ TranscodeThrows(c) \/ TranscodeEnds(c)

StopStep(c) == StopSwap(c) \/ StopCancel(c) \/ StopFollows(c) \/ StopSpeaking(c)

ChainStep(c) ==
  LastSilence(c) \/ TransmitFrame(c) \/ TransmitSilence(c) \/ FrameFails(c) \/ Pause(c)

Next == \E c \in Calls : Play(c) \/ Stop(c) \/ PlayStep(c) \/ StopStep(c) \/ ChainStep(c)

Spec == Init /\ [][Next]_vars

(* Calls that were made and continuations that are ready run; timers fire. *)
FairSpec ==
  /\ Spec
  /\ \A c \in Calls :
       /\ WF_vars(PlaySwap(c) \/ PlaySource(c) \/ SpeakingFails(c) \/ StartTransmit(c)
                    \/ AssignTransmit(c) \/ TransmitThrows(c) \/ StartTranscode(c) \/ TranscodeEnds(c))
       /\ WF_vars(StopStep(c)) /\ WF_vars(ChainStep(c))

-----------------------------------------------------------------------------
TypeOK ==
  /\ playing \in BOOLEAN
  /\ source \in Nat
  /\ cancelled \subseteq 0 .. source
  /\ transmitTask \in 0 .. MaxCalls /\ transcodeTask \in 0 .. MaxCalls
  /\ queued \in 0 .. MaxQueue
  /\ call \in [Calls -> [kind : {"none", "play", "stop"},
                         pc : {"none", "entered", "swapped", "speaking", "transmitting",
                               "transmitted", "transcoding", "cancelled", "waiting", "done", "failed"},
                         token : Nat]]
  /\ chain \in [Calls -> [pc : {"none", "first", "ready", "pausing", "over", "broken"},
                          token : Nat]]
  /\ \A c \in Calls : chain[c].token <= source
  /\ lastSent \in {"none", "audio", "silence"}
  /\ hasty \in {"no", "early", "tangled"}

(* As long as callers let one call start its loops before the next, no two *)
(* chains transmit at once: while one has a token that is not cancelled,   *)
(* it is alone in having one, and it is the chain stop will wait for, once *)
(* the play that started it has assigned its task.                         *)
OneTransmitter ==
  \A c \in Calls : hasty = "no" /\ Running(c) /\ chain[c].token \notin cancelled =>
    /\ transmitTask = c \/ At(c, "play", "transmitting")
    /\ \A b \in Calls \ {c} : Running(b) => chain[b].token \in cancelled

(* However calls interleave, audio never stops without silence after it,   *)
(* which the receivers need so as not to extrapolate: once no chain runs   *)
(* and none broke, the last frame sent was silence.                        *)
EndsInSilence ==
  (\A c \in Calls : chain[c].pc \in {"none", "over"}) => lastSent # "audio"

(* Once serial callers have stopped the player and leave it alone, every   *)
(* chain and every transcoding loop that was ever started comes to an end, *)
(* also those of a play whose continuation runs only after the stop.       *)
StopEndsAll ==
  \A c \in Calls :
    <>[](~playing /\ ~Overlaps /\ hasty # "tangled")
      => <>[](~Running(c) /\ call[c].pc # "transcoding")
=============================================================================
