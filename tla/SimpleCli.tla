------------------------------ MODULE SimpleCli ------------------------------
(***************************************************************************)
(* The sample simple_cli: a thread that transcodes frames into a bounded   *)
(* queue, a thread that transmits them with transmit_frame, main_async,    *)
(* which connects, speaks and then tells the transmitting thread to begin, *)
(* and the voice session as far as they see it: its receive thread writes  *)
(* the ssrc and the secret key that transmit_frame reads.                  *)
(*                                                                         *)
(* Frames are numbered as they are made, those the encoder gives no bytes  *)
(* for left out.  An exception that leaves a thread or main terminates the *)
(* program.                                                                *)
(***************************************************************************)
EXTENDS VoicePacket

CONSTANTS
  Capacity,   \* of transcoded_frames, 250 in the code
  Samples,    \* samples in a frame
  Ssrc,       \* the ssrc of the session
  MaxFrames   \* bound: frames transcoded

ASSUME SampleAssumption ==
  /\ {Capacity, Samples, MaxFrames} \subseteq Nat \ {0}
  /\ Ssrc \in 1 .. Values32 - 1

VARIABLES
  terminated, \* has the program been terminated?
  main,       \* where main_async and main are
  bot,        \* is the process bot.py running?
  connected,  \* was the promise connected set?
  ws,         \* is the websocket open?
  speaking,   \* was the Speaking message sent?
  ssrc,       \* _ssrc
  key,        \* _secret_key: "empty", "partial" or "whole"
  transcode,  \* what the transcoding thread is doing
  made,       \* how many frames it has made
  queue,      \* transcoded_frames
  transmit,   \* what the transmitting thread is doing
  frame,      \* the frame it has popped, 0 when there is none
  header,     \* the header it has built
  sequence, timestamp,   \* _sequence and _timestamp
  wire        \* history: the packets sent

program == <<main, bot, connected>>
session == <<ws, speaking, ssrc, key>>
source == <<transcode, made>>
sink == <<transmit, frame, header, sequence, timestamp, wire>>
vars == <<terminated, program, session, source, queue, sink>>

Garbled == <<>>   \* whatever is in freed memory

Terminate == terminated' = TRUE /\ UNCHANGED <<program, session, source, queue, sink>>

-----------------------------------------------------------------------------
(* transcode_work.                                                         *)
CreateEncoder ==
  /\ transcode = "create" /\ transcode' = "encode"
  /\ UNCHANGED <<terminated, program, session, made, queue, sink>>

EncoderFails == transcode = "create" /\ Terminate

(* Reading a frame and encoding it.  The input may block, or give nothing  *)
(* that the encoder makes bytes of, for ever.                              *)
Transcode ==
  /\ transcode = "encode" /\ made < MaxFrames
  /\ made' = made + 1 /\ transcode' = "push"
  /\ UNCHANGED <<terminated, program, session, queue, sink>>

(* push waits for room in the queue.                                       *)
Push ==
  /\ transcode = "push" /\ Len(queue) < Capacity
  /\ queue' = Append(queue, made) /\ transcode' = "encode"
  /\ UNCHANGED <<terminated, program, session, made, sink>>

-----------------------------------------------------------------------------
(* transmit_work, with transmit_frame.                                     *)
BeginTransmit ==
  /\ transmit = "wait" /\ connected
  /\ transmit' = "pop"
  /\ UNCHANGED <<terminated, program, session, source, queue, frame, header, sequence,
                 timestamp, wire>>

PopsLast ==
  /\ transmit = "pop" /\ queue # <<>>
  /\ frame' = Last(queue) /\ queue' = Front(queue)
  /\ transmit' = "header"
  /\ UNCHANGED <<terminated, program, session, source, header, sequence, timestamp, wire>>

Buffers ==
  /\ transmit = "pop" /\ Len(queue) = Capacity
  /\ frame' = Head(queue) /\ queue' = Tail(queue)
  /\ transmit' = "header"
  /\ UNCHANGED <<terminated, program, session, source, header, sequence, timestamp, wire>>

(* While there is nothing to pop, the loop goes round.                     *)
Pop ==
  /\ transmit = "pop" /\ queue # <<>>
  /\ frame' = Head(queue) /\ queue' = Tail(queue)
  /\ transmit' = "header"
  /\ UNCHANGED <<terminated, program, session, source, header, sequence, timestamp, wire>>

BuildHeader ==
  /\ transmit = "header"
  /\ header' = Header(sequence, timestamp, ssrc)
  /\ sequence' = (sequence + 1) % Values16
  /\ timestamp' = (timestamp + Samples) % Values32
  /\ transmit' = "encrypt"
  /\ UNCHANGED <<terminated, program, session, source, queue, frame, wire>>

(* As many bytes as a key has are read from where the key is: without one, *)
(* or with part of one, there may be anything, or no memory at all.        *)
Encrypt ==
  /\ transmit = "encrypt"
  /\ \/ /\ transmit' = "send"
        /\ UNCHANGED <<terminated, program, session, source, queue, frame, header, sequence,
                       timestamp, wire>>
     \/ key # "whole" /\ Terminate

(* The socket takes the packet at once, or reads it when the vector that   *)
(* held it is gone.                                                        *)
Send ==
  /\ transmit = "send"
  /\ \E bytes \in {header, Garbled} : wire' = Append(wire, [frame |-> frame, header |-> bytes])
  /\ frame' = 0 /\ transmit' = "pace"
  /\ UNCHANGED <<terminated, program, session, source, queue, header, sequence, timestamp>>

(* The exception of the failed task leaves the thread.                     *)
SendFails == transmit = "send" /\ Terminate

(* wait_for the rest of the 20 ms, and then the end of the temporary       *)
(* memory(frame): its destructor follows a _pool nobody initialised, null  *)
(* or anything.                                                            *)
Pace ==
  /\ transmit = "pace"
  /\ \/ /\ transmit' = "pop"
        /\ UNCHANGED <<terminated, program, session, source, queue, frame, header, sequence,
                       timestamp, wire>>
     \/ Terminate

-----------------------------------------------------------------------------
(* main_async, and main, which closes the pipe to bot.py when it fails and *)
(* so waits for its end.                                                   *)
Goto(pc) == main' = pc /\ UNCHANGED <<bot, connected>>

Connect ==
  /\ main = "start"
  /\ \/ Goto("five seconds") /\ ws' = TRUE
     \/ Goto("catch") /\ UNCHANGED ws
  /\ UNCHANGED <<terminated, speaking, ssrc, key, source, queue, sink>>

FiveSeconds ==
  /\ main = "five seconds"
  /\ Goto("speak")
  /\ UNCHANGED <<terminated, session, source, queue, sink>>

ConnectedFirst ==
  /\ main = "speak"
  /\ main' = "connected" /\ connected' = TRUE /\ UNCHANGED bot
  /\ UNCHANGED <<terminated, session, source, queue, sink>>

SetSpeaking ==
  /\ main = "speak"
  /\ IF ws THEN Goto("connected") ELSE Goto("catch")
  /\ speaking' = (ws \/ speaking)
  /\ UNCHANGED <<terminated, ws, ssrc, key, source, queue, sink>>

(* After this main waits for a promise that is never set.                  *)
SetConnected ==
  /\ main = "connected"
  /\ main' = "wait" /\ connected' = TRUE
  /\ UNCHANGED <<terminated, bot, session, source, queue, sink>>

Catch == main = "catch" /\ bot = "ended" /\ Terminate

-----------------------------------------------------------------------------
(* The session: Ready, the session description, which is appended to the   *)
(* key piece by piece, and its end.                                        *)
Ready ==
  /\ ws /\ ssrc = 0
  /\ ssrc' = Ssrc
  /\ UNCHANGED <<terminated, program, ws, speaking, key, source, queue, sink>>

SessionDescription ==
  /\ ssrc # 0
  /\ \/ key = "empty" /\ ws /\ key' = "partial"
     \/ key = "partial" /\ key' = "whole"
  /\ UNCHANGED <<terminated, program, ws, speaking, ssrc, source, queue, sink>>

Disconnect ==
  /\ ws /\ ws' = FALSE
  /\ UNCHANGED <<terminated, program, speaking, ssrc, key, source, queue, sink>>

BotEnds ==
  /\ bot = "running" /\ bot' = "ended"
  /\ UNCHANGED <<terminated, main, connected, session, source, queue, sink>>

-----------------------------------------------------------------------------
(* The threads are started when bot.py has said where to connect.          *)
Init ==
  /\ terminated = FALSE
  /\ main = "start" /\ bot = "running" /\ connected = FALSE
  /\ ws = FALSE /\ speaking = FALSE /\ ssrc = 0 /\ key = "empty"
  /\ transcode = "create" /\ made = 0 /\ queue = <<>>
  /\ transmit = "wait" /\ frame = 0 /\ header = <<>>
  /\ sequence = 0 /\ timestamp = 0 /\ wire = <<>>

Transcoding == ~terminated /\ (CreateEncoder \/ EncoderFails \/ Transcode \/ Push)
Transmitting ==
  ~terminated /\ (BeginTransmit \/ Pop \/ BuildHeader \/ Encrypt \/ Send \/ SendFails \/ Pace)
Main == ~terminated /\ (Connect \/ FiveSeconds \/ SetSpeaking \/ SetConnected \/ Catch)
Session == ~terminated /\ (Ready \/ SessionDescription \/ Disconnect \/ BotEnds)

Next == Transcoding \/ Transmitting \/ Main \/ Session

Spec == Init /\ [][Next]_vars

(* The threads and the chain of main_async go on; the source of frames,    *)
(* the server, the network and bot.py need not.                            *)
FairSpec ==
  /\ Spec
  /\ WF_vars(Transcoding /\ transcode # "encode")
  /\ WF_vars(Transmitting) /\ WF_vars(Main)

-----------------------------------------------------------------------------
(* Frames are neither lost nor repeated, leave in the order they were      *)
(* transcoded in, and never more than Capacity of them wait, though one    *)
(* thread waits for room and the other goes round an empty queue.          *)
FramesKept ==
  LET sent == [i \in DOMAIN wire |-> wire[i].frame]
      popped == IF frame = 0 THEN <<>> ELSE <<frame>>
      pushed == IF transcode = "push" THEN made - 1 ELSE made
  IN /\ sent \o popped \o queue = [i \in 1 .. pushed |-> i]
     /\ Len(queue) <= Capacity

(* A receiver of the packets finds in their headers, but for those read    *)
(* too late, and across the wrapping of both counters: consecutive         *)
(* sequence numbers, timestamps that advance by the samples of every frame *)
(* before, and no other ssrc once the session has one.                     *)
HeadersInOrder ==
  \A i \in {i \in DOMAIN wire : wire[i].header # Garbled} :
    LET h == wire[i].header
    IN /\ SequenceIn(h) = (i - 1) % Values16
       /\ TimestampIn(h) = ((i - 1) * Samples) % Values32
       /\ SsrcIn(h) \in {0, Ssrc}
       /\ \A k \in 1 .. i - 1 :
            wire[k].header # Garbled /\ SsrcIn(wire[k].header) # 0 => SsrcIn(h) = Ssrc

(* No audio is sent before the Speaking message.                           *)
SpeaksFirst == wire # <<>> => speaking

(* Neither thread stops the other, or main both: however many frames the   *)
(* source gives and whenever it stops giving them, in the end each of them *)
(* is played or the program is terminated, unless main has failed and      *)
(* waits for bot.py, which goes on running.                                *)
PlaysOrEnds ==
  <>[]\/ terminated
      \/ transcode = "encode" /\ Len(wire) = made
      \/ main = "catch" /\ bot = "running"
=============================================================================
