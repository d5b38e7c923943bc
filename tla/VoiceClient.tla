----------------------------- MODULE VoiceClient -----------------------------
(***************************************************************************)
(* A voice session: lib/discord/voice_client_impl.cpp and                  *)
(* lib/discord/voice_client_events.cpp, with the websocket, the voice      *)
(* server and the network they talk to.                                    *)
(*                                                                         *)
(* The parts that run concurrently are                                     *)
(*   - the owner, who calls start, stop, set_speaking and the destructor;  *)
(*   - the receive thread of the websocket client, which runs the message  *)
(*     handler and therefore every process_* function; the handler ends in *)
(*     wait(), so it takes one message at a time and is blocked while the  *)
(*     UDP discovery started by Ready is under way;                        *)
(*   - the heartbeat loops, one for each Hello, on the thread pool;        *)
(*   - the voice server and the network (external).                        *)
(*                                                                         *)
(* Sessions are numbered by the call of start that opened them; session c  *)
(* has the ssrc c and the secret key c.                                    *)
(***************************************************************************)
EXTENDS Integers, SequencesExt

CONSTANTS
  MaxStarts,   \* bound: how often the owner calls start
  Modulus,     \* size of the nonce type, 2^32 for uint32_t
  Faults,      \* may the encryption mode not be offered, UDP operations fail and
               \* datagrams get lost or cut short?
  Chatter      \* opcodes the server may send without being asked

ASSUME VoiceClientAssumption ==
  /\ MaxStarts \in Nat /\ Modulus \in Nat /\ Modulus >= 4
  /\ Faults \in BOOLEAN
  /\ Chatter \subseteq {"Identify", "SelectProtocol", "Heartbeat", "Speaking",
                        "ResumeConnection", "Resumed", "Unhandled", "Malformed"}

VARIABLES
  life,       \* the voice_client_impl: "alive", "destroying" or "gone"
  ws,         \* _ws_client: "closed", "connecting", "open" or "closing"
  conn,       \* the number of the session: how often start was called
  hooked,     \* _hooked_events
  handler,    \* is the message handler installed?
  source,     \* the cancellation source _disconnect_token_source refers to
  cancelled,  \* the cancellation sources that were cancelled
  rx,         \* what the message handler on the receive thread is doing
  ssrc,       \* _ssrc
  secretKey,  \* _secret_key, as the sequence of keys it is put together from
  toServer,   \* websocket messages on their way to the server
  toClient,   \* websocket messages on their way to the client
  udp,        \* the datagram under way: "none", "request", "reply", "short"
  shaken,     \* history: handshake messages sent in this session
  token,      \* the cancellation source the task of a loop was created with
  nonce, received, pc, reg, overlapped, missed,  \* as in Heartbeat
  flight      \* history: nonces sent and not yet processed as an answer

owner   == <<life, conn, hooked, handler, source, cancelled>>
channel == <<ws, toServer, toClient>>
session == <<rx, ssrc, secretKey, udp, shaken>>
loops   == <<token, nonce, received, pc, reg, flight, overlapped, missed>>

vars == <<owner, channel, session, loops>>

-----------------------------------------------------------------------------
Loops == 1 .. MaxStarts

HB == INSTANCE Heartbeat

Message(op, n) == [op |-> op, n |-> n]

(* send_opcode: the message goes out while the websocket is open; in every *)
(* other state the task it returns fails.                                  *)
SendOpcode(op, n) ==
  /\ ws = "open"
  /\ toServer' = Append(toServer, Message(op, n))

SendFails == ws # "open" /\ UNCHANGED toServer

(* The message handler waits for the task of the message before it returns *)
(* to the receive thread.  A task that failed makes wait() throw out of    *)
(* the handler ("threw"), and nothing is received from then on.            *)
NeverWaits == rx # "threw"
HandlerReturned == rx = "idle"

-----------------------------------------------------------------------------
(* The owner.  start is not called before the previous connection is over, *)
(* and neither stop nor the destructor while start is still connecting.    *)

Start ==
  /\ life = "alive" /\ ws = "closed" /\ conn < MaxStarts
  /\ source' = IF source \in cancelled THEN source + 1 ELSE source
  /\ handler' = (handler \/ ~hooked)
  /\ hooked' = TRUE
  /\ ws' = "connecting"
  /\ conn' = conn + 1
  /\ shaken' = <<>>
  /\ UNCHANGED <<life, cancelled, toServer, toClient, rx, ssrc, secretKey, udp,
                 loops>>

Cancel == cancelled' = cancelled \cup {source}

CloseWebsocket ==
  /\ ws # "connecting"
  /\ ws' = IF ws = "open" THEN "closing" ELSE ws

Stop ==
  /\ life = "alive"
  /\ Cancel
  /\ CloseWebsocket
  /\ UNCHANGED <<life, conn, hooked, handler, source, toServer, toClient, session,
                 loops>>

(* The destructor cancels and closes, then blocks until the close is done. *)
Destroy ==
  /\ life = "alive"
  /\ life' = "destroying"
  /\ Cancel
  /\ CloseWebsocket
  /\ UNCHANGED <<conn, hooked, handler, source, toServer, toClient, session, loops>>

DestructorReturns ==
  /\ life = "destroying" /\ ws = "closed"
  /\ life' = "gone"
  /\ UNCHANGED <<conn, hooked, handler, source, cancelled, channel, session, loops>>

(* set_speaking may be called at any time; here, when nothing else is on   *)
(* its way, to keep the channel bounded.                                   *)
SetSpeaking ==
  /\ life = "alive" /\ toServer = <<>>
  /\ SendOpcode("Speaking", ssrc)
  /\ UNCHANGED <<ws, toClient, owner, session, loops>>

-----------------------------------------------------------------------------
(* The receive thread.                                                     *)

Incoming(op) ==
  /\ ws \in {"open", "closing"} /\ handler /\ HandlerReturned
  /\ toClient # <<>> /\ Head(toClient).op = op
  /\ toClient' = Tail(toClient)

(* Without a handler the websocket client drops what it receives.          *)
NobodyListens ==
  /\ ws \in {"open", "closing"} /\ ~handler
  /\ toClient # <<>> /\ toClient' = Tail(toClient)
  /\ UNCHANGED <<ws, toServer, owner, session, loops>>

HelloForgetsIdentify ==
  /\ Incoming("Hello")
  /\ pc[conn] = "idle"
  /\ pc' = [pc EXCEPT ![conn] = "scheduled"]
  /\ token' = [token EXCEPT ![conn] = source]
  /\ overlapped' = (overlapped \/ \E k \in Loops : HB!Live(k))
  /\ UNCHANGED <<ws, toServer, owner, session, nonce, received, reg, flight, missed>>

(* process_hello creates the task of the loop, then identifies.  The loop  *)
(* is there even if the message cannot be sent.                            *)
ProcessHello ==
  /\ Incoming("Hello")
  /\ pc[conn] = "idle"
  /\ pc' = [pc EXCEPT ![conn] = "scheduled"]
  /\ token' = [token EXCEPT ![conn] = source]
  /\ overlapped' = (overlapped \/ \E k \in Loops : HB!Live(k))
  /\ \/ /\ SendOpcode("Identify", 0)
        /\ shaken' = Append(shaken, Message("Identify", 0))
        /\ UNCHANGED rx
     \/ /\ SendFails
        /\ rx' = "threw"
        /\ UNCHANGED shaken
  /\ UNCHANGED <<ws, owner, ssrc, secretKey, udp, nonce, received, reg, flight,
                 missed>>

(* process_ready begins: from here on the handler is blocked until the     *)
(* discovery is over.  It throws if the server does not offer the one      *)
(* encryption mode the client has.                                         *)
ProcessReady ==
  /\ Incoming("Ready")
  /\ ssrc' = Head(toClient).n
  /\ rx' \in {"connecting"} \cup IF Faults THEN {"threw"} ELSE {}
  /\ UNCHANGED <<ws, toServer, owner, secretKey, udp, shaken, loops>>

ReadyStep == UNCHANGED <<ws, toClient, owner, ssrc, secretKey, loops>>

UdpConnect ==
  /\ rx = "connecting"
  /\ rx' \in {"sending"} \cup IF Faults THEN {"threw"} ELSE {}
  /\ ReadyStep /\ UNCHANGED <<toServer, udp, shaken>>

SendDiscovery ==
  /\ rx = "sending"
  /\ \/ rx' = "receiving" /\ udp' = "request"
     \/ Faults /\ rx' = "threw" /\ UNCHANGED udp
  /\ ReadyStep /\ UNCHANGED <<toServer, shaken>>

ShortReplyIgnored ==
  /\ rx = "receiving" /\ udp \in {"reply", "short"}
  /\ rx' = IF udp = "reply" THEN "selecting" ELSE "idle"
  /\ udp' = "none"
  /\ ReadyStep /\ UNCHANGED <<toServer, shaken>>

ReplyDroppedOnClose ==
  /\ rx = "receiving" /\ udp \in {"reply", "short"}
  /\ ws = "open"
  /\ rx' = IF udp = "reply" THEN "selecting" ELSE "threw"
  /\ udp' = "none"
  /\ ReadyStep /\ UNCHANGED <<toServer, shaken>>

ReceiveDiscovery ==
  /\ rx = "receiving" /\ udp \in {"reply", "short"}
  /\ rx' = IF udp = "reply" THEN "selecting" ELSE "threw"
  /\ udp' = "none"
  /\ ReadyStep /\ UNCHANGED <<toServer, shaken>>

SelectProtocol ==
  /\ rx = "selecting"
  /\ \/ /\ SendOpcode("SelectProtocol", ssrc)
        /\ shaken' = Append(shaken, Message("SelectProtocol", ssrc))
        /\ rx' = "idle"
     \/ /\ SendFails
        /\ rx' = "threw"
        /\ UNCHANGED shaken
  /\ ReadyStep /\ UNCHANGED udp

(* process_session_description appends to _secret_key, which nobody ever   *)
(* clears.                                                                 *)
ProcessSessionDescription ==
  /\ Incoming("SessionDescription")
  /\ secretKey' = Append(secretKey, Head(toClient).n)
  /\ UNCHANGED <<ws, toServer, owner, rx, ssrc, udp, shaken, loops>>

ProcessHeartbeatAck ==
  /\ Incoming("HeartbeatAck")
  /\ received' = Head(toClient).n
  /\ flight' = Tail(flight)
  /\ UNCHANGED <<ws, toServer, owner, session, token, nonce, pc, reg, overlapped,
                 missed>>

(* Opcodes process_event takes note of and those it throws at, as it does  *)
(* at what is no JSON or lacks a member.                                   *)
Ignored    == {"Speaking", "Resumed", "Unhandled"}
Unexpected == {"Identify", "SelectProtocol", "Heartbeat", "ResumeConnection",
               "Malformed"}

IgnoreMessage ==
  /\ \E op \in Ignored : Incoming(op)
  /\ UNCHANGED <<ws, toServer, owner, session, loops>>

RejectMessage ==
  /\ \E op \in Unexpected : Incoming(op)
  /\ rx' = "threw"
  /\ UNCHANGED <<ws, toServer, owner, ssrc, secretKey, udp, shaken, loops>>

-----------------------------------------------------------------------------
(* The heartbeat loops (see Heartbeat).  They go on whatever the owner     *)
(* does, until the object is gone; what a loop left over then does is      *)
(* undefined.                                                              *)

LoopStep == life # "gone" /\ UNCHANGED <<owner, ws, toClient, session>>

(* The task of a loop belongs to the cancellation source of its session:   *)
(* it never runs if the source is cancelled before, and it may notice when *)
(* it first asks.  Once it has waited it runs as a continuation of         *)
(* wait_for, which was given no token (0), and the answer is always no.    *)
Doomed(l) == token[l] \in cancelled

CancellationSeen(l) ==
  /\ Doomed(l) /\ pc[l] \in {"scheduled", "checking"}
  /\ LoopStep /\ UNCHANGED <<toServer, token>>
  /\ HB!CancellationSeen(l)

Enter(l) ==
  /\ pc[l] = "scheduled" => ~Doomed(l)
  /\ LoopStep /\ UNCHANGED <<toServer, token>>
  /\ HB!Enter(l)

Compare(l) ==
  /\ LoopStep /\ UNCHANGED toServer
  /\ token' = [token EXCEPT ![l] = 0]
  /\ HB!Compare(l)

Fire(l) ==
  /\ LoopStep /\ UNCHANGED <<toServer, token>>
  /\ HB!Fire(l)

BeatSent(l) ==
  /\ pc[l] = "bumping"
  /\ HB!StoreNonce(l)
  /\ HB!Goto(l, "sent")
  /\ SendOpcode("Heartbeat", nonce')
  /\ flight' = Append(flight, nonce')
  /\ LoopStep /\ UNCHANGED <<token, received, overlapped, missed>>

(* A loop that tries again at the next interval instead of giving up.      *)
BeatRetries(l) ==
  /\ pc[l] = "bumping"
  /\ HB!StoreNonce(l)
  /\ HB!Goto(l, "waiting")
  /\ SendFails
  /\ missed' = TRUE
  /\ LoopStep /\ UNCHANGED <<token, received, flight, overlapped>>

BeatRefused(l) ==
  /\ pc[l] = "bumping"
  /\ HB!StoreNonce(l)
  /\ HB!Goto(l, "unsent")
  /\ SendFails
  /\ missed' = TRUE
  /\ LoopStep /\ UNCHANGED <<token, received, flight, overlapped>>

-----------------------------------------------------------------------------
(* The server and the network.                                             *)

Others == UNCHANGED <<owner, session, loops>>

(* The connection is up and the server greets with Hello.                  *)
Connected ==
  /\ ws = "connecting"
  /\ ws' = "open"
  /\ toClient' = <<Message("Hello", 0)>>
  /\ Others /\ UNCHANGED toServer

ConnectFails ==
  /\ ws = "connecting"
  /\ ws' = "closed"
  /\ Others /\ UNCHANGED <<toServer, toClient>>

(* What the server answers in this session.                                *)
Answer(m) ==
  CASE m.op = "Identify"       -> <<Message("Ready", conn)>>
    [] m.op = "SelectProtocol" -> <<Message("SessionDescription", conn)>>
    [] m.op = "Heartbeat"      -> <<Message("HeartbeatAck", m.n)>>
    [] OTHER                   -> <<>>

Serve ==
  /\ toServer # <<>>
  /\ toServer' = Tail(toServer)
  /\ toClient' = toClient \o Answer(Head(toServer))
  /\ Others /\ UNCHANGED ws

(* The server says something unasked; when it does, nothing else is on its *)
(* way, to keep the channel bounded.                                       *)
Chat ==
  /\ ws = "open" /\ toClient = <<>>
  /\ \E op \in Chatter : toClient' = <<Message(op, 0)>>
  /\ Others /\ UNCHANGED <<ws, toServer>>

(* The connection is over: what was under way is lost.  The thread that    *)
(* would report it is the receive thread, so this waits for the handler.   *)
ConnectionOver ==
  /\ HandlerReturned
  /\ ws' = "closed"
  /\ toServer' = <<>> /\ toClient' = <<>>
  /\ flight' = <<>> /\ missed' = (missed \/ flight # <<>>)
  /\ UNCHANGED <<owner, session, token, nonce, received, pc, reg, overlapped>>

CloseCompletes == ws = "closing" /\ ConnectionOver

RemoteClose == ws = "open" /\ ConnectionOver

DiscoveryAnswered ==
  /\ udp = "request"
  /\ udp' = "reply"
  /\ UNCHANGED <<owner, channel, rx, ssrc, secretKey, shaken, loops>>

DatagramLost ==
  /\ Faults
  /\ udp \in {"request", "reply"}
  /\ udp' \in {"none", "short"}
  /\ UNCHANGED <<owner, channel, rx, ssrc, secretKey, shaken, loops>>

(* The socket reports an error instead of a datagram.                      *)
ReceiveFails ==
  /\ Faults /\ rx = "receiving"
  /\ rx' = "threw" /\ udp' = "none"
  /\ ReadyStep /\ UNCHANGED <<toServer, shaken>>

-----------------------------------------------------------------------------
(* The constructor does not initialise _hooked_events.                     *)
Init ==
  /\ life = "alive" /\ ws = "closed" /\ conn = 0
  /\ hooked \in BOOLEAN /\ handler = FALSE
  /\ source = 1 /\ cancelled = {}
  /\ rx = "idle" /\ ssrc = 0 /\ secretKey = <<>>
  /\ toServer = <<>> /\ toClient = <<>> /\ udp = "none" /\ shaken = <<>>
  /\ token = [l \in Loops |-> 0]
  /\ nonce = 0 /\ received = 0
  /\ pc = [l \in Loops |-> "idle"] /\ reg = [l \in Loops |-> 0]
  /\ flight = <<>> /\ overlapped = FALSE /\ missed = FALSE

Owner == Start \/ Stop \/ Destroy \/ DestructorReturns \/ SetSpeaking

ProcessEvent ==
  \/ ProcessHello \/ ProcessReady \/ ProcessSessionDescription
  \/ ProcessHeartbeatAck \/ IgnoreMessage \/ RejectMessage \/ NobodyListens

ReadyChain == UdpConnect \/ SendDiscovery \/ ReceiveDiscovery \/ SelectProtocol

Loop(l) ==
  CancellationSeen(l) \/ Enter(l) \/ Compare(l) \/ Fire(l) \/ BeatSent(l)
    \/ BeatRefused(l)

Network ==
  \/ Connected \/ ConnectFails \/ Serve \/ Chat \/ CloseCompletes \/ RemoteClose
  \/ DiscoveryAnswered \/ DatagramLost \/ ReceiveFails

Next == Owner \/ ProcessEvent \/ ReadyChain \/ (\E l \in Loops : Loop(l)) \/ Network

Spec == Init /\ [][Next]_vars

(* Every thread that can take a step takes it, the server answers, a       *)
(* datagram not lost arrives, a connection attempt and a close end.  The   *)
(* owner need not call anything, nor the server hang up or chat.           *)
FairSpec ==
  /\ Spec
  /\ WF_vars(ProcessEvent) /\ WF_vars(ReadyChain) /\ WF_vars(DestructorReturns)
  /\ \A l \in Loops : WF_vars(Loop(l))
  /\ WF_vars(Connected \/ ConnectFails) /\ WF_vars(Serve)
  /\ WF_vars(CloseCompletes) /\ WF_vars(DiscoveryAnswered \/ DatagramLost)

-----------------------------------------------------------------------------
Opcode == {"Hello", "Ready", "SessionDescription", "HeartbeatAck", "Identify",
           "SelectProtocol", "Heartbeat", "Speaking", "ResumeConnection", "Resumed",
           "Unhandled", "Malformed"}

MessageType == [op : Opcode, n : Nat]

TypeOK ==
  /\ life \in {"alive", "destroying", "gone"}
  /\ ws \in {"closed", "connecting", "open", "closing"}
  /\ conn \in 0 .. MaxStarts
  /\ hooked \in BOOLEAN /\ handler \in BOOLEAN
  /\ source \in 1 .. MaxStarts + 1 /\ cancelled \subseteq 1 .. source
  /\ rx \in {"idle", "connecting", "sending", "receiving", "selecting", "threw"}
  /\ ssrc \in 0 .. conn
  /\ secretKey \in Seq(1 .. conn)
  /\ toServer \in Seq(MessageType) /\ toClient \in Seq(MessageType)
  /\ udp \in {"none", "request", "reply", "short"}
  /\ shaken \in Seq(MessageType)
  /\ token \in [Loops -> 0 .. source]
  /\ HB!TypeOK

(* The handshake never goes out of step, across restarts, refusals and     *)
(* lost datagrams: what a session has sent so far is Identify and then     *)
(* SelectProtocol, the latter for the ssrc this session was given.         *)
HandshakeOrder ==
  IsPrefix(shaken, <<Message("Identify", 0), Message("SelectProtocol", conn)>>)

(* A handshake that was begun is never abandoned half way unnoticed: while *)
(* the thread waits for nothing, what is under way in an open session      *)
(* leads to the secret key, or the key is there.                           *)
HandshakeAdvances ==
  ws = "open" /\ handler /\ rx = "idle" =>
    \/ Contains(secretKey, conn)
    \/ \E i \in DOMAIN toClient :
         toClient[i].op \in {"Hello", "Ready", "SessionDescription"}
    \/ \E i \in DOMAIN toServer :
         toServer[i].op \in {"Identify", "SelectProtocol"}

(* Once a session has its key, that is the last key received, and the ssrc *)
(* frames are sent with is the session's own; until then the last key is   *)
(* never newer than the ssrc.                                              *)
KeyMatchesSsrc ==
  /\ Contains(secretKey, conn) => Last(secretKey) = conn /\ ssrc = conn
  /\ secretKey # <<>> => Last(secretKey) <= ssrc

(* The heartbeats of a session behave as Heartbeat says, whatever else the *)
(* client does: it is refined by this module.                              *)
HeartbeatSpec == HB!Spec

(* The answer to the discovery datagram will never come.                   *)
DiscoveryLost == rx = "receiving" /\ udp = "none"

(* An open session gets its secret key, unless it ends, the handler throws *)
(* or the discovery is lost.                                               *)
SessionEstablished ==
  \A c \in Loops :
    ws = "open" /\ conn = c /\ handler ~>
      Contains(secretKey, c) \/ ws # "open" \/ rx = "threw" \/ DiscoveryLost

(* A close that was asked for completes, unless the handler threw or waits *)
(* for a discovery that was lost.                                          *)
StopCompletes == ws = "closing" ~> ws = "closed" \/ rx = "threw" \/ DiscoveryLost

(* Once the connection is closed for good, every heartbeat loop comes to   *)
(* an end by itself, though none of them is told to.                       *)
LoopsDrain ==
  <>[](ws = "closed" /\ life # "gone") => <>[](\A l \in Loops : ~HB!Live(l))

-----------------------------------------------------------------------------
(* What the code's comments and messages say of it, and is not so.         *)

(* The key frames are encrypted with, the first 32 bytes of _secret_key,   *)
(* is the key of the session they are sent in.                             *)
FrameKeyIsCurrent == Contains(secretKey, conn) => Head(secretKey) = conn

(* The wait in the destructor comes to an end, unless the handler threw.   *)
DestructorEnds == life = "destroying" ~> life = "gone" \/ rx = "threw"
=============================================================================
