--------------------------- MODULE VoiceClientProofs ---------------------------
(***************************************************************************)
(* Theorems about VoiceClient, for every number of sessions, every size of *)
(* the nonce and every choice of faults and chatter.                       *)
(***************************************************************************)
EXTENDS VoiceClient, SequenceTheorems, TLAPS

-----------------------------------------------------------------------------
(* Messages on their way, as the proofs see them.                          *)
Messages == Seq(MessageType)

Holds(ms, op) == \E i \in DOMAIN ms : ms[i].op = op

Once(ms, op) ==
  \A i, j \in DOMAIN ms : ms[i].op = op /\ ms[j].op = op => i = j

(* f holds the nonces of the messages op in ms, in their order.            *)
Carries(ms, op, f) ==
  \E at \in [DOMAIN f -> DOMAIN ms] :
    /\ \A i, j \in DOMAIN f : i < j => at[i] < at[j]
    /\ \A i \in DOMAIN f : ms[at[i]].op = op /\ ms[at[i]].n = f[i]
    /\ \A k \in DOMAIN ms : ms[k].op = op => \E i \in DOMAIN f : at[i] = k

(* What appending a message does to these.                                 *)
LEMMA AppendHolds ==
  ASSUME NEW ms \in Messages, NEW m \in MessageType, NEW op
  PROVE  Holds(Append(ms, m), op) <=> Holds(ms, op) \/ m.op = op
<1>1. /\ Append(ms, m) \in Messages /\ DOMAIN Append(ms, m) = 1 .. Len(ms) + 1
      /\ DOMAIN ms = 1 .. Len(ms) /\ Len(ms) \in Nat
      /\ \A i \in 1 .. Len(ms) : Append(ms, m)[i] = ms[i]
      /\ Append(ms, m)[Len(ms) + 1] = m
  BY DEF Messages
<1>2. \A i \in 1 .. Len(ms) + 1 : i \in 1 .. Len(ms) \/ i = Len(ms) + 1
  BY <1>1
<1> QED
  BY <1>1, <1>2 DEF Holds

LEMMA AppendOnce ==
  ASSUME NEW ms \in Messages, NEW m \in MessageType, NEW op,
         Once(ms, op), Holds(ms, op) => m.op # op
  PROVE  Once(Append(ms, m), op)
<1>1. /\ Append(ms, m) \in Messages /\ DOMAIN Append(ms, m) = 1 .. Len(ms) + 1
      /\ DOMAIN ms = 1 .. Len(ms) /\ Len(ms) \in Nat
      /\ \A i \in 1 .. Len(ms) : Append(ms, m)[i] = ms[i]
      /\ Append(ms, m)[Len(ms) + 1] = m
  BY DEF Messages
<1>2. \A i \in 1 .. Len(ms) + 1 : i \in 1 .. Len(ms) \/ i = Len(ms) + 1
  BY <1>1
<1> QED
  BY <1>1, <1>2 DEF Holds, Once

LEMMA AppendCarries ==
  ASSUME NEW ms \in Messages, NEW m \in MessageType, NEW op, NEW S, NEW f \in Seq(S),
         Carries(ms, op, f), m.n \in S
  PROVE  Carries(Append(ms, m), op, IF m.op = op THEN Append(f, m.n) ELSE f)
<1> DEFINE ns == Append(ms, m)
<1>1. /\ ns \in Messages /\ DOMAIN ns = 1 .. Len(ms) + 1
      /\ DOMAIN ms = 1 .. Len(ms) /\ Len(ms) \in Nat
      /\ \A i \in 1 .. Len(ms) : ns[i] = ms[i]
      /\ ns[Len(ms) + 1] = m
  BY DEF Messages
<1>2. PICK at \in [DOMAIN f -> DOMAIN ms] :
        /\ \A i, j \in DOMAIN f : i < j => at[i] < at[j]
        /\ \A i \in DOMAIN f : ms[at[i]].op = op /\ ms[at[i]].n = f[i]
        /\ \A k \in DOMAIN ms : ms[k].op = op => \E i \in DOMAIN f : at[i] = k
  BY DEF Carries
<1> HIDE DEF ns
<1>3. CASE m.op # op
  <2>1. at \in [DOMAIN f -> DOMAIN ns]
    BY <1>1, <1>2
  <2>2. \A k \in DOMAIN ns : ns[k].op = op => \E i \in DOMAIN f : at[i] = k
    BY <1>1, <1>2, <1>3
  <2>3. \A i \in DOMAIN f : ns[at[i]].op = op /\ ns[at[i]].n = f[i]
    BY <1>1, <1>2
  <2> QED
    BY <1>2, <1>3, <2>1, <2>2, <2>3 DEF Carries, ns
<1>4. CASE m.op = op
  <2> DEFINE g == Append(f, m.n)
             bt == [i \in DOMAIN g |-> IF i \in DOMAIN f THEN at[i] ELSE Len(ms) + 1]
  <2>1. /\ g \in Seq(S) /\ DOMAIN g = 1 .. Len(f) + 1
        /\ DOMAIN f = 1 .. Len(f) /\ Len(f) \in Nat
        /\ \A i \in 1 .. Len(f) : g[i] = f[i]
        /\ g[Len(f) + 1] = m.n
    OBVIOUS
  <2> HIDE DEF g
  <2>2. /\ \A i \in DOMAIN f : i \in DOMAIN g /\ bt[i] = at[i] /\ at[i] \in DOMAIN ms
        /\ Len(f) + 1 \in DOMAIN g /\ bt[Len(f) + 1] = Len(ms) + 1
        /\ \A i \in DOMAIN g : i \in DOMAIN f \/ i = Len(f) + 1
    BY <1>2, <2>1
  <2>3. bt \in [DOMAIN g -> DOMAIN ns]
    BY <1>1, <1>2, <2>1
  <2> HIDE DEF bt
  <2>4. \A i, j \in DOMAIN g : i < j => bt[i] < bt[j]
    BY <1>1, <1>2, <2>1, <2>2
  <2>5. \A i \in DOMAIN g : ns[bt[i]].op = op /\ ns[bt[i]].n = g[i]
    BY <1>1, <1>2, <1>4, <2>1, <2>2
  <2>6. ASSUME NEW k \in DOMAIN ns, ns[k].op = op PROVE \E i \in DOMAIN g : bt[i] = k
    <3>1. CASE k = Len(ms) + 1
      BY <2>2, <3>1
    <3>2. CASE k # Len(ms) + 1
      <4>1. k \in DOMAIN ms /\ ms[k].op = op
        BY <1>1, <2>6, <3>2
      <4> QED
        BY <1>2, <2>2, <4>1
    <3> QED
      BY <3>1, <3>2
  <2>7. Carries(ns, op, g)
    BY <2>3, <2>4, <2>5, <2>6 DEF Carries
  <2> QED
    BY <1>4, <2>7 DEF ns, g
<1> QED
  BY <1>3, <1>4

(* What taking the oldest message does to them.                            *)
LEMMA TailShape ==
  ASSUME NEW ms \in Messages, ms # <<>>
  PROVE  /\ Tail(ms) \in Messages /\ Len(ms) \in Nat \ {0}
         /\ DOMAIN ms = 1 .. Len(ms) /\ DOMAIN Tail(ms) = 1 .. Len(ms) - 1
         /\ \A i \in 1 .. Len(ms) - 1 : Tail(ms)[i] = ms[i + 1]
         /\ Head(ms) = ms[1] /\ Head(ms) \in MessageType /\ 1 \in DOMAIN ms
  BY DEF Messages

LEMMA TailHolds ==
  ASSUME NEW ms \in Messages, ms # <<>>, NEW op
  PROVE  /\ Holds(ms, op) <=> Head(ms).op = op \/ Holds(Tail(ms), op)
         /\ Once(ms, op) => Once(Tail(ms), op)
         /\ Once(ms, op) /\ Head(ms).op = op => ~Holds(Tail(ms), op)
<1>1. \A i \in 1 .. Len(ms) : i = 1 \/ i - 1 \in 1 .. Len(ms) - 1
  BY TailShape
<1>2. \A i \in 1 .. Len(ms) - 1 : i + 1 \in 1 .. Len(ms) /\ i + 1 # 1
  BY TailShape
<1>3. \A i \in 1 .. Len(ms) : i # 1 => Tail(ms)[i - 1] = ms[i]
  BY <1>1, TailShape
<1>4. Holds(ms, op) => Head(ms).op = op \/ Holds(Tail(ms), op)
  BY <1>1, <1>3, TailShape DEF Holds
<1>5. Head(ms).op = op \/ Holds(Tail(ms), op) => Holds(ms, op)
  BY <1>2, TailShape DEF Holds
<1>6. Once(ms, op) => Once(Tail(ms), op)
  BY <1>2, TailShape DEF Once
<1>7. Once(ms, op) /\ Head(ms).op = op => ~Holds(Tail(ms), op)
  BY <1>2, TailShape DEF Once, Holds
<1> QED
  BY <1>4, <1>5, <1>6, <1>7

LEMMA TailCarries ==
  ASSUME NEW ms \in Messages, ms # <<>>, NEW op, NEW S, NEW f \in Seq(S),
         Carries(ms, op, f)
  PROVE  /\ Head(ms).op # op => Carries(Tail(ms), op, f)
         /\ Head(ms).op = op => /\ f # <<>> /\ Head(f) = Head(ms).n
                                /\ Carries(Tail(ms), op, Tail(f))
<1> DEFINE ns == Tail(ms)
<1>1. /\ ns \in Messages /\ Len(ms) \in Nat \ {0}
      /\ DOMAIN ms = 1 .. Len(ms) /\ DOMAIN ns = 1 .. Len(ms) - 1
      /\ \A i \in 1 .. Len(ms) - 1 : ns[i] = ms[i + 1]
      /\ Head(ms) = ms[1] /\ 1 \in DOMAIN ms
  BY TailShape
<1>2. PICK at \in [DOMAIN f -> DOMAIN ms] :
        /\ \A i, j \in DOMAIN f : i < j => at[i] < at[j]
        /\ \A i \in DOMAIN f : ms[at[i]].op = op /\ ms[at[i]].n = f[i]
        /\ \A k \in DOMAIN ms : ms[k].op = op => \E i \in DOMAIN f : at[i] = k
  BY DEF Carries
<1>f. DOMAIN f = 1 .. Len(f) /\ Len(f) \in Nat
  OBVIOUS
<1> HIDE DEF ns
<1>3. CASE Head(ms).op # op
  <2> DEFINE bt == [i \in DOMAIN f |-> at[i] - 1]
  <2>1. \A i \in DOMAIN f : at[i] \in 2 .. Len(ms) /\ bt[i] = at[i] - 1
    BY <1>1, <1>2, <1>3
  <2>2. bt \in [DOMAIN f -> DOMAIN ns]
    BY <1>1, <2>1
  <2> HIDE DEF bt
  <2>3. \A i, j \in DOMAIN f : i < j => bt[i] < bt[j]
    BY <1>2, <2>1
  <2>4. \A i \in DOMAIN f : ns[bt[i]].op = op /\ ns[bt[i]].n = f[i]
    BY <1>1, <1>2, <2>1, <2>2
  <2>5. \A k \in DOMAIN ns : ns[k].op = op => \E i \in DOMAIN f : bt[i] = k
    <3> TAKE k \in DOMAIN ns
    <3> HAVE ns[k].op = op
    <3>0. k + 1 \in DOMAIN ms /\ ms[k + 1].op = op
      BY <1>1
    <3>1. PICK i \in DOMAIN f : at[i] = k + 1
      BY <1>2, <3>0
    <3> QED
      BY <1>1, <2>1, <3>1
  <2> QED
    BY <1>3, <2>2, <2>3, <2>4, <2>5 DEF Carries, ns
<1>4. CASE Head(ms).op = op
  <2> DEFINE g == Tail(f)
             bt == [i \in DOMAIN g |-> at[i + 1] - 1]
  <2>1. PICK z \in DOMAIN f : at[z] = 1
    BY <1>1, <1>2, <1>4
  <2>2. z = 1 /\ 1 \in DOMAIN f
    BY <1>1, <1>2, <1>f, <2>1
  <2>3. f # <<>> /\ Head(f) = f[1]
    BY <2>2, <1>f
  <2>4. Head(f) = Head(ms).n
    BY <1>1, <1>2, <2>1, <2>2, <2>3
  <2>5. /\ g \in Seq(S) /\ DOMAIN g = 1 .. Len(f) - 1
        /\ \A i \in 1 .. Len(f) - 1 : g[i] = f[i + 1] /\ i + 1 \in DOMAIN f
    BY <2>3, <1>f
  <2> HIDE DEF g
  <2>6. ASSUME NEW i \in DOMAIN g
        PROVE  at[i + 1] \in 2 .. Len(ms) /\ bt[i] = at[i + 1] - 1
    <3>1. i + 1 \in DOMAIN f /\ 1 < i + 1
      BY <1>f, <2>5
    <3>2. at[1] < at[i + 1]
      BY <1>2, <2>2, <3>1
    <3> QED
      BY <1>1, <1>2, <2>1, <2>2, <3>1, <3>2
  <2>7. bt \in [DOMAIN g -> DOMAIN ns]
    BY <1>1, <2>6
  <2> HIDE DEF bt
  <2>n. \A i \in DOMAIN g : i \in Int /\ i + 1 \in DOMAIN f /\ g[i] = f[i + 1]
    BY <1>f, <2>5
  <2>8. ASSUME NEW i \in DOMAIN g, NEW j \in DOMAIN g, i < j PROVE bt[i] < bt[j]
    <3>1. i + 1 < j + 1
      BY <2>n, <2>8
    <3>2. at[i + 1] < at[j + 1]
      BY <1>2, <2>n, <3>1
    <3> QED
      BY <2>6, <3>2
  <2>9. ASSUME NEW i \in DOMAIN g PROVE ns[bt[i]].op = op /\ ns[bt[i]].n = g[i]
    <3>1. ms[at[i + 1]].op = op /\ ms[at[i + 1]].n = g[i]
      BY <1>2, <2>n
    <3>2. bt[i] \in 1 .. Len(ms) - 1 /\ bt[i] + 1 = at[i + 1]
      BY <1>1, <2>6
    <3> QED
      BY <1>1, <3>1, <3>2
  <2>10. \A k \in DOMAIN ns : ns[k].op = op => \E i \in DOMAIN g : bt[i] = k
    <3> TAKE k \in DOMAIN ns
    <3> HAVE ns[k].op = op
    <3>0. k + 1 \in DOMAIN ms /\ ms[k + 1].op = op
      BY <1>1
    <3>1. PICK i \in DOMAIN f : at[i] = k + 1
      BY <1>2, <3>0
    <3>2. i # 1
      BY <1>1, <2>1, <2>2, <3>1
    <3>3. i - 1 \in DOMAIN g /\ (i - 1) + 1 = i
      BY <1>f, <2>5, <3>2
    <3>4. bt[i - 1] = at[i] - 1
      BY <2>6, <3>3
    <3> QED
      BY <1>1, <3>1, <3>3, <3>4
  <2>11. Carries(ns, op, g)
    BY <2>7, <2>8, <2>9, <2>10 DEF Carries
  <2> QED
    BY <1>4, <2>3, <2>4, <2>11 DEF ns, g
<1> QED
  BY <1>3, <1>4

LEMMA NothingCarries ==
  ASSUME NEW op PROVE Carries(<<>>, op, <<>>) /\ ~Holds(<<>>, op) /\ Once(<<>>, op)
<1>1. DOMAIN <<>> = {}
  OBVIOUS
<1>2. <<>> \in [DOMAIN <<>> -> DOMAIN <<>>]
  OBVIOUS
<1> QED
  BY <1>1, <1>2 DEF Carries, Holds, Once

-----------------------------------------------------------------------------
(* The variables of the session, apart from the loops.                     *)
OwnerOK ==
  /\ life \in {"alive", "destroying", "gone"}
  /\ conn \in 0 .. MaxStarts
  /\ hooked \in BOOLEAN /\ handler \in BOOLEAN
  /\ source \in 1 .. conn + 1 /\ cancelled \subseteq 1 .. source

ChannelOK ==
  /\ ws \in {"closed", "connecting", "open", "closing"}
  /\ toServer \in Messages /\ toClient \in Messages
  /\ \A i \in DOMAIN toClient :
       toClient[i].op \in {"Ready", "SessionDescription"} => toClient[i].n = conn
  /\ ws # "closed" => conn \in Loops
  /\ ws \in {"closed", "connecting"} =>
       toServer = <<>> /\ toClient = <<>> /\ rx = "idle"

Chain == {"connecting", "sending", "receiving", "selecting"}

SessionOK ==
  /\ rx \in {"idle", "threw"} \cup Chain
  /\ ssrc \in 0 .. conn
  /\ secretKey \in Seq(1 .. conn)
  /\ udp \in {"none", "request", "reply", "short"}
  /\ \A i \in DOMAIN secretKey : secretKey[i] <= ssrc

LoopsOK ==
  /\ token \in [Loops -> 0 .. source]
  /\ nonce \in HB!Word
  /\ pc \in [Loops -> {"idle"} \cup HB!LivePC \cup HB!OverPC]
  /\ reg \in [Loops -> HB!Word]
  /\ overlapped \in BOOLEAN /\ missed \in BOOLEAN

(* The answers the client waits for are on their way.                      *)
FlightSplit ==
  \E f, g \in Seq(HB!Word) :
    /\ flight = f \o g
    /\ Carries(toClient, "HeartbeatAck", f)
    /\ Carries(toServer, "Heartbeat", g)

(* No loop is ever started by a client without a handler.                  *)
Quiet == ~handler => flight = <<>> /\ \A l \in Loops : pc[l] = "idle"

FlightOK == received \in HB!Word /\ FlightSplit /\ Quiet

-----------------------------------------------------------------------------
(* The handshake of a session is in one place at a time: a message on its  *)
(* way, the discovery, or the key; and each place belongs to one stage.    *)
Greeted    == <<>>
Identified == <<Message("Identify", 0)>>
Selected   == <<Message("Identify", 0), Message("SelectProtocol", conn)>>

InChain == rx \in Chain
KeyHere == Contains(secretKey, conn)

StageOK ==
  /\ shaken \in {Greeted, Identified, Selected}
  /\ ws = "connecting" => shaken = Greeted
  /\ Holds(toClient, "Hello") => shaken = Greeted
  /\ Holds(toServer, "Identify") \/ Holds(toClient, "Ready") \/ InChain =>
       shaken = Identified
  /\ Holds(toServer, "SelectProtocol") \/ Holds(toClient, "SessionDescription")
       \/ KeyHere => shaken = Selected
  /\ InChain \/ shaken = Selected => ssrc = conn
  /\ KeyHere => Last(secretKey) = conn

ClientSteps == {"Hello", "Ready", "SessionDescription"}
ServerSteps == {"Identify", "SelectProtocol"}

OnePlace ==
  /\ \A op \in ClientSteps : Once(toClient, op)
  /\ \A op \in ServerSteps : Once(toServer, op)
  /\ ~(Holds(toServer, "Identify") /\ Holds(toClient, "Ready"))
  /\ InChain => ~Holds(toServer, "Identify") /\ ~Holds(toClient, "Ready")
  /\ ~(Holds(toServer, "SelectProtocol") /\ Holds(toClient, "SessionDescription"))
  /\ KeyHere => ~Holds(toServer, "SelectProtocol")
                /\ ~Holds(toClient, "SessionDescription")

SomePlace ==
  ws = "open" /\ handler =>
    \/ rx = "threw" \/ InChain \/ KeyHere
    \/ \E op \in ClientSteps : Holds(toClient, op)
    \/ \E op \in ServerSteps : Holds(toServer, op)

HandshakeInv == StageOK /\ OnePlace /\ SomePlace

SessionInv ==
  OwnerOK /\ ChannelOK /\ SessionOK /\ LoopsOK /\ FlightOK /\ HandshakeInv

-----------------------------------------------------------------------------
(* Type correctness, part by part.                                         *)
LEMMA OwnerStep == OwnerOK /\ [Next]_vars => OwnerOK'
<1> SUFFICES ASSUME OwnerOK, [Next]_vars PROVE OwnerOK'
  OBVIOUS
<1>1. CASE Start
  <2>1. source' = source \/ source' = source + 1
    BY <1>1 DEF Start
  <2>2. conn' = conn + 1 /\ conn < MaxStarts /\ UNCHANGED <<life, cancelled>>
    BY <1>1 DEF Start
  <2>3. conn' \in 0 .. MaxStarts /\ source' \in 1 .. conn' + 1
    BY <2>1, <2>2, VoiceClientAssumption DEF OwnerOK
  <2>4. cancelled' \subseteq 1 .. source'
    BY <2>1, <2>2 DEF OwnerOK
  <2>5. hooked' \in BOOLEAN /\ handler' \in BOOLEAN
    BY <1>1 DEF Start
  <2> QED
    BY <2>2, <2>3, <2>4, <2>5 DEF OwnerOK
<1>2. CASE Stop \/ Destroy \/ DestructorReturns
  <2>1. UNCHANGED <<conn, hooked, handler, source>>
    BY <1>2 DEF Stop, Destroy, DestructorReturns
  <2>2. life' \in {"alive", "destroying", "gone"}
    BY <1>2 DEF Stop, Destroy, DestructorReturns, OwnerOK
  <2>3. cancelled' \subseteq 1 .. source
    <3>1. cancelled' = cancelled \/ cancelled' = cancelled \cup {source}
      BY <1>2 DEF Stop, Destroy, DestructorReturns, Cancel
    <3>2. cancelled \subseteq 1 .. source
      BY DEF OwnerOK
    <3>3. source \in 1 .. conn + 1 /\ conn \in Nat
      BY VoiceClientAssumption DEF OwnerOK
    <3>4. source \in 1 .. source
      BY <3>3
    <3> QED
      BY <3>1, <3>2, <3>4
  <2> QED
    BY <2>1, <2>2, <2>3 DEF OwnerOK
<1>3. CASE ~(Start \/ Stop \/ Destroy \/ DestructorReturns)
  <2>1. UNCHANGED owner
    BY <1>3
    DEF vars, Next, Owner, SetSpeaking, ProcessEvent, ProcessHello, ProcessReady,
        ProcessSessionDescription, ProcessHeartbeatAck, IgnoreMessage, RejectMessage,
        NobodyListens, ReadyChain, UdpConnect, SendDiscovery, ReceiveDiscovery,
        SelectProtocol, ReadyStep, Loop, LoopStep, CancellationSeen, Enter, Compare, Fire,
        BeatSent, BeatRefused, Network, Others, Connected, ConnectFails, Serve, Chat,
        CloseCompletes, RemoteClose, ConnectionOver, DiscoveryAnswered, DatagramLost,
        ReceiveFails
  <2> QED
    BY <2>1 DEF owner, OwnerOK
<1> QED
  BY <1>1, <1>2, <1>3

LEMMA LoopsStep == OwnerOK /\ ChannelOK /\ LoopsOK /\ [Next]_vars => LoopsOK'
<1> SUFFICES ASSUME OwnerOK, ChannelOK, LoopsOK, [Next]_vars PROVE LoopsOK'
  OBVIOUS
<1> DEFINE Pcs == {"idle"} \cup HB!LivePC \cup HB!OverPC
<1>0. {"idle", "scheduled", "checking", "waiting", "bumping", "sent", "ended",
       "mismatch", "unsent"} = Pcs /\ 0 \in HB!Word
  BY VoiceClientAssumption DEF HB!LivePC, HB!OverPC, HB!Word
<1>1. \A n \in HB!Word : HB!Inc(n) \in HB!Word
  BY VoiceClientAssumption DEF HB!Inc, HB!Word
<1> HIDE DEF Pcs
<1>u. source \in Nat /\ source' \in source .. source + 1
  <2>1. CASE Start
    BY <2>1 DEF Start, OwnerOK
  <2>2. CASE ~Start
    <3>1. UNCHANGED source
      BY <2>2
      DEF vars, owner, Next, Owner, Stop, Destroy, DestructorReturns, SetSpeaking,
          ProcessEvent, ProcessHello, ProcessReady, ProcessSessionDescription,
          ProcessHeartbeatAck, IgnoreMessage, RejectMessage, NobodyListens, ReadyChain,
          UdpConnect, SendDiscovery, ReceiveDiscovery, SelectProtocol, ReadyStep, Loop,
          LoopStep, CancellationSeen, Enter, Compare, Fire, BeatSent, BeatRefused, Network,
          Others, Connected, ConnectFails, Serve, Chat, CloseCompletes, RemoteClose,
          ConnectionOver, DiscoveryAnswered, DatagramLost, ReceiveFails
    <3> QED
      BY <3>1 DEF OwnerOK
  <2> QED
    BY <2>1, <2>2
<1>2. CASE ProcessHello
  <2>1. token' \in [Loops -> 0 .. source']
    <3>1. token' = [token EXCEPT ![conn] = source]
      BY <1>2 DEF ProcessHello
    <3>2. token \in [Loops -> 0 .. source]
      BY DEF LoopsOK
    <3>3. source \in 0 .. source' /\ (0 .. source) \subseteq (0 .. source')
      BY <1>u
    <3> QED
      BY <3>1, <3>2, <3>3
  <2>2. pc' \in [Loops -> Pcs]
    BY <1>0, <1>2 DEF ProcessHello, LoopsOK, Pcs
  <2>3. overlapped' \in BOOLEAN
    BY <1>2 DEF ProcessHello
  <2>4. UNCHANGED <<nonce, reg, missed>>
    BY <1>2 DEF ProcessHello
  <2> QED
    BY <2>1, <2>2, <2>3, <2>4 DEF LoopsOK, Pcs
<1>3. ASSUME NEW l \in Loops, Loop(l) PROVE LoopsOK'
  <2>1. token' = token \/ token' = [token EXCEPT ![l] = 0]
    BY <1>3
    DEF Loop, CancellationSeen, Enter, Compare, Fire, BeatSent, BeatRefused
  <2>2. token' \in [Loops -> 0 .. source']
    BY <1>u, <2>1 DEF LoopsOK
  <2>3. \E p \in Pcs : pc' = [pc EXCEPT ![l] = p]
    <3>1. \E p \in {"scheduled", "checking", "waiting", "bumping", "sent", "ended",
                    "mismatch", "unsent"} : pc' = [pc EXCEPT ![l] = p]
      BY <1>3
      DEF Loop, CancellationSeen, Enter, Compare, Fire, BeatSent, BeatRefused,
          HB!CancellationSeen, HB!Enter, HB!Compare, HB!Fire, HB!Goto
    <3> QED
      BY <1>0, <3>1
  <2>4. pc' \in [Loops -> Pcs]
    BY <2>3 DEF LoopsOK, Pcs
  <2>5. \E n \in HB!Word : reg' = [reg EXCEPT ![l] = n]
    BY <1>0, <1>3
    DEF Loop, CancellationSeen, Enter, Compare, Fire, BeatSent, BeatRefused,
        HB!CancellationSeen, HB!Enter, HB!Compare, HB!Fire, HB!StoreNonce, LoopsOK
  <2>6. reg' \in [Loops -> HB!Word]
    BY <2>5 DEF LoopsOK
  <2>7. nonce' \in HB!Word
    <3>1. nonce' = nonce \/ nonce' = HB!Inc(reg[l])
      BY <1>3
      DEF Loop, CancellationSeen, Enter, Compare, Fire, BeatSent, BeatRefused,
          HB!CancellationSeen, HB!Enter, HB!Compare, HB!Fire, HB!StoreNonce
    <3> QED
      BY <1>1, <3>1 DEF LoopsOK
  <2>8. missed' \in BOOLEAN /\ UNCHANGED overlapped
    BY <1>3
    DEF Loop, CancellationSeen, Enter, Compare, Fire, BeatSent, BeatRefused,
        HB!CancellationSeen, HB!Enter, HB!Compare, HB!Fire, LoopsOK
  <2> QED
    BY <2>2, <2>4, <2>6, <2>7, <2>8 DEF LoopsOK, Pcs
<1>4. CASE ~ProcessHello /\ ~(\E l \in Loops : Loop(l))
  <2>1. UNCHANGED <<token, nonce, pc, reg, overlapped>> /\ missed' \in BOOLEAN
    BY <1>4
    DEF vars, loops, Next, Owner, Start, Stop, Destroy, DestructorReturns, SetSpeaking,
        ProcessEvent, ProcessReady, ProcessSessionDescription, ProcessHeartbeatAck,
        IgnoreMessage, RejectMessage, NobodyListens, ReadyChain, UdpConnect,
        SendDiscovery, ReceiveDiscovery, SelectProtocol, ReadyStep, Network, Others,
        Connected, ConnectFails, Serve, Chat, CloseCompletes, RemoteClose, ConnectionOver,
        DiscoveryAnswered, DatagramLost, ReceiveFails, LoopsOK
  <2>2. token' \in [Loops -> 0 .. source']
    BY <1>u, <2>1 DEF LoopsOK
  <2> QED
    BY <2>1, <2>2 DEF LoopsOK
<1> QED
  BY <1>2, <1>3, <1>4

LEMMA SessionStep ==
  OwnerOK /\ ChannelOK /\ SessionOK /\ StageOK /\ [Next]_vars => SessionOK'
<1> SUFFICES ASSUME OwnerOK, ChannelOK, SessionOK, StageOK, [Next]_vars PROVE SessionOK'
  OBVIOUS
<1>1. /\ rx' \in {"idle", "threw"} \cup Chain
      /\ udp' \in {"none", "request", "reply", "short"}
  <2>1. CASE ProcessHello \/ ProcessReady \/ RejectMessage
    BY <2>1 DEF ProcessHello, ProcessReady, RejectMessage, SessionOK, Chain
  <2>2. CASE ReadyChain
    BY <2>2
    DEF ReadyChain, UdpConnect, SendDiscovery, ReceiveDiscovery, SelectProtocol, SessionOK,
        Chain
  <2>3. CASE DiscoveryAnswered \/ DatagramLost \/ ReceiveFails
    BY <2>3 DEF DiscoveryAnswered, DatagramLost, ReceiveFails, SessionOK, Chain
  <2>4. CASE ~(\/ ProcessHello \/ ProcessReady \/ RejectMessage \/ ReadyChain
               \/ DiscoveryAnswered \/ DatagramLost \/ ReceiveFails)
    <3>1. UNCHANGED <<rx, udp>>
      BY <2>4
      DEF vars, session, Next, Owner, Start, Stop, Destroy, DestructorReturns, SetSpeaking,
          ProcessEvent, ProcessSessionDescription, ProcessHeartbeatAck, IgnoreMessage,
          NobodyListens, Loop, LoopStep, CancellationSeen, Enter, Compare, Fire, BeatSent,
          BeatRefused, Network, Others, Connected, ConnectFails, Serve, Chat,
          CloseCompletes, RemoteClose, ConnectionOver
    <3> QED
      BY <3>1 DEF SessionOK
  <2> QED
    BY <2>1, <2>2, <2>3, <2>4
<1>2. CASE Start
  BY <1>2, OwnerStep DEF Start, OwnerOK, SessionOK
<1>3. CASE ProcessReady \/ ProcessSessionDescription
  <2>1. UNCHANGED conn
    BY <1>3 DEF ProcessReady, ProcessSessionDescription, owner
  <2>2. conn \in Nat /\ conn \in 1 .. conn
    BY <1>3 DEF ProcessReady, ProcessSessionDescription, Incoming, ChannelOK, Loops
  <2>3. toClient # <<>> /\ Head(toClient).op \in {"Ready", "SessionDescription"}
    BY <1>3 DEF ProcessReady, ProcessSessionDescription, Incoming
  <2>4. /\ Head(toClient) = toClient[1] /\ 1 \in DOMAIN toClient
        /\ Head(toClient).n = conn
    BY <2>3, TailShape DEF ChannelOK
  <2>5. CASE ProcessReady
    BY <1>1, <2>1, <2>2, <2>4, <2>5 DEF ProcessReady, SessionOK
  <2>6. CASE ProcessSessionDescription
    <3>1. Holds(toClient, "SessionDescription")
      BY <2>4, <2>6 DEF ProcessSessionDescription, Incoming, Holds
    <3>2. secretKey' = Append(secretKey, conn) /\ ssrc' = ssrc
      BY <2>4, <2>6 DEF ProcessSessionDescription
    <3>3. ssrc = conn
      BY <3>1 DEF StageOK
    <3>4. /\ secretKey \in Seq(1 .. conn)
          /\ \A i \in 1 .. Len(secretKey) : secretKey[i] <= ssrc
      BY DEF SessionOK
    <3>5. /\ secretKey' \in Seq(1 .. conn)
          /\ \A i \in DOMAIN secretKey' : secretKey'[i] <= ssrc
      BY <2>2, <3>2, <3>3, <3>4
    <3> QED
      BY <1>1, <2>1, <3>2, <3>5 DEF SessionOK
  <2> QED
    BY <1>3, <2>5, <2>6
<1>4. CASE ~(Start \/ ProcessReady \/ ProcessSessionDescription)
  <2>1. UNCHANGED <<conn, ssrc, secretKey>>
    BY <1>4
    DEF vars, owner, session, Next, Owner, Stop, Destroy, DestructorReturns, SetSpeaking,
        ProcessEvent, ProcessHello, ProcessHeartbeatAck, IgnoreMessage, RejectMessage,
        NobodyListens, ReadyChain, UdpConnect, SendDiscovery, ReceiveDiscovery,
        SelectProtocol, ReadyStep, Loop, LoopStep, CancellationSeen, Enter, Compare, Fire,
        BeatSent, BeatRefused, Network, Others, Connected, ConnectFails, Serve, Chat,
        CloseCompletes, RemoteClose, ConnectionOver, DiscoveryAnswered, DatagramLost,
        ReceiveFails
  <2> QED
    BY <1>1, <2>1 DEF SessionOK
<1> QED
  BY <1>2, <1>3, <1>4

-----------------------------------------------------------------------------
(* The channel.                                                            *)
LEMMA MessageOK ==
  ASSUME NEW op \in Opcode, NEW n \in Nat
  PROVE  Message(op, n) \in MessageType /\ Message(op, n).op = op /\ Message(op, n).n = n
  BY DEF Message, MessageType

LEMMA AnswerAppends ==
  ASSUME NEW ms \in Messages, NEW m \in MessageType, conn \in Nat
  PROVE  /\ m.op = "Identify" => ms \o Answer(m) = Append(ms, Message("Ready", conn))
         /\ m.op = "SelectProtocol" =>
              ms \o Answer(m) = Append(ms, Message("SessionDescription", conn))
         /\ m.op = "Heartbeat" =>
              ms \o Answer(m) = Append(ms, Message("HeartbeatAck", m.n))
         /\ m.op \notin {"Identify", "SelectProtocol", "Heartbeat"} => ms \o Answer(m) = ms
<1>1. \A x \in MessageType : ms \o <<x>> = Append(ms, x)
  BY DEF Messages
<1>2. ms \o <<>> = ms
  BY DEF Messages
<1>3. /\ Message("Ready", conn) \in MessageType
      /\ Message("SessionDescription", conn) \in MessageType
      /\ Message("HeartbeatAck", m.n) \in MessageType
  BY MessageOK DEF MessageType, Opcode
<1>4. CASE m.op = "Identify"
  BY <1>1, <1>3, <1>4 DEF Answer
<1>5. CASE m.op = "SelectProtocol"
  BY <1>1, <1>3, <1>5 DEF Answer
<1>6. CASE m.op = "Heartbeat"
  BY <1>1, <1>3, <1>6 DEF Answer
<1>7. CASE m.op \notin {"Identify", "SelectProtocol", "Heartbeat"}
  BY <1>2, <1>7 DEF Answer
<1> QED
  BY <1>4, <1>5, <1>6, <1>7

(* Who puts what on its way to the server.                                 *)
LEMMA ServerSide ==
  ASSUME OwnerOK, ChannelOK, SessionOK, LoopsOK, [Next]_vars
  PROVE  \/ UNCHANGED toServer
         \/ toServer # <<>> /\ toServer' = Tail(toServer) /\ UNCHANGED ws
         \/ toServer' = <<>>
         \/ \E m \in MessageType :
              toServer' = Append(toServer, m) /\ ws = "open" /\ UNCHANGED ws
<1>0. ssrc \in Nat /\ 0 \in Nat
  BY DEF OwnerOK, SessionOK
<1>1. CASE SetSpeaking
  BY <1>0, <1>1, MessageOK DEF SetSpeaking, SendOpcode, Opcode
<1>2. CASE ProcessHello
  BY <1>0, <1>2, MessageOK DEF ProcessHello, SendOpcode, SendFails, Opcode
<1>3. CASE SelectProtocol
  BY <1>0, <1>3, MessageOK DEF SelectProtocol, SendOpcode, SendFails, Opcode, ReadyStep
<1>4. CASE \E l \in Loops : BeatSent(l)
  <2>1. nonce' \in Nat
    <3>1. LoopsOK'
      BY LoopsStep
    <3> QED
      BY <3>1, VoiceClientAssumption DEF LoopsOK, HB!Word
  <2> QED
    BY <1>4, <2>1, MessageOK DEF BeatSent, SendOpcode, Opcode, LoopStep
<1>5. CASE Serve
  BY <1>5 DEF Serve
<1>6. CASE CloseCompletes \/ RemoteClose
  BY <1>6 DEF CloseCompletes, RemoteClose, ConnectionOver
<1>7. CASE ~(\/ SetSpeaking \/ ProcessHello \/ SelectProtocol \/ Serve \/ CloseCompletes
             \/ RemoteClose \/ \E l \in Loops : BeatSent(l))
  BY <1>7
  DEF vars, channel, Next, Owner, Start, Stop, Destroy, DestructorReturns, ProcessEvent,
      ProcessReady, ProcessSessionDescription, ProcessHeartbeatAck, IgnoreMessage,
      RejectMessage, NobodyListens, ReadyChain, UdpConnect, SendDiscovery,
      ReceiveDiscovery, Loop, CancellationSeen, Enter, Compare, Fire,
      BeatRefused, SendFails, Network, Connected, ConnectFails, Chat, DiscoveryAnswered,
      DatagramLost, ReceiveFails
<1> QED
  BY <1>1, <1>2, <1>3, <1>4, <1>5, <1>6, <1>7

(* Who puts what on its way to the client.                                 *)
LEMMA ClientSide ==
  ASSUME OwnerOK, ChannelOK, [Next]_vars
  PROVE  \/ UNCHANGED toClient
         \/ ws \in {"open", "closing"} /\ toClient # <<>> /\ toClient' = Tail(toClient)
         \/ toClient' = <<>>
         \/ /\ ws = "connecting" /\ ws' = "open"
            /\ toClient' = <<Message("Hello", 0)>>
         \/ /\ ws = "open" /\ toClient = <<>>
            /\ \E op \in Chatter : toClient' = <<Message(op, 0)>>
         \/ toServer # <<>> /\ toClient' = toClient \o Answer(Head(toServer))
<1>1. CASE ProcessEvent
  BY <1>1
  DEF ProcessEvent, ProcessHello, ProcessReady, ProcessSessionDescription,
      ProcessHeartbeatAck, IgnoreMessage, RejectMessage, NobodyListens, Incoming
<1>2. CASE Serve \/ Chat \/ Connected
  BY <1>2 DEF Serve, Chat, Connected
<1>3. CASE CloseCompletes \/ RemoteClose
  BY <1>3 DEF CloseCompletes, RemoteClose, ConnectionOver
<1>4. CASE ~(ProcessEvent \/ Serve \/ Chat \/ Connected \/ CloseCompletes \/ RemoteClose)
  BY <1>4
  DEF vars, channel, Next, Owner, Start, Stop, Destroy, DestructorReturns, SetSpeaking,
      ReadyChain, UdpConnect, SendDiscovery, ReceiveDiscovery, SelectProtocol, ReadyStep,
      Loop, LoopStep, CancellationSeen, Enter, Compare, Fire, BeatSent, BeatRefused,
      Network, ConnectFails, DiscoveryAnswered, DatagramLost, ReceiveFails
<1> QED
  BY <1>1, <1>2, <1>3, <1>4

(* What the websocket does.                                                *)
LEMMA WebsocketSide ==
  ASSUME OwnerOK, ChannelOK, SessionOK, [Next]_vars
  PROVE  \/ UNCHANGED <<ws, conn>> /\ (ws \in {"closed", "connecting"} => UNCHANGED rx)
         \/ Start
         \/ ws = "open" /\ ws' = "closing" /\ UNCHANGED <<conn, rx>>
         \/ ws = "connecting" /\ ws' = "open" /\ UNCHANGED <<conn, rx>>
         \/ ws = "connecting" /\ ws' = "closed" /\ UNCHANGED <<conn, rx, toServer, toClient>>
         \/ /\ rx = "idle" /\ ws' = "closed" /\ UNCHANGED <<conn, rx>>
            /\ toServer' = <<>> /\ toClient' = <<>>
<1>1. CASE Stop \/ Destroy
  BY <1>1 DEF Stop, Destroy, CloseWebsocket, session
<1>2. CASE ProcessEvent
  BY <1>2
  DEF ProcessEvent, ProcessHello, ProcessReady, ProcessSessionDescription,
      ProcessHeartbeatAck, IgnoreMessage, RejectMessage, NobodyListens, Incoming, owner
<1>3. CASE ReadyChain
  BY <1>3
  DEF ReadyChain, UdpConnect, SendDiscovery, ReceiveDiscovery, SelectProtocol, ReadyStep,
      owner, ChannelOK
<1>4. CASE Connected \/ ConnectFails
  BY <1>4 DEF Connected, ConnectFails, Others, owner, session
<1>5. CASE CloseCompletes \/ RemoteClose
  BY <1>5 DEF CloseCompletes, RemoteClose, ConnectionOver, HandlerReturned, owner, session
<1>6. CASE ReceiveFails
  BY <1>6 DEF ReceiveFails, ReadyStep, owner, ChannelOK
<1>7. CASE ~(\/ Start \/ Stop \/ Destroy \/ ProcessEvent \/ ReadyChain \/ Connected
             \/ ConnectFails \/ CloseCompletes \/ RemoteClose \/ ReceiveFails)
  BY <1>7
  DEF vars, channel, owner, session, Next, Owner, DestructorReturns, SetSpeaking, Loop,
      LoopStep, CancellationSeen, Enter, Compare, Fire, BeatSent, BeatRefused, Network,
      Serve, Chat, DiscoveryAnswered, DatagramLost, Others
<1> QED
  BY <1>1, <1>2, <1>3, <1>4, <1>5, <1>6, <1>7

LEMMA ChannelStep ==
  OwnerOK /\ ChannelOK /\ SessionOK /\ LoopsOK /\ [Next]_vars => ChannelOK'
<1> SUFFICES ASSUME OwnerOK, ChannelOK, SessionOK, LoopsOK, [Next]_vars PROVE ChannelOK'
  OBVIOUS
<1>1. conn \in Nat /\ conn' \in 0 .. MaxStarts /\ MaxStarts \in Nat
  BY OwnerStep, VoiceClientAssumption DEF OwnerOK
<1>2. toServer' \in Messages
  <2>1. ASSUME toServer # <<>>, toServer' = Tail(toServer) PROVE toServer' \in Messages
    BY <2>1, TailShape DEF ChannelOK
  <2>2. ASSUME NEW m \in MessageType, toServer' = Append(toServer, m)
        PROVE  toServer' \in Messages
    BY <2>2 DEF ChannelOK, Messages
  <2>3. <<>> \in Messages
    BY DEF Messages
  <2> QED
    BY <2>1, <2>2, <2>3, ServerSide DEF ChannelOK
<1> DEFINE Numbered(ms) == \A i \in DOMAIN ms :
             ms[i].op \in {"Ready", "SessionDescription"} => ms[i].n = conn
<1>3. toClient' \in Messages /\ Numbered(toClient')
  <2>1. toClient \in Messages /\ Numbered(toClient)
    BY DEF ChannelOK
  <2>2. ASSUME toClient # <<>>, toClient' = Tail(toClient)
        PROVE  toClient' \in Messages /\ Numbered(toClient')
    BY <2>1, <2>2, TailShape
  <2>3. ASSUME toClient' = <<>> PROVE toClient' \in Messages /\ Numbered(toClient')
    BY <2>3 DEF Messages
  <2>4. ASSUME NEW op \in {"Hello"} \cup Chatter, toClient' = <<Message(op, 0)>>
        PROVE  toClient' \in Messages /\ Numbered(toClient')
    <3>1. op \in Opcode /\ op \notin {"Ready", "SessionDescription"}
      BY VoiceClientAssumption DEF Opcode
    <3>2. Message(op, 0) \in MessageType /\ Message(op, 0).op = op
      BY <3>1, MessageOK
    <3> QED
      BY <2>4, <3>1, <3>2 DEF Messages
  <2>5. ASSUME toServer # <<>>, toClient' = toClient \o Answer(Head(toServer))
        PROVE  toClient' \in Messages /\ Numbered(toClient')
    <3>1. Head(toServer) \in MessageType /\ Head(toServer).n \in Nat
      BY <2>5, TailShape DEF ChannelOK, MessageType
    <3>2. ASSUME NEW m \in MessageType, toClient' = Append(toClient, m),
                 m.op \in {"Ready", "SessionDescription"} => m.n = conn
          PROVE  toClient' \in Messages /\ Numbered(toClient')
      <4>1. toClient \in Seq(MessageType)
        BY <2>1 DEF Messages
      <4> QED
        BY <2>1, <3>2, <4>1 DEF Messages
    <3>3. /\ Message("Ready", conn) \in MessageType
          /\ Message("Ready", conn).n = conn
          /\ Message("SessionDescription", conn) \in MessageType
          /\ Message("SessionDescription", conn).n = conn
          /\ Message("HeartbeatAck", Head(toServer).n) \in MessageType
          /\ Message("HeartbeatAck", Head(toServer).n).op = "HeartbeatAck"
      BY <1>1, <3>1, MessageOK DEF Opcode
    <3> QED
      BY <1>1, <2>1, <2>5, <3>1, <3>2, <3>3, AnswerAppends
  <2> QED
    BY <2>1, <2>2, <2>3, <2>4, <2>5, ClientSide
<1> HIDE DEF Numbered
<1>4. CASE Start
  <2>1. /\ ws' = "connecting" /\ conn' = conn + 1 /\ conn < MaxStarts
        /\ UNCHANGED <<toServer, toClient, rx>> /\ ws = "closed"
    BY <1>4 DEF Start
  <2>2. toServer = <<>> /\ toClient = <<>> /\ rx = "idle"
    BY <2>1 DEF ChannelOK
  <2>3. conn' \in Loops
    BY <1>1, <2>1 DEF Loops
  <2> QED
    BY <1>2, <1>3, <2>1, <2>2, <2>3 DEF ChannelOK
<1>5. CASE UNCHANGED conn
  <2>1. ws' \in {"closed", "connecting", "open", "closing"}
        /\ (ws' # "closed" => ws # "closed" \/ Start)
    BY WebsocketSide DEF ChannelOK, Start
  <2>2. ASSUME ws' \in {"closed", "connecting"}
        PROVE  toServer' = <<>> /\ toClient' = <<>> /\ rx' = "idle"
    <3>1. CASE UNCHANGED ws /\ UNCHANGED rx
      <4>1. toServer = <<>> /\ toClient = <<>> /\ rx = "idle"
        BY <2>2, <3>1 DEF ChannelOK
      <4>2. toServer' = <<>>
        BY <2>2, <3>1, <4>1, ServerSide
      <4>3. toClient' = <<>>
        BY <2>2, <3>1, <4>1, ClientSide
      <4> QED
        BY <3>1, <4>1, <4>2, <4>3
    <3>2. CASE ~(UNCHANGED ws /\ UNCHANGED rx)
      BY <1>5, <2>2, <3>2, WebsocketSide DEF Start, ChannelOK
    <3> QED
      BY <3>1, <3>2
  <2>3. ws' # "closed" => conn' \in Loops
    <3>1. ~Start
      BY <1>1, <1>5 DEF Start
    <3> QED
      BY <1>5, <2>1, <3>1 DEF ChannelOK
  <2> QED
    BY <1>2, <1>3, <1>5, <2>1, <2>2, <2>3 DEF ChannelOK, Numbered
<1> QED
  BY <1>4, <1>5, WebsocketSide

-----------------------------------------------------------------------------
(* The heartbeats under way.                                               *)
LEMMA SplitSequence ==
  ASSUME NEW S, NEW f \in Seq(S), NEW g \in Seq(S)
  PROVE  /\ f \o g \in Seq(S)
         /\ \A x \in S : f \o Append(g, x) = Append(f \o g, x)
         /\ f # <<>> => /\ f \o g # <<>> /\ Head(f \o g) = Head(f)
                        /\ Tail(f) \in Seq(S) /\ Tail(f \o g) = Tail(f) \o g
         /\ g # <<>> => /\ Head(g) \in S /\ Tail(g) \in Seq(S)
                        /\ Append(f, Head(g)) \o Tail(g) = f \o g
<1>1. f \o g \in Seq(S)
  OBVIOUS
<1>2. ASSUME NEW x \in S PROVE f \o Append(g, x) = Append(f \o g, x)
  OBVIOUS
<1>3. ASSUME f # <<>>
      PROVE  /\ f \o g # <<>> /\ Head(f \o g) = Head(f)
             /\ Tail(f) \in Seq(S) /\ Tail(f \o g) = Tail(f) \o g
  <2>1. f \o g # <<>> /\ Head(f \o g) = Head(f) /\ Tail(f) \in Seq(S)
    BY <1>3
  <2>2. /\ Tail(f \o g) \in Seq(S) /\ Tail(f) \o g \in Seq(S)
        /\ Len(Tail(f \o g)) = Len(Tail(f) \o g)
        /\ \A i \in 1 .. Len(Tail(f \o g)) : Tail(f \o g)[i] = (Tail(f) \o g)[i]
    BY <1>3, <2>1
  <2>3. Tail(f \o g) = Tail(f) \o g
    BY <2>2, SeqEqual
  <2> QED
    BY <2>1, <2>3
<1>4. ASSUME g # <<>>
      PROVE  /\ Head(g) \in S /\ Tail(g) \in Seq(S)
             /\ Append(f, Head(g)) \o Tail(g) = f \o g
  <2>1. Head(g) \in S /\ Tail(g) \in Seq(S)
    BY <1>4
  <2> DEFINE h == Append(f, Head(g)) \o Tail(g)
  <2>2. /\ h \in Seq(S) /\ f \o g \in Seq(S) /\ Len(h) = Len(f \o g)
        /\ \A i \in 1 .. Len(h) : h[i] = (f \o g)[i]
    BY <1>4, <2>1
  <2>3. h = f \o g
    BY <2>2, SeqEqual
  <2> QED
    BY <2>1, <2>3
<1> QED
  BY <1>1, <1>2, <1>3, <1>4

LEMMA QuietLoops ==
  ASSUME OwnerOK, ChannelOK, LoopsOK, FlightOK, [Next]_vars
  PROVE  Quiet'
<1> SUFFICES ASSUME ~handler' PROVE flight' = <<>> /\ \A l \in Loops : pc'[l] = "idle"
  BY DEF Quiet
<1>1. ~handler
  <2>1. CASE Start
    BY <2>1 DEF Start
  <2>2. CASE ~Start
    BY <2>2
    DEF vars, owner, Next, Owner, Stop, Destroy, DestructorReturns, SetSpeaking,
        ProcessEvent, ProcessHello, ProcessReady, ProcessSessionDescription,
        ProcessHeartbeatAck, IgnoreMessage, RejectMessage, NobodyListens, ReadyChain,
        UdpConnect, SendDiscovery, ReceiveDiscovery, SelectProtocol, ReadyStep, Loop,
        LoopStep, CancellationSeen, Enter, Compare, Fire, BeatSent, BeatRefused, Network,
        Others, Connected, ConnectFails, Serve, Chat, CloseCompletes, RemoteClose,
        ConnectionOver, DiscoveryAnswered, DatagramLost, ReceiveFails
  <2> QED
    BY <2>1, <2>2
<1>2. flight = <<>> /\ \A l \in Loops : pc[l] = "idle"
  BY <1>1 DEF FlightOK, Quiet
<1>3. UNCHANGED pc /\ (UNCHANGED flight \/ flight' = <<>>)
  <2>1. ASSUME NEW l \in Loops, Loop(l) PROVE FALSE
    BY <1>2, <2>1
    DEF Loop, CancellationSeen, Enter, Compare, Fire, BeatSent, BeatRefused,
        HB!CancellationSeen, HB!Enter, HB!Compare, HB!Fire
  <2>2. \A op : ~Incoming(op)
    BY <1>1 DEF Incoming
  <2> QED
    BY <2>1, <2>2
    DEF vars, loops, Next, Owner, Start, Stop, Destroy, DestructorReturns, SetSpeaking,
        ProcessEvent, ProcessHello, ProcessReady, ProcessSessionDescription,
        ProcessHeartbeatAck, IgnoreMessage, RejectMessage, NobodyListens, ReadyChain,
        UdpConnect, SendDiscovery, ReceiveDiscovery, SelectProtocol, ReadyStep, Network,
        Others, Connected, ConnectFails, Serve, Chat, CloseCompletes, RemoteClose,
        ConnectionOver, DiscoveryAnswered, DatagramLost, ReceiveFails
<1> QED
  BY <1>2, <1>3

(* What the client takes from the channel is the oldest answer under way,  *)
(* if it is one.                                                           *)
LEMMA FlightTaken ==
  ASSUME ChannelOK, FlightOK, toClient # <<>>, toClient' = Tail(toClient),
         UNCHANGED toServer \/ \E m \in MessageType :
            m.op # "Heartbeat" /\ toServer' = Append(toServer, m),
         Head(toClient).op # "HeartbeatAck" => flight' = flight /\ received' = received,
         Head(toClient).op = "HeartbeatAck" =>
           flight' = Tail(flight) /\ received' = Head(toClient).n
  PROVE  /\ received' \in HB!Word /\ FlightSplit'
         /\ Head(toClient).op = "HeartbeatAck" =>
              flight # <<>> /\ received' = Head(flight)
<1>1. PICK f \in Seq(HB!Word), g \in Seq(HB!Word) :
        /\ flight = f \o g
        /\ Carries(toClient, "HeartbeatAck", f)
        /\ Carries(toServer, "Heartbeat", g)
  BY DEF FlightOK, FlightSplit
<1>2. toClient \in Messages /\ toServer \in Messages
  BY DEF ChannelOK
<1>3. Carries(toServer', "Heartbeat", g)
  <2>1. ASSUME NEW m \in MessageType, m.op # "Heartbeat", toServer' = Append(toServer, m)
        PROVE  Carries(toServer', "Heartbeat", g)
    <3>1. m.n \in Nat /\ g \in Seq(Nat)
      BY VoiceClientAssumption DEF MessageType, HB!Word
    <3> QED
      BY <1>1, <1>2, <2>1, <3>1, AppendCarries
  <2> QED
    BY <1>1, <2>1
<1>4. CASE Head(toClient).op # "HeartbeatAck"
  <2>1. Carries(toClient', "HeartbeatAck", f)
    BY <1>1, <1>2, <1>4, TailCarries
  <2> QED
    BY <1>1, <1>3, <1>4, <2>1 DEF FlightOK, FlightSplit
<1>5. CASE Head(toClient).op = "HeartbeatAck"
  <2>1. /\ f # <<>> /\ Head(f) = Head(toClient).n
        /\ Carries(toClient', "HeartbeatAck", Tail(f))
    BY <1>1, <1>2, <1>5, TailCarries
  <2>2. /\ flight # <<>> /\ Head(flight) = Head(f)
        /\ Tail(f) \in Seq(HB!Word) /\ flight' = Tail(f) \o g
    <3>1. /\ f \o g # <<>> /\ Head(f \o g) = Head(f)
          /\ Tail(f) \in Seq(HB!Word) /\ Tail(f \o g) = Tail(f) \o g
      BY <1>1, <2>1, SplitSequence
    <3>2. flight' = Tail(flight)
      BY <1>5
    <3> QED
      BY <1>1, <3>1, <3>2
  <2>3. Head(f) \in HB!Word
    BY <2>1
  <2> QED
    BY <1>3, <1>5, <2>1, <2>2, <2>3 DEF FlightSplit
<1> QED
  BY <1>4, <1>5

(* A beat becomes its answer.                                              *)
LEMMA FlightAnswered ==
  ASSUME OwnerOK, ChannelOK, FlightOK, Serve
  PROVE  UNCHANGED <<received, flight>> /\ FlightSplit'
<1>1. PICK f \in Seq(HB!Word), g \in Seq(HB!Word) :
        /\ flight = f \o g
        /\ Carries(toClient, "HeartbeatAck", f)
        /\ Carries(toServer, "Heartbeat", g)
  BY DEF FlightOK, FlightSplit
<1>2. /\ toClient \in Messages /\ toServer \in Messages /\ toServer # <<>>
      /\ toServer' = Tail(toServer) /\ toClient' = toClient \o Answer(Head(toServer))
      /\ UNCHANGED <<received, flight>>
  BY DEF ChannelOK, Serve, Others, loops
<1>3. Head(toServer) \in MessageType /\ conn \in Nat /\ Head(toServer).n \in Nat
  BY <1>2, TailShape, VoiceClientAssumption DEF OwnerOK, MessageType
<1>4. CASE Head(toServer).op # "Heartbeat"
  <2>1. Carries(toServer', "Heartbeat", g)
    BY <1>1, <1>2, <1>4, TailCarries
  <2>2. ASSUME NEW op \in Opcode, op # "HeartbeatAck",
               toClient' = Append(toClient, Message(op, conn))
        PROVE  Carries(toClient', "HeartbeatAck", f)
    <3>1. /\ Message(op, conn) \in MessageType /\ Message(op, conn).op = op
          /\ Message(op, conn).n \in Nat
      BY <1>3, MessageOK
    <3>2. f \in Seq(Nat)
      BY VoiceClientAssumption DEF HB!Word
    <3> QED
      BY <1>1, <1>2, <2>2, <3>1, <3>2, AppendCarries
  <2>3. \/ toClient' = toClient
        \/ toClient' = Append(toClient, Message("Ready", conn))
        \/ toClient' = Append(toClient, Message("SessionDescription", conn))
    BY <1>2, <1>3, <1>4, AnswerAppends
  <2>4. {"Ready", "SessionDescription"} \subseteq Opcode \ {"HeartbeatAck"}
    BY DEF Opcode
  <2>5. Carries(toClient', "HeartbeatAck", f)
    BY <1>1, <2>2, <2>3, <2>4
  <2> QED
    BY <1>1, <1>2, <2>1, <2>5 DEF FlightSplit
<1>5. CASE Head(toServer).op = "Heartbeat"
  <2>1. /\ g # <<>> /\ Head(g) = Head(toServer).n
        /\ Carries(toServer', "Heartbeat", Tail(g))
    BY <1>1, <1>2, <1>5, TailCarries
  <2>2. /\ Head(g) \in HB!Word /\ Tail(g) \in Seq(HB!Word)
        /\ Append(f, Head(g)) \o Tail(g) = flight
    BY <1>1, <2>1, SplitSequence
  <2>3. toClient' = Append(toClient, Message("HeartbeatAck", Head(g)))
    BY <1>2, <1>3, <1>5, <2>1, AnswerAppends
  <2>4. /\ Message("HeartbeatAck", Head(g)) \in MessageType
        /\ Message("HeartbeatAck", Head(g)).op = "HeartbeatAck"
        /\ Message("HeartbeatAck", Head(g)).n = Head(g)
    BY <1>3, <2>1, MessageOK DEF Opcode
  <2>5. Carries(toClient', "HeartbeatAck", Append(f, Head(g)))
    BY <1>1, <1>2, <2>2, <2>3, <2>4, AppendCarries
  <2>6. Append(f, Head(g)) \in Seq(HB!Word)
    BY <2>2
  <2> QED
    BY <1>2, <2>1, <2>2, <2>5, <2>6 DEF FlightSplit
<1> QED
  BY <1>4, <1>5

LEMMA FlightStep ==
  OwnerOK /\ ChannelOK /\ SessionOK /\ LoopsOK /\ FlightOK /\ [Next]_vars => FlightOK'
<1> SUFFICES ASSUME OwnerOK, ChannelOK, SessionOK, LoopsOK, FlightOK, [Next]_vars
             PROVE  FlightOK'
  OBVIOUS
<1> SUFFICES received' \in HB!Word /\ FlightSplit'
  BY QuietLoops DEF FlightOK
<1>0. /\ received \in HB!Word /\ FlightSplit
      /\ toClient \in Messages /\ toServer \in Messages
      /\ ssrc \in Nat /\ conn \in Nat
  BY DEF FlightOK, ChannelOK, OwnerOK, SessionOK
<1>w. HB!Word \subseteq Nat /\ LoopsOK'
  BY LoopsStep, VoiceClientAssumption DEF HB!Word
<1>1. CASE ProcessEvent
  <2>1. CASE ProcessHello
    <3>1. /\ toClient # <<>> /\ toClient' = Tail(toClient) /\ Head(toClient).op = "Hello"
          /\ UNCHANGED <<received, flight>>
          /\ \/ UNCHANGED toServer
             \/ toServer' = Append(toServer, Message("Identify", 0))
      BY <2>1 DEF ProcessHello, Incoming, SendOpcode, SendFails
    <3>2. /\ Message("Identify", 0) \in MessageType
          /\ Message("Identify", 0).op # "Heartbeat"
      BY MessageOK DEF Opcode
    <3> QED
      BY <3>1, <3>2, FlightTaken
  <2>2. CASE ProcessHeartbeatAck
    BY <2>2, FlightTaken DEF ProcessHeartbeatAck, Incoming
  <2>3. CASE ProcessReady \/ ProcessSessionDescription \/ IgnoreMessage \/ RejectMessage
    <3>1. /\ toClient # <<>> /\ toClient' = Tail(toClient)
          /\ Head(toClient).op # "HeartbeatAck"
          /\ UNCHANGED <<toServer, received, flight>>
      BY <2>3
      DEF ProcessReady, ProcessSessionDescription, IgnoreMessage, RejectMessage, Incoming,
          Ignored, Unexpected, loops
    <3> QED
      BY <3>1, FlightTaken
  <2>4. CASE NobodyListens
    <3>1. /\ toClient # <<>> /\ toClient' = Tail(toClient) /\ ~handler /\ flight = <<>>
          /\ UNCHANGED <<toServer, received, flight>>
      BY <2>4 DEF NobodyListens, FlightOK, Quiet, loops
    <3>2. PICK f \in Seq(HB!Word), g \in Seq(HB!Word) :
            /\ flight = f \o g /\ Carries(toClient, "HeartbeatAck", f)
            /\ Carries(toServer, "Heartbeat", g)
      BY <1>0 DEF FlightSplit
    <3>3. f = <<>>
      <4>1. f # <<>> => f \o g # <<>>
        BY SplitSequence
      <4> QED
        BY <3>1, <3>2, <4>1
    <3>4. Carries(toClient', "HeartbeatAck", f)
      BY <1>0, <3>1, <3>2, <3>3, TailCarries
    <3> QED
      BY <1>0, <3>1, <3>2, <3>4 DEF FlightSplit
  <2> QED
    BY <1>1, <2>1, <2>2, <2>3, <2>4 DEF ProcessEvent
<1>2. CASE SetSpeaking \/ SelectProtocol
  <2>1. /\ UNCHANGED <<toClient, received, flight>>
        /\ \/ UNCHANGED toServer
           \/ \E op \in {"Speaking", "SelectProtocol"} :
                toServer' = Append(toServer, Message(op, ssrc))
    BY <1>2 DEF SetSpeaking, SelectProtocol, SendOpcode, SendFails, ReadyStep, loops
  <2>2. ASSUME NEW op \in {"Speaking", "SelectProtocol"},
               NEW g \in Seq(HB!Word), Carries(toServer, "Heartbeat", g)
        PROVE  Carries(Append(toServer, Message(op, ssrc)), "Heartbeat", g)
    <3>1. /\ Message(op, ssrc) \in MessageType /\ Message(op, ssrc).op # "Heartbeat"
          /\ Message(op, ssrc).n \in Nat
      BY <1>0, MessageOK DEF Opcode
    <3>2. g \in Seq(Nat)
      BY <1>w, SeqMonotonic
    <3> QED
      BY <1>0, <2>2, <3>1, <3>2, AppendCarries
  <2>3. PICK f \in Seq(HB!Word), g \in Seq(HB!Word) :
          /\ flight = f \o g /\ Carries(toClient, "HeartbeatAck", f)
          /\ Carries(toServer, "Heartbeat", g)
    BY <1>0 DEF FlightSplit
  <2>4. Carries(toServer', "Heartbeat", g)
    BY <2>1, <2>2, <2>3
  <2> QED
    BY <1>0, <2>1, <2>3, <2>4 DEF FlightSplit
<1>3. ASSUME NEW l \in Loops, BeatSent(l) PROVE received' \in HB!Word /\ FlightSplit'
  <2>1. /\ UNCHANGED <<toClient, received>> /\ flight' = Append(flight, nonce')
        /\ toServer' = Append(toServer, Message("Heartbeat", nonce'))
        /\ nonce' \in HB!Word
    BY <1>3, <1>w DEF BeatSent, LoopStep, SendOpcode, LoopsOK
  <2>2. /\ Message("Heartbeat", nonce') \in MessageType
        /\ Message("Heartbeat", nonce').op = "Heartbeat"
        /\ Message("Heartbeat", nonce').n = nonce'
    BY <1>w, <2>1, MessageOK DEF Opcode
  <2>3. PICK f \in Seq(HB!Word), g \in Seq(HB!Word) :
          /\ flight = f \o g /\ Carries(toClient, "HeartbeatAck", f)
          /\ Carries(toServer, "Heartbeat", g)
    BY <1>0 DEF FlightSplit
  <2>4. Carries(toServer', "Heartbeat", Append(g, nonce'))
    BY <1>0, <2>1, <2>2, <2>3, AppendCarries
  <2>5. flight' = f \o Append(g, nonce') /\ Append(g, nonce') \in Seq(HB!Word)
    <3>1. f \o Append(g, nonce') = Append(f \o g, nonce')
      BY <2>1, SplitSequence
    <3> QED
      BY <2>1, <2>3, <3>1
  <2> QED
    BY <1>0, <2>1, <2>3, <2>4, <2>5 DEF FlightSplit
<1>4. CASE Serve
  BY <1>0, <1>4, FlightAnswered
<1>5. CASE Connected \/ Chat
  <2>1. PICK op \in {"Hello"} \cup Chatter :
          /\ toClient = <<>> /\ toClient' = <<Message(op, 0)>>
          /\ UNCHANGED <<toServer, received, flight>>
    BY <1>5 DEF Connected, Chat, Others, loops, ChannelOK
  <2>2. op \in Opcode /\ op # "HeartbeatAck"
    BY VoiceClientAssumption DEF Opcode
  <2>3. /\ Message(op, 0) \in MessageType /\ Message(op, 0).op # "HeartbeatAck"
        /\ Message(op, 0).n \in Nat
    BY <2>2, MessageOK
  <2>4. toClient' = Append(toClient, Message(op, 0))
    BY <2>1
  <2>5. PICK f \in Seq(HB!Word), g \in Seq(HB!Word) :
          /\ flight = f \o g /\ Carries(toClient, "HeartbeatAck", f)
          /\ Carries(toServer, "Heartbeat", g)
    BY <1>0 DEF FlightSplit
  <2>6. f \in Seq(Nat)
    BY <1>w, SeqMonotonic
  <2>7. Carries(toClient', "HeartbeatAck", f)
    BY <1>0, <2>3, <2>4, <2>5, <2>6, AppendCarries
  <2> QED
    BY <1>0, <2>1, <2>5, <2>7 DEF FlightSplit
<1>6. CASE CloseCompletes \/ RemoteClose
  <2>1. toServer' = <<>> /\ toClient' = <<>> /\ flight' = <<>> /\ received' = received
    BY <1>6 DEF CloseCompletes, RemoteClose, ConnectionOver
  <2>2. <<>> \in Seq(HB!Word) /\ <<>> = <<>> \o <<>>
    OBVIOUS
  <2> QED
    BY <1>0, <2>1, <2>2, NothingCarries DEF FlightSplit
<1>7. CASE ~(\/ ProcessEvent \/ SetSpeaking \/ SelectProtocol \/ Serve \/ Connected \/ Chat
             \/ CloseCompletes \/ RemoteClose \/ \E l \in Loops : BeatSent(l))
  <2>1. UNCHANGED <<toServer, toClient, received, flight>>
    BY <1>7
    DEF vars, channel, loops, Next, Owner, Start, Stop, Destroy, DestructorReturns,
        ReadyChain, UdpConnect, SendDiscovery, ReceiveDiscovery, ReadyStep, Loop, LoopStep,
        CancellationSeen, Enter, Compare, Fire, BeatRefused, SendFails, Network,
        ConnectFails, Others, DiscoveryAnswered, DatagramLost, ReceiveFails,
        HB!CancellationSeen, HB!Enter, HB!Compare, HB!Fire
  <2> QED
    BY <1>0, <2>1 DEF FlightSplit
<1> QED
  BY <1>1, <1>2, <1>3, <1>4, <1>5, <1>6, <1>7

-----------------------------------------------------------------------------
(* The handshake.                                                          *)
LEMMA Stages ==
  /\ Greeted # Identified /\ Greeted # Selected /\ Identified # Selected
  /\ Append(Greeted, Message("Identify", 0)) = Identified
  /\ Append(Identified, Message("SelectProtocol", conn)) = Selected
<1>1. Len(Greeted) = 0 /\ Len(Identified) = 1 /\ Len(Selected) = 2
  BY DEF Greeted, Identified, Selected
<1>2. Append(Greeted, Message("Identify", 0)) = Identified
  BY DEF Greeted, Identified
<1>3. Append(Identified, Message("SelectProtocol", conn)) = Selected
  <2>1. ASSUME NEW a, NEW b PROVE Append(<<a>>, b) = <<a, b>>
    <3>1. <<a>> \in Seq({a, b}) /\ <<a, b>> \in Seq({a, b})
      OBVIOUS
    <3>2. /\ Append(<<a>>, b) \in Seq({a, b}) /\ Len(Append(<<a>>, b)) = Len(<<a, b>>)
          /\ \A i \in 1 .. Len(Append(<<a>>, b)) : Append(<<a>>, b)[i] = <<a, b>>[i]
      BY <3>1
    <3> QED
      BY <3>1, <3>2, SeqEqual
  <2> QED
    BY <2>1 DEF Identified, Selected
<1> QED
  BY <1>1, <1>2, <1>3

LEMMA SendEffect ==
  ASSUME ChannelOK, NEW op \in Opcode, NEW n \in Nat, SendOpcode(op, n)
  PROVE  /\ \A o : Holds(toServer', o) <=> Holds(toServer, o) \/ o = op
         /\ \A o : Once(toServer, o) /\ ~(o = op /\ Holds(toServer, o)) => Once(toServer', o)
<1>1. /\ toServer \in Messages /\ Message(op, n) \in MessageType
      /\ Message(op, n).op = op /\ toServer' = Append(toServer, Message(op, n))
  BY MessageOK DEF ChannelOK, SendOpcode
<1> QED
  <2>1. \A o : Holds(toServer', o) <=> Holds(toServer, o) \/ o = op
    BY <1>1, AppendHolds
  <2>2. ASSUME NEW o, Once(toServer, o), ~(o = op /\ Holds(toServer, o))
        PROVE  Once(toServer', o)
    <3>1. Holds(toServer, o) => op # o
      BY <2>2
    <3> QED
      BY <1>1, <2>2, <3>1, AppendOnce
  <2> QED
    BY <2>1, <2>2

LEMMA TakeEffect ==
  ASSUME ChannelOK, toClient # <<>>, toClient' = Tail(toClient)
  PROVE  /\ \A o : Holds(toClient, o) <=> Head(toClient).op = o \/ Holds(toClient', o)
         /\ \A o : Once(toClient, o) => Once(toClient', o)
         /\ \A o : Once(toClient, o) /\ Head(toClient).op = o => ~Holds(toClient', o)
  BY TailHolds DEF ChannelOK

AnswerOp(op) ==
  CASE op = "Identify"       -> "Ready"
    [] op = "SelectProtocol" -> "SessionDescription"
    [] op = "Heartbeat"      -> "HeartbeatAck"
    [] OTHER                 -> "Nothing"

LEMMA ServeEffect ==
  ASSUME OwnerOK, ChannelOK, Serve
  PROVE  \E op :
    /\ \A o : Holds(toServer, o) <=> op = o \/ Holds(toServer', o)
    /\ \A o : Once(toServer, o) => Once(toServer', o)
    /\ \A o : Once(toServer, o) /\ op = o => ~Holds(toServer', o)
    /\ \A o \in Opcode : Holds(toClient', o) <=> Holds(toClient, o) \/ o = AnswerOp(op)
    /\ \A o : Once(toClient, o) /\ ~(o = AnswerOp(op) /\ Holds(toClient, o)) =>
               Once(toClient', o)
<1> DEFINE m == Head(toServer)
<1>1. /\ toClient \in Messages /\ toServer \in Messages /\ toServer # <<>>
      /\ toServer' = Tail(toServer) /\ toClient' = toClient \o Answer(m)
  BY DEF ChannelOK, Serve
<1>2. m \in MessageType /\ conn \in Nat /\ m.n \in Nat
  BY <1>1, TailShape, VoiceClientAssumption DEF OwnerOK, MessageType
<1> HIDE DEF m
<1>3. /\ \A o : Holds(toServer, o) <=> m.op = o \/ Holds(toServer', o)
      /\ \A o : Once(toServer, o) => Once(toServer', o)
      /\ \A o : Once(toServer, o) /\ m.op = o => ~Holds(toServer', o)
  BY <1>1, TailHolds DEF m
<1>4. ASSUME NEW x \in MessageType, toClient' = Append(toClient, x), x.op = AnswerOp(m.op)
      PROVE  /\ \A o : Holds(toClient', o) <=> Holds(toClient, o) \/ o = AnswerOp(m.op)
             /\ \A o : Once(toClient, o) /\ ~(o = AnswerOp(m.op) /\ Holds(toClient, o)) =>
                        Once(toClient', o)
  BY <1>1, <1>4, AppendHolds, AppendOnce
<1>5. \/ \E x \in MessageType : toClient' = Append(toClient, x) /\ x.op = AnswerOp(m.op)
      \/ toClient' = toClient /\ AnswerOp(m.op) = "Nothing"
  <2>1. /\ Message("Ready", conn) \in MessageType
        /\ Message("Ready", conn).op = "Ready"
        /\ Message("SessionDescription", conn) \in MessageType
        /\ Message("SessionDescription", conn).op = "SessionDescription"
        /\ Message("HeartbeatAck", m.n) \in MessageType
        /\ Message("HeartbeatAck", m.n).op = "HeartbeatAck"
    BY <1>2, MessageOK DEF Opcode
  <2> QED
    BY <1>1, <1>2, <2>1, AnswerAppends DEF AnswerOp
<1>6. "Nothing" \notin Opcode
  BY DEF Opcode
<1>7. /\ \A o \in Opcode : Holds(toClient', o) <=> Holds(toClient, o) \/ o = AnswerOp(m.op)
      /\ \A o : Once(toClient, o) /\ ~(o = AnswerOp(m.op) /\ Holds(toClient, o)) =>
                 Once(toClient', o)
  BY <1>4, <1>5, <1>6
<1> QED
  BY <1>3, <1>7

(* Steps that leave the handshake where it is, or end the session.         *)
LEMMA HandshakeKept ==
  ASSUME HandshakeInv, UNCHANGED <<conn, shaken, ssrc, secretKey, handler>>,
         ws' = "connecting" => ws = "connecting",
         ws' = "open" => ws = "open",
         InChain' => InChain,
         ws' = "open" /\ handler /\ (InChain \/ rx = "threw") => InChain' \/ rx' = "threw",
         \A op \in ClientSteps :
           /\ Holds(toClient', op) => Holds(toClient, op)
           /\ Once(toClient, op) => Once(toClient', op)
           /\ ws' = "open" /\ handler /\ Holds(toClient, op) => Holds(toClient', op),
         \A op \in ServerSteps :
           /\ Holds(toServer', op) => Holds(toServer, op)
           /\ Once(toServer, op) => Once(toServer', op)
           /\ ws' = "open" /\ handler /\ Holds(toServer, op) => Holds(toServer', op)
  PROVE  HandshakeInv'
<1>1. Selected' = Selected /\ KeyHere' = KeyHere /\ Identified' = Identified
      /\ Greeted' = Greeted
  BY DEF Selected, KeyHere, Identified, Greeted
<1>2. StageOK'
  <2>1. /\ Holds(toClient', "Hello") => Holds(toClient, "Hello")
        /\ Holds(toClient', "Ready") => Holds(toClient, "Ready")
        /\ Holds(toClient', "SessionDescription") => Holds(toClient, "SessionDescription")
        /\ Holds(toServer', "Identify") => Holds(toServer, "Identify")
        /\ Holds(toServer', "SelectProtocol") => Holds(toServer, "SelectProtocol")
    BY DEF ClientSteps, ServerSteps
  <2> QED
    BY <1>1, <2>1 DEF HandshakeInv, StageOK
<1>3. OnePlace'
  BY <1>1 DEF HandshakeInv, OnePlace, ClientSteps, ServerSteps
<1>4. SomePlace'
  BY <1>1 DEF HandshakeInv, SomePlace
<1> QED
  BY <1>2, <1>3, <1>4 DEF HandshakeInv

(* A session starts, and its connection is made.                           *)
LEMMA HandshakeStarts ==
  ASSUME OwnerOK, ChannelOK, SessionOK, HandshakeInv, Start \/ Connected
  PROVE  HandshakeInv'
<1>0. conn \in Nat /\ secretKey \in Seq(1 .. conn)
  BY VoiceClientAssumption DEF OwnerOK, SessionOK
<1>1. CASE Start
  <2>1. /\ conn' = conn + 1 /\ shaken' = Greeted /\ ws' = "connecting" /\ ws = "closed"
        /\ UNCHANGED <<toServer, toClient, rx, secretKey>>
    BY <1>1 DEF Start, Greeted
  <2>2. toServer' = <<>> /\ toClient' = <<>> /\ rx' = "idle"
    BY <2>1 DEF ChannelOK
  <2>3. ~InChain' /\ ~KeyHere'
    <3>1. \A i \in 1 .. Len(secretKey) : secretKey[i] # conn + 1
      BY <1>0
    <3> QED
      BY <2>1, <2>2, <3>1 DEF InChain, Chain, KeyHere, Contains
  <2>4. \A op : /\ ~Holds(toServer', op) /\ ~Holds(toClient', op)
                /\ Once(toServer', op) /\ Once(toClient', op)
    BY <2>2, NothingCarries
  <2>5. StageOK'
    <3>1. shaken' # Selected' /\ shaken' = Greeted'
      BY <2>1 DEF Greeted, Selected
    <3> QED
      BY <2>3, <2>4, <3>1 DEF StageOK
  <2>6. OnePlace'
    BY <2>3, <2>4 DEF OnePlace
  <2>7. SomePlace'
    BY <2>1 DEF SomePlace
  <2> QED
    BY <2>5, <2>6, <2>7 DEF HandshakeInv
<1>2. CASE Connected
  <2>1. /\ ws = "connecting" /\ ws' = "open" /\ toClient' = <<Message("Hello", 0)>>
        /\ UNCHANGED <<conn, shaken, ssrc, secretKey, rx, handler, toServer>>
    BY <1>2 DEF Connected, Others, owner, session
  <2>2. shaken = Greeted /\ toServer = <<>> /\ rx = "idle"
    BY <2>1 DEF ChannelOK, HandshakeInv, StageOK
  <2>3. shaken # Identified /\ shaken # Selected
    BY <2>2, Stages
  <2>4. ~InChain' /\ ~KeyHere'
    <3>1. ~InChain /\ ~KeyHere
      BY <2>3 DEF HandshakeInv, StageOK
    <3> QED
      BY <2>1, <3>1 DEF InChain, KeyHere
  <2>5. /\ \A op : ~Holds(toServer', op) /\ Once(toServer', op)
        /\ \A op : Holds(toClient', op) <=> op = "Hello"
        /\ \A op : Once(toClient', op)
    <3>1. Message("Hello", 0) \in MessageType /\ Message("Hello", 0).op = "Hello"
          /\ <<>> \in Messages /\ toClient' = Append(<<>>, Message("Hello", 0))
      BY <2>1, MessageOK DEF Opcode, Messages
    <3>2. \A op : ~Holds(<<>>, op) /\ Once(<<>>, op)
      BY NothingCarries
    <3>3. \A op : Holds(toClient', op) <=> op = "Hello"
      BY <3>1, <3>2, AppendHolds
    <3>4. \A op : Once(toClient', op)
      BY <3>1, <3>2, AppendOnce
    <3> QED
      BY <2>1, <2>2, <3>2, <3>3, <3>4
  <2>6. StageOK'
    <3>1. shaken' # Selected' /\ shaken' = Greeted'
      BY <2>1, <2>2, <2>3 DEF Greeted, Selected
    <3> QED
      BY <2>4, <2>5, <3>1 DEF StageOK
  <2>7. OnePlace'
    BY <2>4, <2>5 DEF OnePlace, ClientSteps, ServerSteps
  <2>8. SomePlace'
    BY <2>5 DEF SomePlace, ClientSteps
  <2> QED
    BY <2>6, <2>7, <2>8 DEF HandshakeInv
<1> QED
  BY <1>1, <1>2

(* Hello is answered with Identify.                                        *)
LEMMA HandshakeHello ==
  ASSUME OwnerOK, ChannelOK, SessionOK, HandshakeInv, ProcessHello
  PROVE  HandshakeInv'
<1>1. /\ UNCHANGED <<conn, ssrc, secretKey, handler, ws>>
      /\ Incoming("Hello") /\ toClient # <<>> /\ toClient' = Tail(toClient)
      /\ Head(toClient).op = "Hello" /\ rx = "idle" /\ ws \in {"open", "closing"}
  BY DEF ProcessHello, Incoming, HandlerReturned, owner
<1>2. /\ \A o : Holds(toClient, o) <=> o = "Hello" \/ Holds(toClient', o)
      /\ \A o : Once(toClient, o) => Once(toClient', o)
      /\ \A o : Once(toClient, o) /\ o = "Hello" => ~Holds(toClient', o)
  BY <1>1, TakeEffect
<1>3. shaken = Greeted /\ shaken # Identified /\ shaken # Selected
  BY <1>2, Stages DEF HandshakeInv, StageOK
<1>4. /\ ~Holds(toServer, "Identify") /\ ~Holds(toServer, "SelectProtocol")
      /\ ~Holds(toClient, "Ready") /\ ~Holds(toClient, "SessionDescription")
      /\ ~InChain /\ ~KeyHere
  BY <1>3 DEF HandshakeInv, StageOK
<1>5. ~Holds(toClient', "Hello")
  BY <1>2 DEF HandshakeInv, OnePlace, ClientSteps
<1>6. \A o \in ClientSteps : ~Holds(toClient', o) /\ Once(toClient', o)
  BY <1>2, <1>4, <1>5 DEF HandshakeInv, OnePlace, ClientSteps
<1>7. KeyHere' = KeyHere /\ Selected' = Selected /\ Identified' = Identified
      /\ Greeted' = Greeted
  BY <1>1 DEF KeyHere, Selected, Identified, Greeted
<1>8. CASE SendOpcode("Identify", 0) /\ shaken' = Append(shaken, Message("Identify", 0))
           /\ UNCHANGED rx
  <2>1. /\ \A o : Holds(toServer', o) <=> Holds(toServer, o) \/ o = "Identify"
        /\ \A o : Once(toServer, o) /\ ~(o = "Identify" /\ Holds(toServer, o)) =>
                   Once(toServer', o)
    BY <1>8, SendEffect DEF Opcode
  <2>2. shaken' = Identified
    BY <1>3, <1>8, Stages
  <2>3. ~InChain'
    BY <1>4, <1>8 DEF InChain
  <2>4. StageOK'
    BY <1>1, <1>4, <1>6, <1>7, <2>1, <2>2, <2>3, Stages DEF StageOK, ClientSteps
  <2>5. OnePlace'
    <3>1. \A o \in ServerSteps : Once(toServer', o)
      BY <1>4, <2>1 DEF HandshakeInv, OnePlace, ServerSteps
    <3> QED
      BY <1>4, <1>6, <1>7, <2>1, <2>3, <3>1 DEF OnePlace, ClientSteps
  <2>6. SomePlace'
    BY <2>1 DEF SomePlace, ServerSteps
  <2> QED
    BY <2>4, <2>5, <2>6 DEF HandshakeInv
<1>9. CASE SendFails /\ rx' = "threw" /\ UNCHANGED shaken
  <2>1. ~InChain' /\ UNCHANGED toServer /\ ws' # "open"
    BY <1>1, <1>9 DEF InChain, Chain, SendFails
  <2> QED
    BY <1>1, <1>2, <1>9, <2>1, HandshakeKept
<1> QED
  BY <1>8, <1>9 DEF ProcessHello

(* Ready starts the discovery.                                             *)
LEMMA HandshakeReady ==
  ASSUME OwnerOK, ChannelOK, SessionOK, HandshakeInv, ProcessReady
  PROVE  HandshakeInv'
<1>1. /\ UNCHANGED <<conn, shaken, secretKey, handler, ws, toServer>>
      /\ toClient # <<>> /\ toClient' = Tail(toClient)
      /\ Head(toClient).op = "Ready" /\ rx = "idle" /\ ws \in {"open", "closing"}
      /\ ssrc' = Head(toClient).n /\ rx' \in {"connecting", "threw"}
  BY DEF ProcessReady, Incoming, HandlerReturned, owner
<1>2. /\ \A o : Holds(toClient, o) <=> o = "Ready" \/ Holds(toClient', o)
      /\ \A o : Once(toClient, o) => Once(toClient', o)
      /\ \A o : Once(toClient, o) /\ o = "Ready" => ~Holds(toClient', o)
  BY <1>1, TakeEffect
<1>3. shaken = Identified /\ shaken # Greeted /\ shaken # Selected
  BY <1>2, Stages DEF HandshakeInv, StageOK
<1>4. /\ ~Holds(toServer, "Identify") /\ ~Holds(toServer, "SelectProtocol")
      /\ ~Holds(toClient, "Hello") /\ ~Holds(toClient, "SessionDescription")
      /\ ~KeyHere
  BY <1>2, <1>3 DEF HandshakeInv, StageOK, OnePlace
<1>5. \A o \in ClientSteps : ~Holds(toClient', o) /\ Once(toClient', o)
  BY <1>2, <1>4 DEF HandshakeInv, OnePlace, ClientSteps
<1>6. ssrc' = conn'
  <2>1. Head(toClient) = toClient[1] /\ 1 \in DOMAIN toClient
    BY <1>1, TailShape DEF ChannelOK
  <2> QED
    BY <1>1, <2>1 DEF ChannelOK
<1>7. KeyHere' = KeyHere /\ Selected' = Selected /\ Identified' = Identified
      /\ Greeted' = Greeted
  BY <1>1 DEF KeyHere, Selected, Identified, Greeted
<1>8. StageOK'
  BY <1>1, <1>3, <1>4, <1>5, <1>6, <1>7 DEF StageOK, ClientSteps
<1>9. OnePlace'
  BY <1>1, <1>4, <1>5, <1>7 DEF HandshakeInv, OnePlace, ClientSteps
<1>10. SomePlace'
  BY <1>1 DEF SomePlace, InChain, Chain
<1> QED
  BY <1>8, <1>9, <1>10 DEF HandshakeInv

(* The discovery ends in SelectProtocol.                                   *)
LEMMA HandshakeSelect ==
  ASSUME OwnerOK, ChannelOK, SessionOK, HandshakeInv, SelectProtocol
  PROVE  HandshakeInv'
<1>1. /\ UNCHANGED <<conn, ssrc, secretKey, handler, ws, toClient>>
      /\ rx = "selecting" /\ rx' \in {"idle", "threw"}
  BY DEF SelectProtocol, ReadyStep, owner
<1>2. InChain /\ ~InChain'
  BY <1>1 DEF InChain, Chain
<1>3. /\ shaken = Identified /\ shaken # Greeted /\ shaken # Selected /\ ssrc = conn
      /\ ~KeyHere
  BY <1>2, Stages DEF HandshakeInv, StageOK
<1>4. /\ ~Holds(toServer, "Identify") /\ ~Holds(toServer, "SelectProtocol")
      /\ \A o \in ClientSteps : ~Holds(toClient, o) /\ Once(toClient, o)
  BY <1>2, <1>3 DEF HandshakeInv, StageOK, OnePlace, ClientSteps
<1>7. KeyHere' = KeyHere /\ Selected' = Selected /\ Identified' = Identified
      /\ Greeted' = Greeted
  BY <1>1 DEF KeyHere, Selected, Identified, Greeted
<1>8. CASE SendOpcode("SelectProtocol", ssrc) /\ rx' = "idle"
           /\ shaken' = Append(shaken, Message("SelectProtocol", ssrc))
  <2>1. /\ \A o : Holds(toServer', o) <=> Holds(toServer, o) \/ o = "SelectProtocol"
        /\ \A o : Once(toServer, o) /\ ~(o = "SelectProtocol" /\ Holds(toServer, o)) =>
                   Once(toServer', o)
    <3>1. ssrc \in Nat
      BY DEF OwnerOK, SessionOK
    <3> QED
      BY <1>8, <3>1, SendEffect DEF Opcode
  <2>2. shaken' = Selected
    BY <1>3, <1>8, Stages
  <2>4. StageOK'
    <3>1. /\ ~Holds(toServer', "Identify") /\ ws' # "connecting"
          /\ ~Holds(toClient', "Hello") /\ ~Holds(toClient', "Ready")
          /\ ~Holds(toClient', "SessionDescription")
      BY <1>1, <1>4, <1>8, <2>1 DEF ClientSteps, SendOpcode
    <3> QED
      BY <1>1, <1>2, <1>3, <1>7, <2>2, <3>1 DEF StageOK
  <2>5. OnePlace'
    <3>1. \A o \in ServerSteps : Once(toServer', o)
      BY <1>4, <2>1 DEF HandshakeInv, OnePlace, ServerSteps
    <3> QED
      BY <1>1, <1>2, <1>3, <1>4, <1>7, <2>1, <3>1 DEF OnePlace, ClientSteps
  <2>6. SomePlace'
    BY <2>1 DEF SomePlace, ServerSteps
  <2> QED
    BY <2>4, <2>5, <2>6 DEF HandshakeInv
<1>9. CASE SendFails /\ rx' = "threw" /\ UNCHANGED shaken
  BY <1>1, <1>2, <1>9, HandshakeKept DEF SendFails
<1> QED
  BY <1>8, <1>9 DEF SelectProtocol

(* SessionDescription brings the key.                                      *)
LEMMA HandshakeKey ==
  ASSUME OwnerOK, ChannelOK, SessionOK, HandshakeInv, ProcessSessionDescription
  PROVE  HandshakeInv'
<1>1. /\ UNCHANGED <<conn, shaken, ssrc, rx, handler, ws, toServer>>
      /\ toClient # <<>> /\ toClient' = Tail(toClient)
      /\ Head(toClient).op = "SessionDescription" /\ rx = "idle"
      /\ secretKey' = Append(secretKey, Head(toClient).n)
  BY DEF ProcessSessionDescription, Incoming, HandlerReturned, owner
<1>2. /\ \A o : Holds(toClient, o) <=> o = "SessionDescription" \/ Holds(toClient', o)
      /\ \A o : Once(toClient, o) => Once(toClient', o)
      /\ \A o : Once(toClient, o) /\ o = "SessionDescription" => ~Holds(toClient', o)
  BY <1>1, TakeEffect
<1>3. shaken = Selected /\ shaken # Greeted /\ shaken # Identified /\ ssrc = conn
  BY <1>2, Stages DEF HandshakeInv, StageOK
<1>4. /\ ~Holds(toServer, "Identify") /\ ~Holds(toServer, "SelectProtocol")
      /\ ~Holds(toClient, "Hello") /\ ~Holds(toClient, "Ready") /\ ~InChain
  BY <1>2, <1>3 DEF HandshakeInv, StageOK, OnePlace
<1>5. \A o \in ClientSteps : ~Holds(toClient', o) /\ Once(toClient', o)
  BY <1>2, <1>4 DEF HandshakeInv, OnePlace, ClientSteps
<1>6. KeyHere' /\ Last(secretKey') = conn'
  <2>1. Head(toClient) = toClient[1] /\ 1 \in DOMAIN toClient
    BY <1>1, TailShape DEF ChannelOK
  <2>2. secretKey' = Append(secretKey, conn)
    BY <1>1, <2>1 DEF ChannelOK
  <2>3. secretKey \in Seq(Nat) /\ conn \in Nat
    <3>1. conn \in Nat /\ secretKey \in Seq(1 .. conn) /\ 1 .. conn \subseteq Nat
      BY VoiceClientAssumption DEF OwnerOK, SessionOK
    <3> QED
      BY <3>1, SeqMonotonic
  <2>4. /\ Len(secretKey') = Len(secretKey) + 1 /\ Len(secretKey) \in Nat
        /\ secretKey'[Len(secretKey')] = conn
    BY <2>2, <2>3
  <2> QED
    BY <1>1, <2>4 DEF KeyHere, Contains, Last
<1>7. Selected' = Selected /\ Identified' = Identified /\ Greeted' = Greeted
  BY <1>1 DEF Selected, Identified, Greeted
<1>0. ~InChain'
  BY <1>1, <1>4 DEF InChain
<1>8. StageOK'
  BY <1>0, <1>1, <1>3, <1>4, <1>5, <1>6, <1>7 DEF HandshakeInv, StageOK, ClientSteps
<1>9. OnePlace'
  BY <1>0, <1>1, <1>4, <1>5 DEF HandshakeInv, OnePlace, ClientSteps
<1>10. SomePlace'
  BY <1>6 DEF SomePlace
<1> QED
  BY <1>8, <1>9, <1>10 DEF HandshakeInv

(* The server takes a message and answers.                                 *)
LEMMA HandshakeServe ==
  ASSUME OwnerOK, ChannelOK, SessionOK, HandshakeInv, Serve
  PROVE  HandshakeInv'
<1>1. UNCHANGED <<conn, shaken, ssrc, rx, secretKey, handler, ws>>
  BY DEF Serve, Others, owner, session
<1>2. /\ KeyHere' = KeyHere /\ Selected' = Selected /\ Identified' = Identified
      /\ Greeted' = Greeted /\ InChain' = InChain
  BY <1>1 DEF KeyHere, Selected, Identified, Greeted, InChain
<1>3. PICK op :
    /\ \A o : Holds(toServer, o) <=> op = o \/ Holds(toServer', o)
    /\ \A o : Once(toServer, o) => Once(toServer', o)
    /\ \A o : Once(toServer, o) /\ op = o => ~Holds(toServer', o)
    /\ \A o \in Opcode : Holds(toClient', o) <=> Holds(toClient, o) \/ o = AnswerOp(op)
    /\ \A o : Once(toClient, o) /\ ~(o = AnswerOp(op) /\ Holds(toClient, o)) =>
               Once(toClient', o)
  BY ServeEffect
<1>4. ClientSteps \subseteq Opcode
  BY DEF ClientSteps, Opcode
<1>5. CASE op \notin ServerSteps
  <2>1. AnswerOp(op) \notin ClientSteps
    BY <1>5 DEF AnswerOp, ClientSteps, ServerSteps
  <2> QED
    <3>1. \A o \in ClientSteps :
            /\ Holds(toClient', o) <=> Holds(toClient, o)
            /\ Once(toClient, o) => Once(toClient', o)
      BY <1>3, <1>4, <2>1
    <3>2. \A o \in ServerSteps :
            /\ Holds(toServer', o) <=> Holds(toServer, o)
            /\ Once(toServer, o) => Once(toServer', o)
      BY <1>3, <1>5
    <3> QED
      BY <1>1, <1>2, <3>1, <3>2, HandshakeKept
<1>6. CASE op = "Identify"
  <2>1. AnswerOp(op) = "Ready" /\ Holds(toServer, "Identify") /\ ~Holds(toServer', "Identify")
    BY <1>3, <1>6 DEF AnswerOp, HandshakeInv, OnePlace, ServerSteps
  <2>2. /\ shaken = Identified /\ shaken # Greeted /\ shaken # Selected
        /\ ~Holds(toClient, "Ready") /\ ~InChain
    BY <2>1, Stages DEF HandshakeInv, StageOK, OnePlace
  <2>3. /\ ~Holds(toServer, "SelectProtocol") /\ ~Holds(toClient, "SessionDescription")
        /\ ~Holds(toClient, "Hello") /\ ~KeyHere
    BY <2>2 DEF HandshakeInv, StageOK
  <2>4. /\ ~Holds(toServer', "SelectProtocol") /\ ~Holds(toClient', "SessionDescription")
        /\ ~Holds(toClient', "Hello") /\ Holds(toClient', "Ready")
    BY <1>3, <1>4, <2>1, <2>3 DEF ClientSteps
  <2>5. StageOK'
    BY <1>1, <1>2, <2>1, <2>2, <2>3, <2>4 DEF HandshakeInv, StageOK
  <2>6. OnePlace'
    <3>1. \A o \in ClientSteps : Once(toClient', o)
      BY <1>3, <2>1, <2>2 DEF HandshakeInv, OnePlace
    <3>2. \A o \in ServerSteps : Once(toServer', o)
      BY <1>3 DEF HandshakeInv, OnePlace
    <3> QED
      BY <1>2, <2>1, <2>2, <2>3, <2>4, <3>1, <3>2 DEF OnePlace
  <2>7. SomePlace'
    BY <2>4 DEF SomePlace, ClientSteps
  <2> QED
    BY <2>5, <2>6, <2>7 DEF HandshakeInv
<1>7. CASE op = "SelectProtocol"
  <2>1. /\ AnswerOp(op) = "SessionDescription" /\ Holds(toServer, "SelectProtocol")
        /\ ~Holds(toServer', "SelectProtocol")
    BY <1>3, <1>7 DEF AnswerOp, HandshakeInv, OnePlace, ServerSteps
  <2>2. /\ shaken = Selected /\ shaken # Greeted /\ shaken # Identified
        /\ ~Holds(toClient, "SessionDescription") /\ ~KeyHere
    BY <2>1, Stages DEF HandshakeInv, StageOK, OnePlace
  <2>3. /\ ~Holds(toServer, "Identify") /\ ~Holds(toClient, "Ready")
        /\ ~Holds(toClient, "Hello") /\ ~InChain
    BY <2>2 DEF HandshakeInv, StageOK
  <2>4. /\ ~Holds(toServer', "Identify") /\ ~Holds(toClient', "Ready")
        /\ ~Holds(toClient', "Hello") /\ Holds(toClient', "SessionDescription")
    BY <1>3, <1>4, <2>1, <2>3 DEF ClientSteps
  <2>5. StageOK'
    BY <1>1, <1>2, <2>1, <2>2, <2>3, <2>4 DEF HandshakeInv, StageOK
  <2>6. OnePlace'
    <3>1. \A o \in ClientSteps : Once(toClient', o)
      BY <1>3, <2>1, <2>2 DEF HandshakeInv, OnePlace
    <3>2. \A o \in ServerSteps : Once(toServer', o)
      BY <1>3 DEF HandshakeInv, OnePlace
    <3> QED
      BY <1>2, <2>1, <2>2, <2>3, <2>4, <3>1, <3>2 DEF OnePlace
  <2>7. SomePlace'
    BY <2>4 DEF SomePlace, ClientSteps
  <2> QED
    BY <2>5, <2>6, <2>7 DEF HandshakeInv
<1> QED
  BY <1>5, <1>6, <1>7 DEF ServerSteps

LEMMA HandshakeStep ==
  OwnerOK /\ ChannelOK /\ SessionOK /\ LoopsOK /\ HandshakeInv /\ [Next]_vars
    => HandshakeInv'
<1> SUFFICES ASSUME OwnerOK, ChannelOK, SessionOK, LoopsOK, HandshakeInv, [Next]_vars
             PROVE  HandshakeInv'
  OBVIOUS
<1> DEFINE Same == UNCHANGED <<conn, shaken, ssrc, secretKey, handler>>
<1>1. CASE ProcessHeartbeatAck \/ IgnoreMessage \/ RejectMessage \/ NobodyListens
  <2>1. /\ Same /\ UNCHANGED <<toServer, ws>>
        /\ toClient # <<>> /\ toClient' = Tail(toClient)
    BY <1>1
    DEF ProcessHeartbeatAck, IgnoreMessage, RejectMessage, NobodyListens, Incoming, owner,
        session
  <2>o. ~handler \/ Head(toClient).op \notin ClientSteps
    <3>1. CASE NobodyListens
      BY <3>1 DEF NobodyListens
    <3>2. CASE ~NobodyListens
      BY <1>1, <3>2
      DEF ProcessHeartbeatAck, IgnoreMessage, RejectMessage, Incoming, Ignored, Unexpected,
          ClientSteps
    <3> QED
      BY <3>1, <3>2
  <2>2. rx' = rx \/ (rx' = "threw" /\ rx = "idle")
    BY <1>1
    DEF ProcessHeartbeatAck, IgnoreMessage, RejectMessage, NobodyListens, Incoming,
        HandlerReturned, session
  <2>3. /\ InChain' => InChain
        /\ InChain \/ rx = "threw" => InChain' \/ rx' = "threw"
    BY <2>2 DEF InChain, Chain
  <2>4. \A op \in ClientSteps :
          /\ Holds(toClient', op) => Holds(toClient, op)
          /\ Once(toClient, op) => Once(toClient', op)
          /\ ws' = "open" /\ handler /\ Holds(toClient, op) => Holds(toClient', op)
    BY <2>1, <2>o, TakeEffect
  <2> QED
    BY <2>1, <2>3, <2>4, HandshakeKept
<1>2. ASSUME Same, UNCHANGED <<toClient, toServer>>, ws' \in {ws, "closing", "closed"},
             InChain' => InChain, InChain \/ rx = "threw" => InChain' \/ rx' = "threw"
      PROVE  HandshakeInv'
  BY <1>2, HandshakeKept
<1>3. CASE UdpConnect \/ SendDiscovery \/ ReceiveDiscovery \/ ReceiveFails
  <2>1. /\ Same /\ UNCHANGED <<toClient, toServer, ws>>
        /\ rx \in Chain /\ rx' \in Chain \cup {"threw"}
    BY <1>3
    DEF UdpConnect, SendDiscovery, ReceiveDiscovery, ReceiveFails, ReadyStep, owner, Chain
  <2>2. InChain /\ (InChain' \/ rx' = "threw")
    BY <2>1 DEF InChain
  <2> QED
    BY <1>2, <2>1, <2>2
<1>4. CASE Stop \/ Destroy \/ DestructorReturns \/ ConnectFails \/ DiscoveryAnswered
           \/ DatagramLost \/ UNCHANGED vars
  <2>1. Same /\ UNCHANGED <<toClient, toServer, rx>> /\ ws' \in {ws, "closing", "closed"}
    BY <1>4
    DEF Stop, Destroy, DestructorReturns, ConnectFails, DiscoveryAnswered, DatagramLost,
        vars, CloseWebsocket, Others, owner, channel, session
  <2>2. InChain' = InChain
    BY <2>1 DEF InChain
  <2> QED
    BY <1>2, <2>1, <2>2
<1>5. CASE CloseCompletes \/ RemoteClose
  <2>1. /\ Same /\ UNCHANGED rx /\ ws' = "closed"
        /\ toServer' = <<>> /\ toClient' = <<>>
    BY <1>5 DEF CloseCompletes, RemoteClose, ConnectionOver, owner, session
  <2>2. \A op : /\ ~Holds(toServer', op) /\ ~Holds(toClient', op)
                /\ Once(toServer', op) /\ Once(toClient', op)
    BY <2>1, NothingCarries
  <2>3. InChain' = InChain
    BY <2>1 DEF InChain
  <2> QED
    BY <2>1, <2>2, <2>3, HandshakeKept
<1>6. CASE SetSpeaking \/ \E l \in Loops : Loop(l)
  <2>1. Same /\ UNCHANGED <<toClient, ws, rx>>
    BY <1>6
    DEF SetSpeaking, Loop, LoopStep, CancellationSeen, Enter, Compare, Fire, BeatSent,
        BeatRefused, owner, session
  <2>2. InChain' = InChain
    BY <2>1 DEF InChain
  <2>3. \/ UNCHANGED toServer
        \/ \E op \in {"Speaking", "Heartbeat"}, n \in Nat : SendOpcode(op, n)
    <3>1. CASE SetSpeaking
      <4>1. ssrc \in Nat
        BY DEF OwnerOK, SessionOK
      <4> QED
        BY <3>1, <4>1 DEF SetSpeaking
    <3>2. ASSUME NEW l \in Loops, BeatSent(l)
          PROVE  \E op \in {"Speaking", "Heartbeat"}, n \in Nat : SendOpcode(op, n)
      <4>1. LoopsOK'
        BY LoopsStep
      <4>2. nonce' \in Nat
        BY <4>1, VoiceClientAssumption DEF LoopsOK, HB!Word
      <4> QED
        BY <3>2, <4>2 DEF BeatSent
    <3>3. ASSUME NEW l \in Loops, Loop(l), ~BeatSent(l) PROVE UNCHANGED toServer
      BY <3>3
      DEF Loop, LoopStep, CancellationSeen, Enter, Compare, Fire, BeatRefused, SendFails
    <3> QED
      BY <1>6, <3>1, <3>2, <3>3
  <2>4. \A op \in ServerSteps :
          /\ Holds(toServer', op) <=> Holds(toServer, op)
          /\ Once(toServer, op) => Once(toServer', op)
    <3>1. ASSUME NEW op \in {"Speaking", "Heartbeat"}, NEW n \in Nat, SendOpcode(op, n)
          PROVE  \A o \in ServerSteps : /\ Holds(toServer', o) <=> Holds(toServer, o)
                                        /\ Once(toServer, o) => Once(toServer', o)
      <4>1. op \in Opcode /\ op \notin ServerSteps
        BY DEF Opcode, ServerSteps
      <4> QED
        BY <3>1, <4>1, SendEffect
    <3> QED
      BY <2>3, <3>1
  <2> QED
    BY <2>1, <2>2, <2>4, HandshakeKept
<1>7. CASE Chat
  <2>1. Same /\ UNCHANGED <<ws, rx, toServer>> /\ toClient = <<>>
    BY <1>7 DEF Chat, Others, owner, session
  <2>2. InChain' = InChain
    BY <2>1 DEF InChain
  <2>3. PICK op \in Chatter : toClient' = <<Message(op, 0)>>
    BY <1>7 DEF Chat
  <2>4. op \in Opcode /\ op \notin ClientSteps
    BY VoiceClientAssumption DEF Opcode, ClientSteps
  <2>5. /\ <<>> \in Messages /\ Message(op, 0) \in MessageType /\ Message(op, 0).op = op
        /\ toClient' = Append(<<>>, Message(op, 0))
        /\ \A o : ~Holds(<<>>, o) /\ Once(<<>>, o)
    BY <2>3, <2>4, MessageOK, NothingCarries DEF Messages
  <2>6. \A o \in ClientSteps : ~Holds(toClient', o) /\ Once(toClient', o)
    BY <2>4, <2>5, AppendHolds, AppendOnce
  <2>7. \A o : ~Holds(toClient, o)
    BY <2>1, <2>5
  <2> QED
    BY <2>1, <2>2, <2>6, <2>7, HandshakeKept
<1>8. CASE Start \/ Connected
  BY <1>8, HandshakeStarts
<1>9. CASE ProcessHello
  BY <1>9, HandshakeHello
<1>10. CASE ProcessReady
  BY <1>10, HandshakeReady
<1>11. CASE SelectProtocol
  BY <1>11, HandshakeSelect
<1>12. CASE ProcessSessionDescription
  BY <1>12, HandshakeKey
<1>13. CASE Serve
  BY <1>13, HandshakeServe
<1> QED
  BY <1>1, <1>3, <1>4, <1>5, <1>6, <1>7, <1>8, <1>9, <1>10, <1>11, <1>12, <1>13
  DEF Next, Owner, ProcessEvent, ReadyChain, Network

-----------------------------------------------------------------------------
LEMMA SessionInit == Init => SessionInv
<1> SUFFICES ASSUME Init PROVE SessionInv
  OBVIOUS
<1>1. OwnerOK
  <2>1. hooked \in BOOLEAN /\ handler \in BOOLEAN
    BY DEF Init
  <2> QED
    BY <2>1, VoiceClientAssumption DEF Init, OwnerOK
<1>2. ChannelOK
  BY DEF Init, ChannelOK, Messages
<1>3. SessionOK
  BY DEF Init, SessionOK
<1>4. LoopsOK
  <2>1. overlapped \in BOOLEAN /\ missed \in BOOLEAN
    BY DEF Init
  <2>2. 0 \in HB!Word /\ 0 \in 0 .. 1
    BY VoiceClientAssumption DEF HB!Word
  <2>3. /\ token \in [Loops -> 0 .. source] /\ nonce \in HB!Word
        /\ reg \in [Loops -> HB!Word]
        /\ pc \in [Loops -> {"idle"} \cup HB!LivePC \cup HB!OverPC]
    BY <2>2 DEF Init
  <2> QED
    BY <2>1, <2>3 DEF LoopsOK
<1>5. FlightOK
  <2>1. received \in HB!Word
    BY VoiceClientAssumption DEF Init, HB!Word
  <2>2. FlightSplit
    <3>1. <<>> \in Seq(HB!Word) /\ <<>> = <<>> \o <<>>
      OBVIOUS
    <3>2. flight = <<>> /\ toClient = <<>> /\ toServer = <<>>
      BY DEF Init
    <3> QED
      BY <3>1, <3>2, NothingCarries DEF FlightSplit
  <2>3. Quiet
    BY DEF Init, Quiet
  <2> QED
    BY <2>1, <2>2, <2>3 DEF FlightOK
<1>6. HandshakeInv
  <2>1. /\ shaken = Greeted /\ ws = "closed" /\ ~InChain /\ ~KeyHere
    BY DEF Init, Greeted, InChain, Chain, KeyHere, Contains
  <2>2. \A op : /\ ~Holds(toServer, op) /\ ~Holds(toClient, op)
                /\ Once(toServer, op) /\ Once(toClient, op)
    BY NothingCarries DEF Init
  <2> QED
    BY <2>1, <2>2, Stages DEF HandshakeInv, StageOK, OnePlace, SomePlace
<1> QED
  BY <1>1, <1>2, <1>3, <1>4, <1>5, <1>6 DEF SessionInv

LEMMA SessionInvStep == SessionInv /\ [Next]_vars => SessionInv'
<1> SUFFICES ASSUME SessionInv, [Next]_vars PROVE SessionInv'
  OBVIOUS
<1>1. OwnerOK /\ ChannelOK /\ SessionOK /\ LoopsOK /\ FlightOK /\ HandshakeInv /\ StageOK
  BY DEF SessionInv, HandshakeInv
<1>2. OwnerOK'
  BY <1>1, OwnerStep
<1>3. ChannelOK'
  BY <1>1, ChannelStep
<1>4. SessionOK'
  BY <1>1, SessionStep
<1>5. LoopsOK'
  BY <1>1, LoopsStep
<1>6. FlightOK'
  BY <1>1, FlightStep
<1>7. HandshakeInv'
  BY <1>1, HandshakeStep
<1> QED
  BY <1>2, <1>3, <1>4, <1>5, <1>6, <1>7 DEF SessionInv

(* The state of a session stays within its types, whatever the owner, the  *)
(* server and the network do.                                              *)
THEOREM TypeCorrect == Spec => []TypeOK
<1>1. SessionInv => TypeOK
  <2> SUFFICES ASSUME SessionInv PROVE TypeOK
    OBVIOUS
  <2>0. OwnerOK /\ ChannelOK /\ SessionOK /\ LoopsOK /\ FlightOK /\ StageOK
    BY DEF SessionInv, HandshakeInv
  <2>1. /\ life \in {"alive", "destroying", "gone"} /\ conn \in 0 .. MaxStarts
        /\ cancelled \subseteq 1 .. source
    BY <2>0 DEF OwnerOK
  <2>2. hooked \in BOOLEAN /\ handler \in BOOLEAN
    BY <2>0 DEF OwnerOK
  <2>3. source \in 1 .. MaxStarts + 1
    <3>1. source \in 1 .. conn + 1
      BY <2>0 DEF OwnerOK
    <3> QED
      BY <2>1, <3>1, VoiceClientAssumption
  <2>4. /\ ws \in {"closed", "connecting", "open", "closing"}
        /\ toServer \in Seq(MessageType) /\ toClient \in Seq(MessageType)
    BY <2>0 DEF ChannelOK, Messages
  <2>5. /\ rx \in {"idle", "connecting", "sending", "receiving", "selecting", "threw"}
        /\ ssrc \in 0 .. conn /\ secretKey \in Seq(1 .. conn)
        /\ udp \in {"none", "request", "reply", "short"}
    BY <2>0 DEF SessionOK, Chain
  <2>6. shaken \in Seq(MessageType)
    <3>1. \A n \in Nat : /\ Message("Identify", n) \in MessageType
                         /\ Message("SelectProtocol", n) \in MessageType
      BY MessageOK DEF Opcode
    <3>2. /\ Message("Identify", 0) \in MessageType
          /\ Message("SelectProtocol", conn) \in MessageType
      BY <2>1, <3>1, VoiceClientAssumption
    <3>3. /\ Greeted \in Seq(MessageType) /\ Identified \in Seq(MessageType)
          /\ Selected \in Seq(MessageType)
      BY <3>2 DEF Greeted, Identified, Selected
    <3> QED
      BY <2>0, <3>3 DEF StageOK
  <2>7. HB!TypeOK
    <3>1. flight \in Seq(HB!Word) /\ received \in HB!Word
      BY <2>0, SplitSequence DEF FlightOK, FlightSplit
    <3>2. /\ nonce \in HB!Word /\ reg \in [Loops -> HB!Word]
          /\ pc \in [Loops -> {"idle"} \cup HB!LivePC \cup HB!OverPC]
      BY <2>0 DEF LoopsOK
    <3>3. overlapped \in BOOLEAN /\ missed \in BOOLEAN
      BY <2>0 DEF LoopsOK
    <3> QED
      BY <3>1, <3>2, <3>3 DEF HB!TypeOK
  <2>8. token \in [Loops -> 0 .. source]
    BY <2>0 DEF LoopsOK
  <2> QED
    BY <2>1, <2>2, <2>3, <2>4, <2>5, <2>6, <2>7, <2>8 DEF TypeOK
<1> QED
  BY <1>1, SessionInit, SessionInvStep, PTL DEF Spec

(* Identify, then SelectProtocol for the session's own ssrc, and neither   *)
(* of them twice: the handshake is in one place at a time.                 *)
THEOREM HandshakeInOrder == Spec => []HandshakeOrder
<1>1. SessionInv => HandshakeOrder
  <2> SUFFICES ASSUME SessionInv PROVE HandshakeOrder
    OBVIOUS
  <2>1. shaken \in {Greeted, Identified, Selected}
    BY DEF SessionInv, HandshakeInv, StageOK
  <2>2. ASSUME NEW a, NEW b
        PROVE  IsPrefix(<<>>, <<a, b>>) /\ IsPrefix(<<a>>, <<a, b>>)
               /\ IsPrefix(<<a, b>>, <<a, b>>)
    <3>1. /\ <<>> \in Seq({a, b}) /\ <<a>> \in Seq({a, b}) /\ <<a, b>> \in Seq({a, b})
          /\ Len(<<>>) = 0 /\ Len(<<a>>) = 1 /\ Len(<<a, b>>) = 2
      OBVIOUS
    <3>2. \A n \in 0 .. 2 : /\ SubSeq(<<a, b>>, 1, n) \in Seq({a, b})
                            /\ Len(SubSeq(<<a, b>>, 1, n)) = n
                            /\ \A i \in 1 .. n : SubSeq(<<a, b>>, 1, n)[i] = <<a, b>>[i]
      BY <3>1, SubSeqProperties
    <3>3. SubSeq(<<a, b>>, 1, 0) = <<>>
      BY <3>2
    <3>4. SubSeq(<<a, b>>, 1, 1) = <<a>>
      <4> DEFINE s == SubSeq(<<a, b>>, 1, 1)
      <4>1. s \in Seq({a, b}) /\ Len(s) = 1 /\ s[1] = a
        BY <3>2
      <4> HIDE DEF s
      <4>2. \A i \in 1 .. Len(s) : s[i] = <<a>>[i]
        BY <4>1
      <4>3. s = <<a>>
        BY <3>1, <4>1, <4>2, SeqEqual
      <4> QED
        BY <4>3 DEF s
    <3>5. SubSeq(<<>>, 1, 0) = <<>> /\ SubSeq(<<a>>, 1, 1) = <<a>>
      BY <3>1, SubSeqFull
    <3> QED
      BY <3>1, <3>3, <3>4, <3>5 DEF IsPrefix
  <2> QED
    BY <2>1, <2>2 DEF HandshakeOrder, Greeted, Identified, Selected
<1> QED
  BY <1>1, SessionInit, SessionInvStep, PTL DEF Spec

(* While the receive thread waits for nothing, the next message of the     *)
(* handshake is on its way, or the key has come.                           *)
THEOREM HandshakeNeverStalls == Spec => []HandshakeAdvances
<1>1. SessionInv => HandshakeAdvances
  <2> SUFFICES ASSUME SessionInv, ws = "open", handler, rx = "idle" PROVE
        \/ Contains(secretKey, conn)
        \/ \E i \in DOMAIN toClient :
             toClient[i].op \in {"Hello", "Ready", "SessionDescription"}
        \/ \E i \in DOMAIN toServer :
             toServer[i].op \in {"Identify", "SelectProtocol"}
    BY DEF HandshakeAdvances
  <2>1. SomePlace /\ ~InChain
    BY DEF SessionInv, HandshakeInv, InChain, Chain
  <2> QED
    BY <2>1 DEF SomePlace, Holds, KeyHere, ClientSteps, ServerSteps
<1> QED
  BY <1>1, SessionInit, SessionInvStep, PTL DEF Spec

(* Key and ssrc are of one session once the session has its key.           *)
THEOREM KeyFitsSsrc == Spec => []KeyMatchesSsrc
<1>1. SessionInv => KeyMatchesSsrc
  <2> SUFFICES ASSUME SessionInv PROVE KeyMatchesSsrc
    OBVIOUS
  <2>1. StageOK /\ SessionOK /\ OwnerOK
    BY DEF SessionInv, HandshakeInv
  <2>2. Contains(secretKey, conn) => Last(secretKey) = conn /\ ssrc = conn
    BY <2>1 DEF StageOK, KeyHere
  <2>3. ASSUME secretKey # <<>> PROVE Last(secretKey) <= ssrc
    <3>1. /\ secretKey \in Seq(1 .. conn)
          /\ \A i \in DOMAIN secretKey : secretKey[i] <= ssrc
      BY <2>1 DEF SessionOK
    <3>2. Len(secretKey) \in DOMAIN secretKey
      BY <2>3, <3>1
    <3> QED
      BY <3>1, <3>2 DEF Last
  <2> QED
    BY <2>2, <2>3 DEF KeyMatchesSsrc
<1> QED
  BY <1>1, SessionInit, SessionInvStep, PTL DEF Spec

(* The first session of a client encrypts its frames with its own key:     *)
(* that start keeps _secret_key is what takes this from the later ones.    *)
THEOREM FirstKeyIsCurrent == Spec => [](conn <= 1 => FrameKeyIsCurrent)
<1>1. SessionInv => (conn <= 1 => FrameKeyIsCurrent)
  <2> SUFFICES ASSUME SessionInv, conn <= 1, Contains(secretKey, conn)
               PROVE  Head(secretKey) = conn
    BY DEF FrameKeyIsCurrent
  <2>1. secretKey \in Seq(1 .. conn) /\ conn \in Nat
    BY VoiceClientAssumption DEF SessionInv, SessionOK, OwnerOK
  <2>2. secretKey # <<>>
    BY <2>1 DEF Contains
  <2>3. Head(secretKey) \in 1 .. conn
    BY <2>1, <2>2
  <2> QED BY <2>1, <2>3
<1> QED
  BY <1>1, SessionInit, SessionInvStep, PTL DEF Spec

-----------------------------------------------------------------------------
(* Every step of the client is a step of the heartbeat or none.            *)
LEMMA LoopRefines ==
  ASSUME NEW l \in Loops, Loop(l) PROVE HB!Next
<1>1. CASE CancellationSeen(l)
  BY <1>1 DEF CancellationSeen, HB!Next
<1>2. CASE Enter(l)
  BY <1>2 DEF Enter, HB!Next, HB!Step
<1>3. CASE Compare(l)
  BY <1>3 DEF Compare, HB!Next, HB!Step
<1>4. CASE Fire(l)
  BY <1>4 DEF Fire, HB!Next, HB!Step
<1>5. CASE BeatSent(l)
  <2>1. HB!Beat(l)
    BY <1>5 DEF BeatSent, HB!Beat
  <2> QED
    BY <2>1 DEF HB!Next, HB!Step
<1>6. CASE BeatRefused(l)
  <2>1. HB!BeatFails(l)
    BY <1>6 DEF BeatRefused, HB!BeatFails
  <2> QED
    BY <2>1 DEF HB!Next
<1> QED
  BY <1>1, <1>2, <1>3, <1>4, <1>5, <1>6 DEF Loop

LEMMA HeartbeatStep == SessionInv /\ [Next]_vars => [HB!Next]_(HB!vars)
<1> SUFFICES ASSUME SessionInv, [Next]_vars PROVE HB!Next \/ UNCHANGED HB!vars
  OBVIOUS
<1>1. OwnerOK /\ ChannelOK /\ FlightOK /\ LoopsOK
  BY DEF SessionInv
<1>2. CASE \E l \in Loops : Loop(l)
  BY <1>2, LoopRefines
<1>3. CASE ProcessHello
  <2>1. conn \in Loops
    BY <1>1, <1>3 DEF ProcessHello, Incoming, ChannelOK
  <2>2. HB!Create(conn)
    BY <1>3 DEF ProcessHello, HB!Create, HB!Goto
  <2> QED
    BY <2>1, <2>2 DEF HB!Next
<1>4. CASE ProcessHeartbeatAck
  <2>1. flight # <<>> /\ received' = Head(flight)
    BY <1>1, <1>4, FlightTaken DEF ProcessHeartbeatAck, Incoming
  <2>2. HB!Acknowledge
    BY <1>4, <2>1 DEF ProcessHeartbeatAck, HB!Acknowledge
  <2> QED
    BY <2>2 DEF HB!Next
<1>5. CASE CloseCompletes \/ RemoteClose
  <2>1. /\ flight' = <<>> /\ missed' = (missed \/ flight # <<>>)
        /\ UNCHANGED <<nonce, received, pc, reg, overlapped>>
    BY <1>5 DEF CloseCompletes, RemoteClose, ConnectionOver
  <2>2. CASE flight = <<>>
    <3>1. missed \in BOOLEAN
      BY <1>1 DEF LoopsOK
    <3>2. missed' = missed
      BY <2>1, <2>2, <3>1
    <3> QED
      BY <2>1, <2>2, <3>2 DEF HB!vars
  <2>3. CASE flight # <<>>
    <3>1. missed' = TRUE
      BY <2>1, <2>3
    <3>2. HB!Disconnect
      BY <2>1, <2>3, <3>1 DEF HB!Disconnect
    <3> QED
      BY <3>2 DEF HB!Next
  <2> QED
    BY <2>2, <2>3
<1>6. CASE ~(\/ ProcessHello \/ ProcessHeartbeatAck \/ CloseCompletes \/ RemoteClose
             \/ \E l \in Loops : Loop(l))
  <2>1. UNCHANGED loops
    BY <1>6
    DEF vars, Next, Owner, Start, Stop, Destroy, DestructorReturns, SetSpeaking,
        ProcessEvent, ProcessReady, ProcessSessionDescription, IgnoreMessage,
        RejectMessage, NobodyListens, ReadyChain, UdpConnect, SendDiscovery,
        ReceiveDiscovery, SelectProtocol, ReadyStep, Network, Others, Connected,
        ConnectFails, Serve, Chat, DiscoveryAnswered, DatagramLost, ReceiveFails
  <2> QED
    BY <2>1 DEF loops, HB!vars
<1> QED
  BY <1>2, <1>3, <1>4, <1>5, <1>6

(* The heartbeats of a client, with its sessions, restarts and failures,   *)
(* behave as Heartbeat says: answers arrive in the order of the beats.     *)
THEOREM HeartbeatRefined == Spec => HeartbeatSpec
<1>1. Init => HB!Init
  BY DEF Init, HB!Init
<1> QED
  BY <1>1, SessionInit, SessionInvStep, HeartbeatStep, PTL DEF Spec, HeartbeatSpec, HB!Spec

-----------------------------------------------------------------------------
(* What is proved of Heartbeat therefore holds of the client.              *)
Beats == INSTANCE HeartbeatProofs

LEMMA BeatsStep == [HB!Next]_(HB!vars) => [Beats!Next]_(Beats!vars)
<1> SUFFICES ASSUME HB!Next \/ UNCHANGED HB!vars PROVE Beats!Next \/ UNCHANGED Beats!vars
  OBVIOUS
<1>1. ASSUME NEW l \in Loops,
             HB!Create(l) \/ HB!CancellationSeen(l) \/ HB!BeatFails(l) \/ HB!Step(l)
      PROVE  Beats!Next
  <2>1. \/ Beats!Create(l) \/ Beats!CancellationSeen(l) \/ Beats!BeatFails(l)
        \/ Beats!Step(l)
    BY <1>1
    DEF HB!Create, HB!CancellationSeen, HB!BeatFails, HB!Step, HB!Enter, HB!Compare,
        HB!Fire, HB!Beat, HB!StoreNonce, HB!Goto, HB!Live, HB!LivePC, HB!NonceMismatch,
        HB!Sub, HB!Inc, Beats!Create, Beats!CancellationSeen, Beats!BeatFails, Beats!Step,
        Beats!Enter, Beats!Compare, Beats!Fire, Beats!Beat, Beats!StoreNonce, Beats!Goto,
        Beats!Live, Beats!LivePC, Beats!NonceMismatch, Beats!Sub, Beats!Inc
  <2> QED
    BY <2>1 DEF Beats!Next
<1>2. CASE HB!Acknowledge
  BY <1>2 DEF HB!Acknowledge, Beats!Acknowledge, Beats!Next
<1>3. CASE HB!Disconnect
  BY <1>3 DEF HB!Disconnect, Beats!Disconnect, Beats!Next
<1>4. CASE UNCHANGED HB!vars
  BY <1>4 DEF HB!vars, Beats!vars
<1> QED
  BY <1>1, <1>2, <1>3, <1>4 DEF HB!Next

LEMMA BeatsSpec == Spec => Beats!Spec
<1>1. HB!Init => Beats!Init
  BY DEF HB!Init, Beats!Init
<1> QED
  BY <1>1, HeartbeatRefined, BeatsStep, PTL DEF HeartbeatSpec, HB!Spec, Beats!Spec

(* As long as no two loops of a client overlap, whatever its sessions went *)
(* through, the unsigned difference do_heartbeat computes is at most two.  *)
THEOREM ClientWindow == Spec => []HB!HeartbeatWindow
<1>1. Modulus \in Nat /\ Modulus >= 4
  BY VoiceClientAssumption
<1>2. Beats!Spec => []Beats!HeartbeatWindow
  BY <1>1, Beats!WindowHolds
<1>3. Beats!HeartbeatWindow => HB!HeartbeatWindow
  BY DEF Beats!HeartbeatWindow, HB!HeartbeatWindow, Beats!Sub, HB!Sub
<1> QED
  BY <1>2, <1>3, BeatsSpec, PTL

(* As long as none overlap and every answer of every session came in time, *)
(* no loop of the client reports a nonce mismatch.                         *)
THEOREM ClientNeverFalseAlarm == Spec => []HB!NoFalseAlarm
<1>1. Modulus \in Nat /\ Modulus >= 4
  BY VoiceClientAssumption
<1>2. Beats!Spec => []Beats!NoFalseAlarm
  BY <1>1, Beats!NeverFalseAlarm
<1>3. Beats!NoFalseAlarm => HB!NoFalseAlarm
  BY DEF Beats!NoFalseAlarm, HB!NoFalseAlarm
<1> QED
  BY <1>2, <1>3, BeatsSpec, PTL
=============================================================================
