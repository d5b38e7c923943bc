--------------------------- MODULE SimpleCliProofs ---------------------------
(***************************************************************************)
(* Theorems about SimpleCli.                                               *)
(***************************************************************************)
EXTENDS SimpleCli, SequenceTheorems, TLAPS

(* How the Speaking message leads to a packet: main has sent it before it  *)
(* sets the promise, and the transmitting thread waits for the promise.    *)
SpeaksInv ==
  /\ main \in {"connected", "wait"} \/ connected => speaking
  /\ transmit # "wait" => connected
  /\ transmit = "wait" => wire = <<>>

LEMMA InitSpeaks == Init => SpeaksInv
BY DEF Init, SpeaksInv

LEMMA NextSpeaks == SpeaksInv /\ [Next]_vars => SpeaksInv'
<1> SUFFICES ASSUME SpeaksInv, [Next]_vars PROVE SpeaksInv'
  OBVIOUS
<1> USE DEF SpeaksInv, program, session, source, sink, Terminate
<1>1. CASE Transcoding
  BY <1>1 DEF Transcoding, CreateEncoder, EncoderFails, Transcode, Push
<1>2. CASE Transmitting
  BY <1>2 DEF Transmitting, BeginTransmit, Pop, BuildHeader, Encrypt, Send, SendFails, Pace
<1>3. CASE Main
  <2>1. CASE Connect
    <3>1. CASE Goto("five seconds")
      BY <2>1, <3>1 DEF Connect, Goto
    <3>2. CASE Goto("catch")
      BY <2>1, <3>2 DEF Connect, Goto
    <3> QED BY <2>1, <3>1, <3>2 DEF Connect
  <2>2. CASE FiveSeconds
    BY <2>2 DEF FiveSeconds, Goto
  <2>3. CASE SetSpeaking
    <3>1. transmit' = transmit /\ wire' = wire /\ connected' = connected
      BY <2>3 DEF SetSpeaking, Goto
    <3>2. speaking' = (ws \/ speaking)
      BY <2>3 DEF SetSpeaking
    <3>3. CASE ws
      <4>1. speaking'
        BY <3>2, <3>3, Zenon
      <4> QED BY <4>1, <3>1
    <3>4. CASE ~ws
      <4>1. main' = "catch"
        BY <2>3, <3>4 DEF SetSpeaking, Goto
      <4>2. connected' => speaking'
        BY <3>1, <3>2, Zenon
      <4> QED BY <4>1, <4>2, <3>1
    <3> QED BY <3>3, <3>4
  <2>4. CASE SetConnected
    BY <2>4 DEF SetConnected
  <2>5. CASE Catch
    BY <2>5 DEF Catch
  <2> QED BY <1>3, <2>1, <2>2, <2>3, <2>4, <2>5 DEF Main
<1>4. CASE Session
  BY <1>4 DEF Session, Ready, SessionDescription, Disconnect, BotEnds
<1>5. CASE UNCHANGED vars
  BY <1>5 DEF vars
<1> QED BY <1>1, <1>2, <1>3, <1>4, <1>5 DEF Next

(* For a queue of any capacity and any number of frames, no packet is sent *)
(* before the Speaking message.                                            *)
THEOREM NeverSpeaksEarly == Spec => []SpeaksFirst
<1>1. SpeaksInv => SpeaksFirst
  BY DEF SpeaksInv, SpeaksFirst
<1> QED BY <1>1, InitSpeaks, NextSpeaks, PTL DEF Spec

-----------------------------------------------------------------------------
(* The frames from the first that was sent to the last that was pushed,    *)
(* one by one: those sent, the one that was popped, and those that wait.   *)
Popped == IF frame = 0 THEN 0 ELSE 1
Pushed == IF transcode = "push" THEN made - 1 ELSE made

(* Packets are not looked into but for their frame.                        *)
IsSeq(s) == \E S : s \in Seq(S)

FramesShape ==
  /\ IsSeq(wire) /\ queue \in Seq(Nat)
  /\ made \in Nat /\ frame \in Nat /\ Pushed \in Nat
  /\ frame = 0 <=> transmit \in {"wait", "pop", "pace"}
  /\ Len(queue) <= Capacity

Numbered ==
  /\ Len(wire) + Popped + Len(queue) = Pushed
  /\ \A i \in 1 .. Len(wire) : wire[i].frame = i
  /\ frame # 0 => frame = Len(wire) + 1
  /\ \A i \in 1 .. Len(queue) : queue[i] = Len(wire) + Popped + i

FramesInv == FramesShape /\ Numbered

LEMMA NumberedKept == FramesInv => FramesKept
<1> SUFFICES ASSUME FramesInv PROVE FramesKept
  OBVIOUS
<1> DEFINE sent == [i \in DOMAIN wire |-> wire[i].frame]
           popped == IF frame = 0 THEN <<>> ELSE <<frame>>
           all == [i \in 1 .. Pushed |-> i]
<1>1. PICK S : wire \in Seq(S)
  BY DEF FramesInv, FramesShape, IsSeq
<1>2. /\ Len(wire) \in Nat /\ DOMAIN wire = 1 .. Len(wire)
      /\ queue \in Seq(Nat) /\ Len(queue) \in Nat /\ Pushed \in Nat /\ frame \in Nat
  BY <1>1 DEF FramesInv, FramesShape
<1>3. \A i \in 1 .. Len(wire) : wire[i].frame = i
  BY DEF FramesInv, Numbered
<1>4. sent \in Seq(Nat) /\ Len(sent) = Len(wire) /\ \A i \in 1 .. Len(wire) : sent[i] = i
  BY <1>2, <1>3
<1>5. /\ popped \in Seq(Nat) /\ Len(popped) = Popped
      /\ \A i \in 1 .. Len(popped) : popped[i] = Len(wire) + i
  BY <1>2 DEF FramesInv, Numbered, Popped
<1>6. all \in Seq(Nat) /\ Len(all) = Pushed /\ \A i \in 1 .. Pushed : all[i] = i
  BY <1>2
<1>7. \A i \in 1 .. Len(queue) : queue[i] = Len(sent) + Len(popped) + i
  BY <1>4, <1>5 DEF FramesInv, Numbered
<1>8. Len(sent) + Len(popped) + Len(queue) = Len(all)
  BY <1>4, <1>5, <1>6 DEF FramesInv, Numbered
<1> HIDE DEF sent, popped, all
<1> DEFINE begin == sent \o popped
<1>9. /\ begin \in Seq(Nat) /\ Len(begin) = Len(sent) + Len(popped)
      /\ \A i \in 1 .. Len(begin) : begin[i] = i
  <2>1. /\ begin \in Seq(Nat) /\ Len(begin) = Len(sent) + Len(popped)
        /\ \A i \in 1 .. Len(sent) + Len(popped) :
             begin[i] = IF i <= Len(sent) THEN sent[i] ELSE popped[i - Len(sent)]
    BY <1>4, <1>5, ConcatProperties
  <2> QED
    BY <1>2, <1>4, <1>5, <2>1
<1> HIDE DEF begin
<1>10. begin \o queue = all
  <2>1. /\ begin \o queue \in Seq(Nat) /\ Len(begin \o queue) = Len(begin) + Len(queue)
        /\ \A i \in 1 .. Len(begin) + Len(queue) :
             (begin \o queue)[i] = IF i <= Len(begin) THEN begin[i] ELSE queue[i - Len(begin)]
    BY <1>2, <1>9, ConcatProperties
  <2>2. ASSUME NEW i \in 1 .. Len(begin \o queue) PROVE (begin \o queue)[i] = all[i]
    <3>1. /\ Len(begin) \in Nat /\ i \in 1 .. Len(begin) + Len(queue)
          /\ i \in 1 .. Pushed /\ all[i] = i
      BY <1>2, <1>6, <1>8, <1>9, <2>1
    <3>2. CASE i <= Len(begin)
      BY <1>9, <2>1, <3>1, <3>2
    <3>3. CASE i > Len(begin)
      <4>1. i - Len(begin) \in 1 .. Len(queue)
        BY <1>2, <3>1, <3>3
      <4>2. queue[i - Len(begin)] = Len(begin) + (i - Len(begin))
        BY <1>7, <1>9, <4>1
      <4> QED
        BY <2>1, <3>1, <3>3, <4>2
    <3> QED
      BY <3>1, <3>2, <3>3
  <2>3. Len(begin \o queue) = Len(all)
    BY <1>8, <1>9, <2>1
  <2> QED
    BY <1>6, <2>1, <2>2, <2>3, SeqEqual
<1> QED
  BY <1>10 DEF FramesKept, FramesInv, FramesShape, sent, popped, all, begin, Pushed

LEMMA InitFrames == Init => FramesInv
<1> SUFFICES ASSUME Init PROVE FramesInv
  OBVIOUS
<1>1. wire \in Seq({}) /\ queue \in Seq(Nat) /\ Len(wire) = 0 /\ Len(queue) = 0
  BY DEF Init
<1> QED
  BY <1>1, SampleAssumption
  DEF Init, FramesInv, FramesShape, Numbered, IsSeq, Popped, Pushed

LEMMA NextFrames == FramesInv /\ [Next]_vars => FramesInv'
<1> SUFFICES ASSUME FramesInv, [Next]_vars PROVE FramesInv'
  OBVIOUS
<1> USE SampleAssumption DEF sink, source
<1>1. /\ queue \in Seq(Nat) /\ Len(queue) \in Nat /\ made \in Nat /\ frame \in Nat
      /\ Len(queue) <= Capacity /\ Pushed \in Nat
  BY DEF FramesInv, FramesShape
<1>2. PICK S : wire \in Seq(S)
  BY DEF FramesInv, FramesShape, IsSeq
<1>3. Len(wire) \in Nat
  BY <1>2
<1>a. /\ Popped \in {0, 1} /\ Len(wire) + Popped + Len(queue) = Pushed
      /\ \A i \in 1 .. Len(queue) : queue[i] = Len(wire) + Popped + i
  BY DEF FramesInv, Numbered, Popped
<1>4. ASSUME UNCHANGED <<queue, wire, frame>>, Pushed' = Pushed, made' \in Nat,
             transmit' \in {"wait", "pop", "pace"} <=> transmit \in {"wait", "pop", "pace"}
      PROVE  FramesInv'
  BY <1>4 DEF FramesInv, FramesShape, Numbered, Popped, IsSeq
<1>5. CASE Transcode
  BY <1>1, <1>4, <1>5 DEF Transcode, Pushed
<1>6. CASE Push
  <2>1. /\ transcode = "push" /\ Len(queue) < Capacity /\ queue' = Append(queue, made)
        /\ transcode' = "encode" /\ UNCHANGED <<made, transmit, frame, wire>>
    BY <1>6 DEF Push
  <2>2. /\ queue' \in Seq(Nat) /\ Len(queue') = Len(queue) + 1
        /\ \A i \in 1 .. Len(queue) : queue'[i] = queue[i]
        /\ queue'[Len(queue) + 1] = made
    BY <1>1, <2>1
  <2>3. made = Len(wire) + Popped + Len(queue) + 1
    BY <1>1, <1>3, <2>1 DEF FramesInv, Numbered, Pushed, Popped
  <2>4. Pushed' = made /\ Popped' = Popped /\ Popped \in {0, 1}
    BY <2>1 DEF Pushed, Popped
  <2>5. FramesShape'
    BY <1>1, <2>1, <2>2, <2>4 DEF FramesInv, FramesShape, IsSeq
  <2>6. Len(wire') + Popped' + Len(queue') = Pushed'
    BY <1>1, <1>3, <2>1, <2>2, <2>3, <2>4
  <2>7. \A i \in 1 .. Len(queue') : queue'[i] = Len(wire') + Popped' + i
    <3>1. Len(wire') = Len(wire) /\ Popped' = Popped
      BY <2>1, <2>4
    <3>2. ASSUME NEW i \in 1 .. Len(queue) + 1
          PROVE  queue'[i] = Len(wire) + Popped + i
      <4>1. CASE i = Len(queue) + 1
        <5>1. queue'[i] = made /\ Popped \in {0, 1}
          BY <1>a, <2>2, <4>1
        <5> QED
          BY <1>1, <1>3, <2>3, <4>1, <5>1
      <4>2. CASE i # Len(queue) + 1
        <5>1. i \in 1 .. Len(queue)
          BY <1>1, <4>2
        <5> QED
          BY <1>a, <2>2, <5>1
      <4> QED
        BY <4>1, <4>2
    <3> QED
      BY <2>2, <3>1, <3>2
  <2> QED
    BY <2>1, <2>5, <2>6, <2>7 DEF FramesInv, Numbered
<1>7. CASE Pop
  <2>1. /\ transmit = "pop" /\ queue # <<>> /\ frame' = Head(queue) /\ queue' = Tail(queue)
        /\ transmit' = "header" /\ UNCHANGED <<wire, transcode, made>>
    BY <1>7 DEF Pop
  <2>2. /\ queue' \in Seq(Nat) /\ Len(queue') = Len(queue) - 1 /\ Len(queue) >= 1
        /\ \A i \in 1 .. Len(queue') : queue'[i] = queue[i + 1]
        /\ frame' = queue[1]
    BY <1>1, <2>1
  <2>3. frame = 0 /\ Popped = 0
    BY <2>1 DEF FramesInv, FramesShape, Popped
  <2>4. frame' = Len(wire) + 1
    BY <1>1, <1>3, <2>2, <2>3 DEF FramesInv, Numbered
  <2>5. Popped' = 1 /\ Pushed' = Pushed
    BY <1>3, <2>1, <2>4 DEF Popped, Pushed
  <2>6. FramesShape'
    BY <1>1, <1>3, <2>1, <2>2, <2>4, <2>5 DEF FramesInv, FramesShape, IsSeq
  <2>7. Len(wire') + Popped' + Len(queue') = Pushed'
    <3>1. Len(wire') = Len(wire) /\ Len(queue') = Len(queue) - 1
      BY <2>1, <2>2
    <3>2. Len(wire) + 0 + Len(queue) = Pushed
      BY <1>a, <2>3
    <3> QED
      BY <1>1, <1>3, <2>5, <3>1, <3>2
  <2>8. \A i \in 1 .. Len(queue') : queue'[i] = Len(wire') + Popped' + i
    BY <1>1, <1>3, <2>1, <2>2, <2>3, <2>5 DEF FramesInv, Numbered
  <2> QED
    BY <2>1, <2>4, <2>6, <2>7, <2>8 DEF FramesInv, Numbered
<1>8. CASE Send
  <2>1. PICK bytes : /\ wire' = Append(wire, [frame |-> frame, header |-> bytes])
                     /\ transmit = "send" /\ transmit' = "pace" /\ frame' = 0
                     /\ UNCHANGED <<queue, transcode, made>>
    BY <1>8 DEF Send
  <2> DEFINE packet == [frame |-> frame, header |-> bytes]
  <2>2. packet.frame = frame /\ wire' = Append(wire, packet)
    BY <2>1
  <2> HIDE DEF packet
  <2>3. /\ wire' \in Seq(S \cup {packet}) /\ Len(wire') = Len(wire) + 1
        /\ \A i \in 1 .. Len(wire) : wire'[i] = wire[i]
        /\ wire'[Len(wire) + 1] = packet
    <3>1. wire \in Seq(S \cup {packet})
      BY <1>2
    <3> QED
      BY <2>2, <3>1
  <2>4. Popped = 1 /\ frame = Len(wire) + 1
    BY <2>1 DEF FramesInv, FramesShape, Numbered, Popped
  <2>5. Popped' = 0 /\ Pushed' = Pushed
    BY <2>1 DEF Popped, Pushed
  <2>6. FramesShape'
    BY <1>1, <2>1, <2>3, <2>5 DEF FramesInv, FramesShape, IsSeq
  <2>7. \A i \in 1 .. Len(wire') : wire'[i].frame = i
    BY <1>3, <2>2, <2>3, <2>4 DEF FramesInv, Numbered
  <2>8. Len(wire') + Popped' + Len(queue') = Pushed'
    BY <1>1, <1>3, <2>1, <2>3, <2>4, <2>5 DEF FramesInv, Numbered
  <2>9. \A i \in 1 .. Len(queue') : queue'[i] = Len(wire') + Popped' + i
    BY <1>1, <1>3, <2>1, <2>3, <2>4, <2>5 DEF FramesInv, Numbered
  <2> QED
    BY <2>1, <2>6, <2>7, <2>8, <2>9 DEF FramesInv, Numbered
<1>9. CASE \/ CreateEncoder \/ BeginTransmit \/ BuildHeader \/ Encrypt \/ SendFails \/ Pace
           \/ EncoderFails \/ Main \/ Session \/ UNCHANGED vars
  <2>1. /\ UNCHANGED <<queue, wire, frame, made>>
        /\ UNCHANGED transcode \/ (transcode = "create" /\ transcode' = "encode")
        /\ transmit' \in {"wait", "pop", "pace"} <=> transmit \in {"wait", "pop", "pace"}
    BY <1>9
    DEF CreateEncoder, BeginTransmit, BuildHeader, Encrypt, SendFails, Pace, EncoderFails,
        Terminate, Main, Connect, FiveSeconds, SetSpeaking, SetConnected, Catch, Session,
        Ready, SessionDescription, Disconnect, BotEnds, vars
  <2> QED
    BY <1>1, <1>4, <2>1 DEF Pushed
<1> QED
  BY <1>5, <1>6, <1>7, <1>8, <1>9 DEF Next, Transcoding, Transmitting

(* For any capacity of the queue and any number of frames: what was sent,  *)
(* the frame being sent and what waits are together the frames that were   *)
(* transcoded, each once and in order, and no more wait than there is room *)
(* for.                                                                    *)
THEOREM NoFrameLost == Spec => []FramesKept
BY InitFrames, NextFrames, NumberedKept, PTL DEF Spec

-----------------------------------------------------------------------------
(* Division, for any number of values of a byte.                           *)
LEMMA DivMod ==
  ASSUME NEW m \in Nat \ {0}, NEW v \in Nat
  PROVE  v \div m \in Nat /\ v % m \in 0 .. m - 1 /\ v = m * (v \div m) + (v % m)
OBVIOUS

LEMMA Remainder ==
  ASSUME NEW m \in Nat \ {0}, NEW q \in Nat, NEW r \in 0 .. m - 1
  PROVE  (m * q + r) % m = r
OBVIOUS

LEMMA Quotient ==
  ASSUME NEW m \in Nat \ {0}, NEW v \in 0 .. m * m - 1
  PROVE  v \div m \in 0 .. m - 1
OBVIOUS

(* A counter that wraps counts the total, wrapped.                         *)
LEMMA WrappedSum ==
  ASSUME NEW m \in Nat \ {0}, NEW a \in Nat, NEW b \in Nat
  PROVE  ((a % m) + b) % m = (a + b) % m
<1> DEFINE q == a \div m
           r == a % m
           p == (r + b) \div m
           s == (r + b) % m
<1>1. q \in Nat /\ r \in 0 .. m - 1 /\ a = m * q + r
  BY DivMod
<1>2. p \in Nat /\ s \in 0 .. m - 1 /\ r + b = m * p + s
  <2>1. r + b \in Nat
    BY <1>1
  <2> DEFINE v == r + b
  <2> HIDE DEF q, r, v
  <2>2. v \div m \in Nat /\ v % m \in 0 .. m - 1 /\ v = m * (v \div m) + (v % m)
    BY <2>1, DivMod DEF v
  <2> QED BY <2>2 DEF v
<1> HIDE DEF q, r, p, s
<1>3. a + b = m * (q + p) + s /\ q + p \in Nat
  BY <1>1, <1>2
<1>4. (a + b) % m = s
  BY <1>2, <1>3, Remainder
<1> QED BY <1>4 DEF s, r

-----------------------------------------------------------------------------
(* What is read from a header is what was built into it.                   *)
Bytes == Nat \cup {"0x80", "0x78"}
Are(s, n) == s \in Seq(Bytes) /\ Len(s) = n

LEMMA ValuesPositive == Byte \in Nat \ {0} /\ Values16 \in Nat \ {0} /\ Values32 \in Nat \ {0}
<1>1. \A a, b \in Nat \ {0} : a * b \in Nat \ {0}
  OBVIOUS
<1>2. Byte \in Nat \ {0}
  BY ByteAssumption
<1>3. Values16 \in Nat \ {0}
  BY <1>1, <1>2 DEF Values16
<1> QED BY <1>1, <1>2, <1>3 DEF Values32

Joins(all, s, n, t, k) ==
  /\ Are(all, n + k)
  /\ \A i \in 1 .. n : all[i] = s[i]
  /\ \A i \in 1 .. k : all[n + i] = t[i]

LEMMA Joined ==
  ASSUME NEW n \in Nat, NEW k \in Nat, NEW s, NEW t, Are(s, n), Are(t, k)
  PROVE  Joins(s \o t, s, n, t, k)
<1>1. /\ s \o t \in Seq(Bytes) /\ Len(s \o t) = n + k
      /\ \A i \in 1 .. n + k : (s \o t)[i] = IF i <= n THEN s[i] ELSE t[i - n]
  BY ConcatProperties DEF Are
<1>2. \A i \in 1 .. n : i \in 1 .. n + k /\ i <= n
  OBVIOUS
<1>3. \A i \in 1 .. k : n + i \in 1 .. n + k /\ ~(n + i <= n) /\ (n + i) - n = i
  OBVIOUS
<1> QED BY <1>1, <1>2, <1>3 DEF Are, Joins

LEMMA Reversed ==
  ASSUME NEW n \in Nat, NEW s, Are(s, n)
  PROVE  Are(Reverse(s), n) /\ \A i \in 1 .. n : Reverse(s)[i] = s[(n - i) + 1]
<1>1. Reverse(s) = [i \in 1 .. n |-> s[(n - i) + 1]]
  BY DEF Are, Reverse
<1>2. \A i \in 1 .. n : s[(n - i) + 1] \in Bytes
  <2>1. ASSUME NEW i \in 1 .. n PROVE (n - i) + 1 \in 1 .. n
    OBVIOUS
  <2>2. \A i \in 1 .. n : s[i] \in Bytes
    BY ElementOfSeq DEF Are
  <2> QED BY <2>1, <2>2
<1>3. [i \in 1 .. n |-> s[(n - i) + 1]] \in Seq(Bytes)
  BY <1>2, IsASeq
<1>4. Reverse(s) \in Seq(Bytes)
  BY <1>1, <1>3
<1>5. Len(Reverse(s)) \in Nat /\ DOMAIN Reverse(s) = 1 .. Len(Reverse(s))
  BY <1>4, LenProperties
<1>6. DOMAIN Reverse(s) = 1 .. n
  BY <1>1
<1>7. Len(Reverse(s)) = n
  <2>1. \A x \in Nat : 1 .. x = 1 .. n => x = n
    OBVIOUS
  <2> DEFINE x == Len(Reverse(s))
  <2>2. x \in Nat /\ 1 .. x = 1 .. n
    BY <1>5, <1>6
  <2> HIDE DEF x
  <2>3. x = n
    BY <2>1, <2>2
  <2> QED BY <2>3 DEF x
<1> QED BY <1>1, <1>4, <1>7 DEF Are

LEMMA Low16 ==
  ASSUME NEW v \in 0 .. Values16 - 1
  PROVE  LET m == InMemory16(v)
         IN Are(m, 2) /\ m[2] * Byte + m[1] = v
<1> DEFINE low == v % Byte
           high == v \div Byte
<1>1. Byte \in Nat \ {0} /\ v \in Nat /\ v \in 0 .. Byte * Byte - 1
  BY ValuesPositive DEF Values16
<1>2. low \in 0 .. Byte - 1 /\ high \in Nat /\ v = Byte * high + low
  BY <1>1, DivMod
<1>3. high \in 0 .. Byte - 1
  BY <1>1, Quotient
<1>4. high % Byte = high
  <2>1. \A x \in 0 .. Byte - 1 : x % Byte = x
    BY <1>1
  <2> QED BY <1>3, <2>1
<1>5. InMemory16(v) = <<low, high>>
  BY <1>4 DEF InMemory16
<1> HIDE DEF low, high
<1>6. Are(<<low, high>>, 2) /\ <<low, high>>[1] = low /\ <<low, high>>[2] = high
  BY <1>2 DEF Are, Bytes
<1>7. high * Byte + low = v
  BY <1>1, <1>2
<1> QED BY <1>5, <1>6, <1>7

LEMMA Big16 ==
  ASSUME NEW v \in 0 .. Values16 - 1
  PROVE  LET b == to_big_endian(InMemory16(v))
         IN Are(b, 2) /\ b[1] * Byte + b[2] = v
<1> DEFINE m == InMemory16(v)
<1>1. Are(m, 2) /\ m[2] * Byte + m[1] = v
  BY Low16
<1> HIDE DEF m
<1>2. Are(Reverse(m), 2) /\ \A i \in 1 .. 2 : Reverse(m)[i] = m[(2 - i) + 1]
  BY <1>1, Reversed
<1>3. Reverse(m)[1] = m[2] /\ Reverse(m)[2] = m[1]
  BY <1>2
<1>4. to_big_endian(InMemory16(v)) = Reverse(m)
  BY DEF to_big_endian, m
<1> QED BY <1>1, <1>2, <1>3, <1>4

LEMMA Big32 ==
  ASSUME NEW v \in 0 .. Values32 - 1
  PROVE  LET b == to_big_endian(InMemory32(v))
         IN Are(b, 4) /\ (b[1] * Byte + b[2]) * Values16 + (b[3] * Byte + b[4]) = v
<1> DEFINE low == v % Values16
           high == v \div Values16
           s == InMemory16(low)
           t == InMemory16(high)
           b == to_big_endian(InMemory32(v))
<1>1. Values16 \in Nat \ {0} /\ v \in Nat /\ v \in 0 .. Values16 * Values16 - 1
  BY ValuesPositive DEF Values32
<1>2. low \in 0 .. Values16 - 1 /\ high \in Nat /\ v = Values16 * high + low
  BY <1>1, DivMod
<1>3. high \in 0 .. Values16 - 1
  BY <1>1, Quotient
<1>4. InMemory32(v) = s \o t
  BY DEF InMemory32
<1> HIDE DEF low, high
<1>5. /\ Are(s, 2) /\ s[2] * Byte + s[1] = low
      /\ Are(t, 2) /\ t[2] * Byte + t[1] = high
  BY <1>2, <1>3, Low16
<1> HIDE DEF s, t
<1> DEFINE m == s \o t
<1>6. Joins(m, s, 2, t, 2)
  BY <1>5, Joined
<1>7. b = Reverse(m)
  BY <1>4 DEF to_big_endian
<1> HIDE DEF m, b
<1>8. /\ Are(m, 4) /\ m[1] = s[1] /\ m[2] = s[2]
      /\ m[2 + 1] = t[1] /\ m[2 + 2] = t[2]
  BY <1>6 DEF Joins
<1>9. Are(Reverse(m), 4) /\ \A i \in 1 .. 4 : Reverse(m)[i] = m[(4 - i) + 1]
  BY <1>8, Reversed
<1>10. b[1] = t[2] /\ b[2] = t[1] /\ b[3] = s[2] /\ b[4] = s[1]
  <2>1. b[1] = m[4] /\ b[2] = m[3] /\ b[3] = m[2] /\ b[4] = m[1]
    BY <1>7, <1>9
  <2> QED BY <1>8, <2>1
<1>11. (b[1] * Byte + b[2]) * Values16 + (b[3] * Byte + b[4]) = high * Values16 + low
  BY <1>5, <1>10
<1>12. high * Values16 + low = v
  BY <1>1, <1>2
<1> QED BY <1>7, <1>9, <1>11, <1>12 DEF b

LEMMA HeaderReads ==
  ASSUME NEW seq \in 0 .. Values16 - 1, NEW time \in 0 .. Values32 - 1, NEW source32 \in 0 .. Values32 - 1
  PROVE  LET h == Header(seq, time, source32)
         IN SequenceIn(h) = seq /\ TimestampIn(h) = time /\ SsrcIn(h) = source32
<1> DEFINE p == push_back(push_back(<<>>, <<"0x80">>), <<"0x78">>)
           a == to_big_endian(InMemory16(seq))
           b == to_big_endian(InMemory32(time))
           c == to_big_endian(InMemory32(source32))
           h == Header(seq, time, source32)
<1>1. h = ((p \o a) \o b) \o c
  BY DEF Header, push_back
<1>2. Are(p, 2)
  <2>1. Are(<<>>, 0)
    BY DEF Are
  <2>2. \A x \in Bytes : Are(<<x>>, 1)
    BY DEF Are
  <2>3. Are(<<"0x80">>, 1) /\ Are(<<"0x78">>, 1)
    <3>1. "0x80" \in Bytes /\ "0x78" \in Bytes
      BY DEF Bytes
    <3> QED BY <2>2, <3>1
  <2> DEFINE one == <<>> \o <<"0x80">>
             two == one \o <<"0x78">>
  <2>4. Joins(one, <<>>, 0, <<"0x80">>, 1)
    BY <2>1, <2>3, Joined
  <2> HIDE DEF one
  <2>5. Are(one, 1)
    BY <2>4 DEF Joins
  <2>6. Joins(two, one, 1, <<"0x78">>, 1)
    BY <2>3, <2>5, Joined
  <2> HIDE DEF two
  <2>7. Are(two, 2)
    BY <2>6 DEF Joins
  <2> QED BY <2>7 DEF push_back, one, two
<1>3. Are(a, 2) /\ a[1] * Byte + a[2] = seq
  BY Big16
<1>4. Are(b, 4) /\ (b[1] * Byte + b[2]) * Values16 + (b[3] * Byte + b[4]) = time
  BY Big32
<1>5. Are(c, 4) /\ (c[1] * Byte + c[2]) * Values16 + (c[3] * Byte + c[4]) = source32
  BY Big32
<1> HIDE DEF p, a, b, c
<1> DEFINE q == p \o a
           r == q \o b
<1>6. Joins(q, p, 2, a, 2)
  BY <1>2, <1>3, Joined
<1> HIDE DEF q
<1>7. Are(q, 4) /\ q[2 + 1] = a[1] /\ q[2 + 2] = a[2]
  BY <1>6 DEF Joins
<1>8. Joins(r, q, 4, b, 4)
  BY <1>4, <1>7, Joined
<1> HIDE DEF r
<1>9. /\ Are(r, 8) /\ r[3] = q[3] /\ r[4] = q[4]
      /\ r[4 + 1] = b[1] /\ r[4 + 2] = b[2] /\ r[4 + 3] = b[3] /\ r[4 + 4] = b[4]
  BY <1>8 DEF Joins
<1>10. Joins(h, r, 8, c, 4)
  <2>1. Joins(r \o c, r, 8, c, 4)
    BY <1>5, <1>9, Joined
  <2> QED BY <1>1, <2>1 DEF q, r
<1> HIDE DEF h
<1>11. /\ h[3] = r[3] /\ h[4] = r[4] /\ h[5] = r[5] /\ h[6] = r[6] /\ h[7] = r[7] /\ h[8] = r[8]
       /\ h[8 + 1] = c[1] /\ h[8 + 2] = c[2] /\ h[8 + 3] = c[3] /\ h[8 + 4] = c[4]
  BY <1>10 DEF Joins
<1>12. /\ h[3] = a[1] /\ h[4] = a[2] /\ h[5] = b[1] /\ h[6] = b[2] /\ h[7] = b[3] /\ h[8] = b[4]
       /\ h[9] = c[1] /\ h[10] = c[2] /\ h[11] = c[3] /\ h[12] = c[4]
  BY <1>7, <1>9, <1>11
<1>13. SequenceIn(h) = seq
  BY <1>3, <1>12 DEF SequenceIn, Read16
<1>14. TimestampIn(h) = time
  BY <1>4, <1>12 DEF TimestampIn, Read16, Read32
<1>15. SsrcIn(h) = source32
  BY <1>5, <1>12 DEF SsrcIn, Read16, Read32
<1> QED BY <1>13, <1>14, <1>15 DEF h
-----------------------------------------------------------------------------
(* The headers of the packets that were built, one for every packet on the *)
(* wire and the one that is on its way.  The first part counts them, the   *)
(* second says what each holds, the third that the ssrc, once it is known, *)
(* is the same from then on.                                               *)
Built == Len(wire) + (IF transmit \in {"encrypt", "send"} THEN 1 ELSE 0)

Named(h) == h # Garbled /\ SsrcIn(h) # 0

Fits(h, n) ==
  /\ SequenceIn(h) = n % Values16
  /\ TimestampIn(h) = (n * Samples) % Values32
  /\ SsrcIn(h) \in {0, Ssrc}

Counted ==
  /\ IsSeq(wire)
  /\ sequence = Built % Values16
  /\ timestamp = (Built * Samples) % Values32

Stamped ==
  /\ \A i \in 1 .. Len(wire) : wire[i].header # Garbled => Fits(wire[i].header, i - 1)
  /\ transmit \in {"encrypt", "send"} => Fits(header, Len(wire))

OneSource ==
  /\ ssrc \in {0, Ssrc}
  /\ \A k \in 1 .. Len(wire) : Named(wire[k].header) => ssrc = Ssrc
  /\ \A i \in 1 .. Len(wire) : \A k \in 1 .. i - 1 :
       wire[i].header # Garbled /\ Named(wire[k].header) => SsrcIn(wire[i].header) = Ssrc
  /\ transmit \in {"encrypt", "send"} =>
       /\ SsrcIn(header) # 0 => ssrc = Ssrc
       /\ \A k \in 1 .. Len(wire) : Named(wire[k].header) => SsrcIn(header) = Ssrc

HeadersInv == Counted /\ Stamped /\ OneSource

LEMMA HeadersKept == HeadersInv => HeadersInOrder
<1> SUFFICES ASSUME HeadersInv PROVE HeadersInOrder
  OBVIOUS
<1>1. DOMAIN wire = 1 .. Len(wire)
  BY DEF HeadersInv, Counted, IsSeq
<1>2. ASSUME NEW i \in 1 .. Len(wire), wire[i].header # Garbled
      PROVE  /\ Fits(wire[i].header, i - 1)
             /\ \A k \in 1 .. i - 1 : Named(wire[k].header) => SsrcIn(wire[i].header) = Ssrc
  BY <1>2 DEF HeadersInv, Stamped, OneSource
<1> QED BY <1>1, <1>2 DEF HeadersInOrder, Fits, Named

LEMMA InitHeaders == Init => HeadersInv
<1> SUFFICES ASSUME Init PROVE HeadersInv
  OBVIOUS
<1>1. wire = <<>> /\ Len(wire) = 0 /\ transmit = "wait" /\ ssrc = 0
  BY DEF Init
<1>2. 0 % Values16 = 0 /\ 0 % Values32 = 0
  <2>1. \A m \in Nat \ {0} : 0 % m = 0
    OBVIOUS
  <2> QED BY <2>1, ValuesPositive
<1>3. Built = 0 /\ 0 * Samples = 0
  BY <1>1, SampleAssumption DEF Built
<1>4. IsSeq(wire)
  <2>1. wire \in Seq({})
    BY <1>1
  <2> QED BY <2>1 DEF IsSeq
<1>5. Counted
  BY <1>2, <1>3, <1>4 DEF Counted, Init
<1>6. Stamped /\ OneSource
  BY <1>1 DEF Stamped, OneSource
<1> QED BY <1>5, <1>6 DEF HeadersInv

LEMMA NextHeaders == HeadersInv /\ [Next]_vars => HeadersInv'
<1> SUFFICES ASSUME HeadersInv, [Next]_vars PROVE HeadersInv'
  OBVIOUS
<1> USE DEF sink, session
<1> DEFINE n == Len(wire)
<1>1. n \in Nat
  BY DEF HeadersInv, Counted, IsSeq
<1>2. /\ Values16 \in Nat \ {0} /\ Values32 \in Nat \ {0} /\ Samples \in Nat
      /\ Ssrc \in 1 .. Values32 - 1
  BY ValuesPositive, SampleAssumption
<1>3. CASE BuildHeader
  <2>1. /\ transmit = "header" /\ transmit' = "encrypt" /\ UNCHANGED <<wire, ssrc>>
        /\ header' = Header(sequence, timestamp, ssrc)
        /\ sequence' = (sequence + 1) % Values16
        /\ timestamp' = (timestamp + Samples) % Values32
    BY <1>3 DEF BuildHeader
  <2>2. sequence = n % Values16 /\ timestamp = (n * Samples) % Values32
    <3>1. Built = n
      BY <1>1, <2>1 DEF Built
    <3> QED BY <3>1 DEF HeadersInv, Counted
  <2> HIDE DEF n
  <2>3. n * Samples \in Nat
    <3>1. \A x, y \in Nat : x * y \in Nat
      OBVIOUS
    <3> QED BY <1>1, <1>2, <3>1
  <2>4. sequence \in 0 .. Values16 - 1 /\ timestamp \in 0 .. Values32 - 1
    <3>1. n % Values16 \in 0 .. Values16 - 1
      BY <1>1, <1>2, DivMod
    <3>2. (n * Samples) % Values32 \in 0 .. Values32 - 1
      BY <1>2, <2>3, DivMod
    <3> QED BY <2>2, <3>1, <3>2
  <2>5. ssrc \in {0, Ssrc} /\ ssrc \in 0 .. Values32 - 1
    BY <1>2 DEF HeadersInv, OneSource
  <2>6. SequenceIn(header') = sequence /\ TimestampIn(header') = timestamp /\ SsrcIn(header') = ssrc
    BY <2>1, <2>4, <2>5, HeaderReads
  <2>7. Fits(header', n)
    BY <2>2, <2>5, <2>6 DEF Fits
  <2>8. sequence' = (n + 1) % Values16
    <3>1. ((n % Values16) + 1) % Values16 = (n + 1) % Values16
      BY <1>1, <1>2, WrappedSum
    <3> QED BY <2>1, <2>2, <3>1
  <2>9. timestamp' = ((n + 1) * Samples) % Values32
    <3>1. (((n * Samples) % Values32) + Samples) % Values32 = ((n * Samples) + Samples) % Values32
      BY <1>2, <2>3, WrappedSum
    <3>2. (n * Samples) + Samples = (n + 1) * Samples
      <4>1. \A x, y \in Nat : (x * y) + y = (x + 1) * y
        OBVIOUS
      <4> QED BY <1>1, <1>2, <4>1
    <3> QED BY <2>1, <2>2, <3>1, <3>2
  <2>10. Built' = n + 1
    BY <2>1 DEF Built, n
  <2>11. Counted'
    BY <2>1, <2>8, <2>9, <2>10 DEF HeadersInv, Counted, IsSeq
  <2>12. Stamped'
    BY <2>1, <2>7 DEF HeadersInv, Stamped, n
  <2>13. OneSource'
    BY <2>1, <2>6 DEF HeadersInv, OneSource
  <2> QED BY <2>11, <2>12, <2>13 DEF HeadersInv
<1>4. CASE Send
  <2>1. PICK bytes \in {header, Garbled} :
          wire' = Append(wire, [frame |-> frame, header |-> bytes])
    BY <1>4 DEF Send
  <2>2. /\ transmit = "send" /\ transmit' = "pace"
        /\ UNCHANGED <<header, sequence, timestamp, ssrc>>
    BY <1>4 DEF Send
  <2> DEFINE packet == [frame |-> frame, header |-> bytes]
  <2>3. packet.header = bytes /\ wire' = Append(wire, packet)
    BY <2>1
  <2> HIDE DEF packet
  <2>4. /\ IsSeq(wire') /\ Len(wire') = n + 1
        /\ \A i \in 1 .. n : wire'[i] = wire[i]
        /\ wire'[n + 1] = packet
    <3>1. PICK S : wire \in Seq(S)
      BY DEF HeadersInv, Counted, IsSeq
    <3>2. wire \in Seq(S \cup {packet})
      BY <3>1
    <3>3. wire' \in Seq(S \cup {packet})
      BY <2>3, <3>2
    <3> QED BY <2>3, <3>2, <3>3 DEF IsSeq
  <2>5. Built' = Built
    BY <1>1, <2>2, <2>4 DEF Built
  <2>6. Counted'
    BY <2>2, <2>4, <2>5 DEF HeadersInv, Counted
  <2>7. /\ Fits(header, n)
        /\ SsrcIn(header) # 0 => ssrc = Ssrc
        /\ \A k \in 1 .. n : Named(wire[k].header) => SsrcIn(header) = Ssrc
    BY <2>2 DEF HeadersInv, Stamped, OneSource
  <2>8. ASSUME NEW i \in 1 .. n + 1
        PROVE  \/ i \in 1 .. n /\ wire'[i] = wire[i]
               \/ i = n + 1 /\ wire'[i].header = bytes
    <3>1. i \in 1 .. n \/ i = n + 1
      BY <1>1
    <3> QED BY <2>3, <2>4, <3>1
  <2>9. Stamped'
    <3>1. ASSUME NEW i \in 1 .. n + 1, wire'[i].header # Garbled
          PROVE  Fits(wire'[i].header, i - 1)
      <4>1. CASE i \in 1 .. n /\ wire'[i] = wire[i]
        BY <3>1, <4>1 DEF HeadersInv, Stamped
      <4>2. CASE i = n + 1 /\ wire'[i].header = bytes
        <5>1. bytes = header /\ i - 1 = n
          BY <1>1, <2>1, <3>1, <4>2
        <5> QED BY <2>7, <4>2, <5>1
      <4> QED BY <2>8, <4>1, <4>2
    <3> QED BY <2>2, <2>4, <3>1 DEF Stamped, Fits
  <2>10. OneSource'
    <3>1. ASSUME NEW k \in 1 .. n + 1, Named(wire'[k].header)
          PROVE  ssrc = Ssrc
      <4>1. CASE k \in 1 .. n /\ wire'[k] = wire[k]
        BY <3>1, <4>1 DEF HeadersInv, OneSource
      <4>2. CASE k = n + 1 /\ wire'[k].header = bytes
        BY <2>1, <2>7, <3>1, <4>2 DEF Named
      <4> QED BY <2>8, <4>1, <4>2
    <3>2. ASSUME NEW i \in 1 .. n + 1, NEW k \in 1 .. i - 1,
                 wire'[i].header # Garbled, Named(wire'[k].header)
          PROVE  SsrcIn(wire'[i].header) = Ssrc
      <4>1. k \in 1 .. n /\ wire'[k] = wire[k]
        BY <1>1, <2>4
      <4>2. CASE i \in 1 .. n /\ wire'[i] = wire[i]
        BY <3>2, <4>1, <4>2 DEF HeadersInv, OneSource
      <4>3. CASE i = n + 1 /\ wire'[i].header = bytes
        BY <2>1, <2>7, <3>2, <4>1, <4>3
      <4> QED BY <2>8, <4>2, <4>3
    <3>3. ssrc \in {0, Ssrc}
      BY DEF HeadersInv, OneSource
    <3> QED BY <2>2, <2>4, <3>1, <3>2, <3>3 DEF OneSource
  <2> QED BY <2>6, <2>9, <2>10 DEF HeadersInv
<1>5. CASE Ready
  <2>1. /\ UNCHANGED <<transmit, header, sequence, timestamp, wire>>
        /\ ssrc = 0 /\ ssrc' = Ssrc
    BY <1>5 DEF Ready
  <2>2. Counted' /\ Stamped'
    BY <2>1 DEF HeadersInv, Counted, Stamped, Built
  <2>3. OneSource'
    BY <2>1 DEF HeadersInv, OneSource
  <2> QED BY <2>2, <2>3 DEF HeadersInv
<1>6. CASE \/ Transcoding \/ BeginTransmit \/ Pop \/ Encrypt \/ SendFails \/ Pace \/ Main
           \/ SessionDescription \/ Disconnect \/ BotEnds \/ UNCHANGED vars
  <2>1. /\ UNCHANGED <<header, sequence, timestamp, wire, ssrc>>
        /\ transmit' \in {"encrypt", "send"} <=> transmit \in {"encrypt", "send"}
    BY <1>6
    DEF Transcoding, CreateEncoder, EncoderFails, Transcode, Push, BeginTransmit, Pop, Encrypt,
        SendFails, Pace, Terminate, Main, Connect, FiveSeconds, SetSpeaking, SetConnected, Catch,
        SessionDescription, Disconnect, BotEnds, vars
  <2>2. Built' = Built
    BY <2>1 DEF Built
  <2>3. Counted' /\ Stamped'
    BY <2>1, <2>2 DEF HeadersInv, Counted, Stamped
  <2>4. OneSource'
    BY <2>1 DEF HeadersInv, OneSource
  <2> QED BY <2>3, <2>4 DEF HeadersInv
<1> QED
  BY <1>3, <1>4, <1>5, <1>6 DEF Next, Transmitting, Session

(* For bytes of any number of values, frames of any number of samples and  *)
(* any number of packets, so however often both counters wrap: the headers *)
(* a receiver reads carry consecutive sequence numbers, the timestamps     *)
(* that belong to them, and one ssrc.                                      *)
THEOREM HeadersFollow == Spec => []HeadersInOrder
BY InitHeaders, NextHeaders, HeadersKept, PTL DEF Spec
=============================================================================
