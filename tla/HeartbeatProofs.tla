--------------------------- MODULE HeartbeatProofs ---------------------------
(***************************************************************************)
(* Theorems about Heartbeat, for every nonce width, every set of loops and *)
(* every number of heartbeats.                                             *)
(***************************************************************************)
EXTENDS Heartbeat, TLAPS

-----------------------------------------------------------------------------
(* The unsigned difference is a word, counts one more for every increment  *)
(* that does not wrap it, and is zero only between equal words.            *)
LEMMA SubWord ==
  ASSUME NEW m \in Word, NEW n \in Word
  PROVE  Sub(m, n) \in Word
  BY HeartbeatAssumption DEF Sub, Word

LEMMA SubNat ==
  ASSUME NEW m \in Word, NEW n \in Word
  PROVE  Sub(m, n) \in Nat
  BY SubWord, HeartbeatAssumption DEF Word

LEMMA IncWord ==
  ASSUME NEW n \in Word
  PROVE  Inc(n) \in Word
  BY HeartbeatAssumption DEF Inc, Word

LEMMA SubInc ==
  ASSUME NEW m \in Word, NEW n \in Word, Sub(m, n) < Modulus - 1
  PROVE  Sub(Inc(m), n) = Sub(m, n) + 1
  BY HeartbeatAssumption DEF Sub, Inc, Word

LEMMA SubSelf ==
  ASSUME NEW n \in Word
  PROVE  Sub(n, n) = 0
  BY HeartbeatAssumption DEF Sub, Word

-----------------------------------------------------------------------------
(* Every variable keeps its type.                                          *)
THEOREM TypeCorrect == Spec => []TypeOK
<1>1. Init => TypeOK
  <2> SUFFICES ASSUME Init PROVE TypeOK
    OBVIOUS
  <2>1. 0 \in Word
    BY HeartbeatAssumption DEF Word
  <2>2. flight \in Seq(Word)
    BY DEF Init
  <2> QED
    BY <2>1, <2>2 DEF Init, TypeOK
<1>2. TypeOK /\ [Next]_vars => TypeOK'
  <2> SUFFICES ASSUME TypeOK, [Next]_vars PROVE TypeOK'
    OBVIOUS
  <2> USE HeartbeatAssumption DEF TypeOK, LivePC, OverPC, Goto
  <2>1. ASSUME NEW l \in Loops, Create(l) PROVE TypeOK'
    BY <2>1 DEF Create
  <2>2. ASSUME NEW l \in Loops, CancellationSeen(l) PROVE TypeOK'
    BY <2>2 DEF CancellationSeen, Word
  <2>3. ASSUME NEW l \in Loops, Enter(l) PROVE TypeOK'
    BY <2>3 DEF Enter
  <2>4. ASSUME NEW l \in Loops, Compare(l) PROVE TypeOK'
    BY <2>4 DEF Compare, Word
  <2>5. ASSUME NEW l \in Loops, Fire(l) PROVE TypeOK'
    BY <2>5 DEF Fire
  <2>6. ASSUME NEW l \in Loops, Beat(l) PROVE TypeOK'
    <3>1. nonce' \in Word
      BY <2>6, IncWord DEF Beat, StoreNonce
    <3>2. QED
      BY <2>6, <3>1 DEF Beat, StoreNonce, Word
  <2>7. ASSUME NEW l \in Loops, BeatFails(l) PROVE TypeOK'
    <3>1. nonce' \in Word
      BY <2>7, IncWord DEF BeatFails, StoreNonce
    <3>2. QED
      BY <2>7, <3>1 DEF BeatFails, StoreNonce, Word
  <2>8. CASE Acknowledge
    BY <2>8 DEF Acknowledge
  <2>9. CASE Disconnect
    BY <2>9 DEF Disconnect
  <2>10. CASE UNCHANGED vars
    BY <2>10 DEF vars
  <2> QED
    BY <2>1, <2>2, <2>3, <2>4, <2>5, <2>6, <2>7, <2>8, <2>9, <2>10
    DEF Next, Step
<1>3. QED
  BY <1>1, <1>2, PTL DEF Spec

-----------------------------------------------------------------------------
(* Why the window holds.  While loops do not overlap, the one live loop is *)
(* alone to write _nonce, so what it holds in its register is still        *)
(* current; having passed the comparison it sees a difference of at most   *)
(* one; and the nonces under way are more recent than the last answer, in  *)
(* the order they were sent.                                               *)
OneLive == \A k, l \in Loops : Live(k) /\ Live(l) => k = l

RegisterCurrent ==
  \A l \in Loops : pc[l] \in {"checking", "bumping"} => reg[l] = nonce

Passed ==
  \A l \in Loops : pc[l] \in {"waiting", "bumping"} => Sub(nonce, received) <= 1

FlightOrdered ==
  /\ \A i \in 1 .. Len(flight) : Sub(nonce, flight[i]) < Sub(nonce, received)
  /\ \A i, j \in 1 .. Len(flight) :
       i < j => Sub(nonce, flight[j]) < Sub(nonce, flight[i])

WindowInv ==
  ~overlapped =>
    /\ OneLive
    /\ RegisterCurrent
    /\ Passed
    /\ FlightOrdered
    /\ Sub(nonce, received) <= 2

LEMMA FlightWords ==
  ASSUME TypeOK, NEW i \in 1 .. Len(flight)
  PROVE  flight[i] \in Word
  BY DEF TypeOK

(* What a heartbeat does to the differences of a loop that is alone.       *)
LEMMA BeatDifferences ==
  ASSUME TypeOK, WindowInv, ~overlapped, NEW l \in Loops, StoreNonce(l)
  PROVE  /\ nonce' \in Word
         /\ Sub(nonce', received) = Sub(nonce, received) + 1
         /\ Sub(nonce, received) <= 1
         /\ \A i \in 1 .. Len(flight) :
              Sub(nonce', flight[i]) = Sub(nonce, flight[i]) + 1
<1>1. nonce' = Inc(nonce) /\ Sub(nonce, received) <= 1
  BY DEF StoreNonce, WindowInv, RegisterCurrent, Passed
<1>2. nonce \in Word /\ received \in Word
  BY DEF TypeOK
<1>3. ASSUME NEW i \in 1 .. Len(flight)
      PROVE  flight[i] \in Word /\ Sub(nonce, flight[i]) < Modulus - 1
  <2>1. flight[i] \in Word
    BY DEF TypeOK
  <2>2. Sub(nonce, flight[i]) < Sub(nonce, received)
    BY DEF WindowInv, FlightOrdered
  <2>3. Sub(nonce, flight[i]) \in Int /\ Sub(nonce, received) \in Int
    BY <1>2, <2>1, SubNat
  <2> QED
    BY <1>1, <2>1, <2>2, <2>3, HeartbeatAssumption
<1>4. Sub(nonce, received) < Modulus - 1
  BY <1>1, <1>2, SubNat, HeartbeatAssumption
<1> QED
  BY <1>1, <1>2, <1>3, <1>4, SubInc, IncWord

LEMMA WindowStep == TypeOK /\ WindowInv /\ [Next]_vars => WindowInv'
<1> SUFFICES ASSUME TypeOK, WindowInv, [Next]_vars, ~overlapped'
             PROVE  /\ OneLive'
                    /\ RegisterCurrent'
                    /\ Passed'
                    /\ FlightOrdered'
                    /\ Sub(nonce', received') <= 2
  BY DEF WindowInv
<1> USE DEF Goto, Live, LivePC
<1>1. ~overlapped
  BY DEF Next, Step, vars, Create, CancellationSeen, Enter, Compare, Fire,
         Beat, BeatFails, Acknowledge, Disconnect, TypeOK
<1>2. /\ OneLive /\ RegisterCurrent /\ Passed /\ FlightOrdered
      /\ Sub(nonce, received) <= 2
  BY <1>1 DEF WindowInv
<1>3. ASSUME NEW l \in Loops, Create(l) PROVE WindowInv'
  BY <1>2, <1>3 DEF Create, TypeOK, WindowInv, OneLive, RegisterCurrent, Passed,
                   FlightOrdered
<1>4. ASSUME NEW l \in Loops, CancellationSeen(l) PROVE WindowInv'
  BY <1>2, <1>4 DEF CancellationSeen, TypeOK, WindowInv, OneLive,
                   RegisterCurrent, Passed, FlightOrdered
<1>5. ASSUME NEW l \in Loops, Enter(l) PROVE WindowInv'
  BY <1>2, <1>5 DEF Enter, TypeOK, WindowInv, OneLive, RegisterCurrent, Passed,
                   FlightOrdered
<1>6. ASSUME NEW l \in Loops, Compare(l) PROVE WindowInv'
  <2>1. pc'[l] = "waiting" => Sub(nonce, received) <= 1
    <3>1. reg[l] = nonce
      BY <1>2, <1>6 DEF Compare, RegisterCurrent
    <3>2. Sub(nonce, received) \in Int
      BY SubNat DEF TypeOK
    <3> QED
      BY <1>6, <3>1, <3>2 DEF Compare, NonceMismatch, TypeOK
  <2>2. OneLive' /\ RegisterCurrent' /\ Passed'
    BY <1>2, <1>6, <2>1 DEF Compare, TypeOK, OneLive, RegisterCurrent, Passed
  <2> QED
    BY <1>2, <1>6, <2>2 DEF Compare, WindowInv, FlightOrdered
<1>7. ASSUME NEW l \in Loops, Fire(l) PROVE WindowInv'
  BY <1>2, <1>7 DEF Fire, TypeOK, WindowInv, OneLive, RegisterCurrent, Passed,
                   FlightOrdered
<1>8. ASSUME NEW l \in Loops, StoreNonce(l), pc' = [pc EXCEPT ![l] = pc'[l]],
             pc'[l] \in {"sent", "unsent"}, received' = received
      PROVE  /\ OneLive' /\ RegisterCurrent' /\ Passed'
             /\ Sub(nonce', received') <= 2
  <2>1. \A k \in Loops : k # l => ~Live(k) /\ pc'[k] = pc[k]
    BY <1>2, <1>8 DEF StoreNonce, OneLive, TypeOK
  <2>2. Sub(nonce', received) = Sub(nonce, received) + 1 /\ Sub(nonce, received) <= 1
    BY <1>1, <1>8, BeatDifferences
  <2>3. Sub(nonce, received) \in Int
    BY SubNat DEF TypeOK
  <2> QED
    BY <1>8, <2>1, <2>2, <2>3 DEF OneLive, RegisterCurrent, Passed, TypeOK
<1>9. ASSUME NEW l \in Loops, Beat(l) PROVE WindowInv'
  <2>1. /\ OneLive' /\ RegisterCurrent' /\ Passed'
        /\ Sub(nonce', received') <= 2
    BY <1>8, <1>9 DEF Beat, TypeOK, StoreNonce
  <2>2. /\ nonce' \in Word
        /\ Sub(nonce', received) = Sub(nonce, received) + 1
        /\ \A i \in 1 .. Len(flight) :
             Sub(nonce', flight[i]) = Sub(nonce, flight[i]) + 1
    BY <1>1, <1>9, BeatDifferences DEF Beat
  <2>3. Sub(nonce', nonce') = 0
    BY <2>2, SubSelf
  <2>4. /\ Sub(nonce, received) \in Nat
        /\ \A i \in 1 .. Len(flight) : Sub(nonce, flight[i]) \in Nat
    BY FlightWords, SubNat DEF TypeOK
  <2>5. /\ Len(flight') = Len(flight) + 1
        /\ flight'[Len(flight')] = nonce'
        /\ \A i \in 1 .. Len(flight) : flight'[i] = flight[i]
        /\ Len(flight) \in Nat
    BY <1>9, <2>2 DEF Beat, TypeOK
  <2>6. \A i \in 1 .. Len(flight') : i \in 1 .. Len(flight) \/ i = Len(flight')
    BY <2>5
  <2>7. FlightOrdered'
    <3>1. ASSUME NEW i \in 1 .. Len(flight')
          PROVE  Sub(nonce', flight'[i]) < Sub(nonce', received')
      BY <1>2, <1>9, <2>2, <2>3, <2>4, <2>5, <2>6 DEF Beat, FlightOrdered
    <3>2. ASSUME NEW i \in 1 .. Len(flight'), NEW j \in 1 .. Len(flight'), i < j
          PROVE  Sub(nonce', flight'[j]) < Sub(nonce', flight'[i])
      <4>1. i \in 1 .. Len(flight)
        BY <2>5, <3>2
      <4> QED
        BY <1>2, <3>2, <4>1, <2>2, <2>3, <2>4, <2>5, <2>6 DEF FlightOrdered
    <3> QED
      BY <3>1, <3>2 DEF FlightOrdered
  <2> QED
    BY <2>1, <2>7 DEF WindowInv
<1>10. ASSUME NEW l \in Loops, BeatFails(l) PROVE WindowInv'
  <2>1. /\ OneLive' /\ RegisterCurrent' /\ Passed'
        /\ Sub(nonce', received') <= 2
    BY <1>8, <1>10 DEF BeatFails, TypeOK, StoreNonce
  <2>2. /\ Sub(nonce', received) = Sub(nonce, received) + 1
        /\ \A i \in 1 .. Len(flight) :
             Sub(nonce', flight[i]) = Sub(nonce, flight[i]) + 1
    BY <1>1, <1>10, BeatDifferences DEF BeatFails
  <2>3. /\ Sub(nonce, received) \in Nat
        /\ \A i \in 1 .. Len(flight) : Sub(nonce, flight[i]) \in Nat
    BY FlightWords, SubNat DEF TypeOK
  <2>4. FlightOrdered'
    BY <1>2, <1>10, <2>2, <2>3 DEF BeatFails, FlightOrdered
  <2> QED
    BY <2>1, <2>4 DEF WindowInv
<1>11. CASE Acknowledge
  <2>1. /\ Len(flight) \in Nat \ {0}
        /\ received' = flight[1]
        /\ Len(flight') = Len(flight) - 1
        /\ \A i \in 1 .. Len(flight') : flight'[i] = flight[i + 1]
    BY <1>11 DEF Acknowledge, TypeOK
  <2>2. Sub(nonce, received') < Sub(nonce, received)
    BY <1>2, <2>1 DEF FlightOrdered
  <2>8. received' \in Word
    BY <2>1 DEF TypeOK
  <2>3. Sub(nonce, received) \in Nat /\ Sub(nonce, received') \in Nat
    BY <2>1, <2>8, SubNat DEF TypeOK
  <2>4. FlightOrdered'
    <3>1. \A i \in 1 .. Len(flight') : i + 1 \in 1 .. Len(flight) /\ 1 < i + 1
      BY <2>1
    <3> QED
      BY <1>2, <1>11, <2>1, <3>1 DEF Acknowledge, FlightOrdered
  <2>5. OneLive' /\ RegisterCurrent' /\ Passed' /\ Sub(nonce', received') <= 2
    BY <1>2, <1>11, <2>2, <2>3
    DEF Acknowledge, OneLive, RegisterCurrent, Passed
  <2> QED
    BY <2>4, <2>5 DEF WindowInv
<1>12. CASE Disconnect
  BY <1>2, <1>12 DEF Disconnect, WindowInv, OneLive, RegisterCurrent, Passed,
                    FlightOrdered
<1>13. CASE UNCHANGED vars
  BY <1>2, <1>13 DEF vars, WindowInv, OneLive, RegisterCurrent, Passed,
                    FlightOrdered
<1> QED
  BY <1>3, <1>4, <1>5, <1>6, <1>7, <1>9, <1>10, <1>11, <1>12, <1>13
  DEF Next, Step, WindowInv

LEMMA WindowInductive == Spec => []WindowInv
<1>1. Init => WindowInv
  BY HeartbeatAssumption
  DEF Init, WindowInv, OneLive, RegisterCurrent, Passed, FlightOrdered, Live,
      LivePC, Sub
<1> QED
  BY <1>1, WindowStep, TypeCorrect, PTL DEF Spec

(* At most two heartbeats are unanswered while loops do not overlap.       *)
THEOREM WindowHolds == Spec => []HeartbeatWindow
<1>1. WindowInv => HeartbeatWindow
  BY DEF WindowInv, HeartbeatWindow
<1> QED
  BY <1>1, WindowInductive, PTL

(* An answer never takes _received_nonce backwards.                        *)
THEOREM AnswersNeverRegress == Spec => AnswersAdvance
<1>1. TypeOK /\ WindowInv /\ [Next]_vars
        => [received' # received /\ ~overlapped
              => Sub(nonce, received') < Sub(nonce, received)]_vars
  <2> SUFFICES ASSUME TypeOK, WindowInv, Next, received' # received, ~overlapped
               PROVE  Sub(nonce, received') < Sub(nonce, received)
    BY DEF vars
  <2>1. Acknowledge
    BY DEF Next, Step, Create, CancellationSeen, Enter, Compare, Fire, Beat,
           BeatFails, Disconnect
  <2>2. received' = flight[1] /\ 1 \in 1 .. Len(flight)
    BY <2>1 DEF Acknowledge, TypeOK
  <2> QED
    BY <2>2 DEF WindowInv, FlightOrdered
<1> QED
  BY <1>1, TypeCorrect, WindowInductive, PTL DEF Spec, AnswersAdvance

-----------------------------------------------------------------------------
(* Why there is no false alarm.  With answers in time, no lost heartbeat   *)
(* and loops in order, at most one heartbeat is under way, the latest one, *)
(* and none when a loop is about to send the next; what is not under way   *)
(* was answered.                                                           *)
AtMostOneUnderWay ==
  \/ flight = <<>> /\ received = nonce
  \/ flight = <<nonce>> /\ Sub(nonce, received) = 1

AnsweredBeforeNext ==
  \A l \in Loops : pc[l] = "bumping" => flight = <<>>

PromptInv ==
  ~overlapped /\ ~missed =>
    /\ AtMostOneUnderWay
    /\ AnsweredBeforeNext
    /\ \A l \in Loops : pc[l] # "mismatch"

LEMMA PromptStep == TypeOK /\ WindowInv /\ PromptInv /\ [Next]_vars => PromptInv'
<1> SUFFICES ASSUME TypeOK, WindowInv, PromptInv, [Next]_vars,
                    ~overlapped', ~missed'
             PROVE  PromptInv'
  BY DEF PromptInv
<1> USE DEF Goto, Live, LivePC
<1>1. ~overlapped /\ ~missed
  BY DEF Next, Step, vars, Create, CancellationSeen, Enter, Compare, Fire,
         Beat, BeatFails, Acknowledge, Disconnect, TypeOK
<1>2. /\ AtMostOneUnderWay /\ AnsweredBeforeNext
      /\ \A l \in Loops : pc[l] # "mismatch"
      /\ OneLive /\ RegisterCurrent
  BY <1>1 DEF PromptInv, WindowInv
<1> USE DEF AtMostOneUnderWay, AnsweredBeforeNext
<1>3. ASSUME NEW l \in Loops, Create(l) PROVE PromptInv'
  BY <1>2, <1>3 DEF Create, TypeOK, PromptInv
<1>4. ASSUME NEW l \in Loops, CancellationSeen(l) PROVE PromptInv'
  BY <1>2, <1>4 DEF CancellationSeen, TypeOK, PromptInv
<1>5. ASSUME NEW l \in Loops, Enter(l) PROVE PromptInv'
  BY <1>2, <1>5 DEF Enter, TypeOK, PromptInv
<1>6. ASSUME NEW l \in Loops, Compare(l) PROVE PromptInv'
  <2>1. reg[l] = nonce
    BY <1>2, <1>6 DEF Compare, RegisterCurrent
  <2>2. Sub(nonce, received) = 0 \/ Sub(nonce, received) = 1
    BY <1>2, SubSelf DEF TypeOK
  <2>3. ~NonceMismatch(Sub(reg[l], received))
    BY <2>1, <2>2 DEF NonceMismatch
  <2> QED
    BY <1>2, <1>6, <2>3 DEF Compare, TypeOK, PromptInv
<1>7. ASSUME NEW l \in Loops, Fire(l) PROVE PromptInv'
  BY <1>2, <1>7 DEF Fire, TypeOK, PromptInv
<1>8. ASSUME NEW l \in Loops, Beat(l) PROVE PromptInv'
  <2>1. flight = <<>> /\ received = nonce /\ nonce' = Inc(nonce)
    BY <1>2, <1>8 DEF Beat, StoreNonce, RegisterCurrent
  <2>2. Sub(nonce', received') = 1
    <3>1. nonce \in Word /\ Sub(nonce, nonce) = 0
      BY SubSelf DEF TypeOK
    <3>2. Sub(Inc(nonce), nonce) = 1
      BY <3>1, SubInc, HeartbeatAssumption
    <3> QED
      BY <1>8, <2>1, <3>2 DEF Beat
  <2>3. flight' = <<nonce'>>
    BY <1>8, <2>1 DEF Beat
  <2>4. \A k \in Loops : pc'[k] # "bumping" /\ pc'[k] # "mismatch"
    BY <1>2, <1>8 DEF Beat, StoreNonce, OneLive, TypeOK
  <2> QED
    BY <2>2, <2>3, <2>4 DEF PromptInv
<1>9. ASSUME NEW l \in Loops, BeatFails(l) PROVE FALSE
  BY <1>9 DEF BeatFails
<1>10. CASE Acknowledge
  <2>1. flight' = <<>> /\ received' = nonce
    <3>1. flight = <<nonce>>
      BY <1>2, <1>10 DEF Acknowledge
    <3>2. Head(<<nonce>>) = nonce /\ Tail(<<nonce>>) = <<>>
      OBVIOUS
    <3> QED
      BY <1>10, <3>1, <3>2 DEF Acknowledge
  <2> QED
    BY <1>2, <1>10, <2>1 DEF Acknowledge, PromptInv
<1>11. CASE Disconnect
  BY <1>11 DEF Disconnect
<1>12. CASE UNCHANGED vars
  BY <1>2, <1>12 DEF vars, PromptInv
<1> QED
  BY <1>3, <1>4, <1>5, <1>6, <1>7, <1>8, <1>9, <1>10, <1>11, <1>12
  DEF Next, Step

(* A session whose answers are prompt never throws "nonce mismatch".       *)
THEOREM NeverFalseAlarm == Spec => []NoFalseAlarm
<1>1. Init => PromptInv
  BY DEF Init, PromptInv, AtMostOneUnderWay, AnsweredBeforeNext
<1>2. PromptInv => NoFalseAlarm
  BY DEF PromptInv, NoFalseAlarm
<1> QED
  BY <1>1, <1>2, PromptStep, TypeCorrect, WindowInductive, PTL DEF Spec
=============================================================================
