--------------------------- MODULE AsyncOpsProofs ---------------------------
(***************************************************************************)
(* That AsyncOps does what Tasks promises, but for liveness: every task    *)
(* ends once, and for a reason.                                            *)
(***************************************************************************)
EXTENDS AsyncOps, SequenceTheorems, TLAPS

R == [o \in Ops |-> Reasons(o)]

(* What is needed of the types.                                            *)
Shape ==
  /\ DOMAIN kind = Ops /\ DOMAIN at = Ops /\ DOMAIN came = Ops /\ DOMAIN handler = Ops
  /\ DOMAIN task = Ops /\ DOMAIN callback = Ops
  /\ \A o \in Ops : came[o] \in {"none", "value", "error", "aborted"}

(* A call that has not been made has no task, operation or callback.       *)
NotYet ==
  \A o \in Ops : /\ kind[o] = "none" <=> task[o] = "none"
                 /\ kind[o] = "none" => came[o] = "none" /\ callback[o] = "none"

(* A handler runs when the operation has ended.                            *)
HandlerAfter == \A o \in Ops : handler[o] # "none" => came[o] # "none"

(* Only a wait with a token has a callback, and only when the token was    *)
(* cancelled is it called and the timer aborted.                           *)
ByToken ==
  \A o \in Ops :
    /\ at[o] \in {"register", "calls back", "then"} \/ callback[o] # "none" =>
         kind[o] = "wait with token"
    /\ callback[o] \in {"pending", "timer", "asks", "settles"} => source = "cancelled"
    /\ came[o] = "aborted" => source = "cancelled" /\ kind[o] = "wait with token"

AInv == Shape /\ NotYet /\ HandlerAfter /\ ByToken

LEMMA InvInit == Init => AInv
BY DEF Init, AInv, Shape, NotYet, HandlerAfter, ByToken

USE DEF Waits, Sockets, Receives

(* A call begins, and its operation may end at once.                       *)
LEMMA CallKeeps ==
  ASSUME AInv, NEW o \in Ops, NEW k \in Waits \cup Sockets, NEW pc, Calls(o, k, pc),
         pc \in {"register", "calls back", "then"} => k = "wait with token", UNCHANGED token,
         UNCHANGED <<came, handler>> \/ Ended(o, "value") \/ Ended(o, "error")
  PROVE  AInv'
<1> USE DEF AInv, Shape
<1>1. k # "none"
  OBVIOUS
<1>2. \A p \in Ops : /\ kind'[p] = IF p = o THEN k ELSE kind[p]
                     /\ at'[p] = IF p = o THEN pc ELSE at[p]
                     /\ task'[p] = IF p = o THEN "pending" ELSE task[p]
  BY DEF Calls
<1>3. \A p \in Ops : p # o => came'[p] = came[p] /\ handler'[p] = handler[p]
  BY DEF Ended
<1>4. came'[o] \in {"none", "value", "error"}
  BY DEF Calls, Ended, NotYet
<1>5. handler'[o] # "none" => came'[o] # "none"
  BY DEF Ended, HandlerAfter
<1>6. kind[o] = "none" /\ callback[o] = "none" /\ callback' = callback /\ source' = source
  BY DEF Calls, NotYet, token
<1>7. Shape'
  BY <1>3, <1>4 DEF Calls, Ended, token
<1>8. NotYet'
  BY <1>1, <1>2, <1>3, <1>6 DEF NotYet
<1>9. HandlerAfter'
  BY <1>3, <1>5 DEF HandlerAfter
<1>10. ByToken'
  BY <1>2, <1>3, <1>4, <1>6 DEF ByToken
<1> QED BY <1>7, <1>8, <1>9, <1>10

LEMMA CallsKeep ==
  ASSUME AInv, NEW o \in Ops, Call(o)
  PROVE  AInv'
<1>1. ASSUME NEW k \in Waits, WaitFor(o, k) PROVE AInv'
  <2> DEFINE pc == IF k = "wait" THEN "returned" ELSE "register"
  <2>1. Calls(o, k, pc) /\ UNCHANGED <<came, handler>> /\ UNCHANGED token
    BY <1>1 DEF WaitFor
  <2>2. pc \in {"register", "calls back", "then"} => k = "wait with token"
    OBVIOUS
  <2> HIDE DEF pc
  <2> QED BY <2>1, <2>2, CallKeeps
<1>2. CASE Connect(o)
  BY <1>2, CallKeeps DEF Connect
<1>3. CASE Send(o)
  <2>1. Calls(o, "send", "called") /\ UNCHANGED token
    BY <1>3 DEF Send, Fails
  <2>2. UNCHANGED <<came, handler>> \/ Ended(o, "value") \/ Ended(o, "error")
    BY <1>3 DEF Send, Fails
  <2> QED BY <2>1, <2>2, CallKeeps
<1>4. ASSUME NEW k \in Receives, Receive(o, k) PROVE AInv'
  <2>1. Calls(o, k, "called") /\ UNCHANGED token
    BY <1>4 DEF Receive, Fails
  <2>2. UNCHANGED <<came, handler>> \/ Ended(o, "value") \/ Ended(o, "error")
    BY <1>4 DEF Receive, Fails
  <2> QED BY <2>1, <2>2, CallKeeps
<1> QED BY <1>1, <1>2, <1>3, <1>4 DEF Call

LEMMA RunsKeep ==
  ASSUME AInv, NEW o \in Ops, Runs(o)
  PROVE  AInv'
<1> USE DEF Shape, NotYet, HandlerAfter, ByToken, token, Triggered, Settle, Ended
<1>1. CASE Register(o)
  <2>1. kind[o] = "wait with token" /\ UNCHANGED <<kind, came, handler, task, source>>
    BY <1>1 DEF AInv, Register
  <2>2. DOMAIN at' = Ops /\ \A p \in Ops : p # o => at'[p] = at[p]
    BY <1>1 DEF AInv, Register
  <2>3. DOMAIN callback' = Ops /\ \A p \in Ops : p # o => callback'[p] = callback[p]
    BY <1>1 DEF AInv, Register
  <2>4. callback'[o] = "registered" \/ (callback'[o] = "timer" /\ source = "cancelled")
    BY <1>1 DEF AInv, Register
  <2>5. ByToken'
    BY <2>1, <2>2, <2>3, <2>4 DEF AInv
  <2> QED BY <2>1, <2>2, <2>3, <2>5 DEF AInv
<1>2. CASE Attach(o) BY <1>2 DEF AInv, Attach
<1>3. CASE Copies(o) BY <1>3 DEF AInv, Copies
<1>4. CASE Return(o) BY <1>4 DEF AInv, Return
<1>5. CASE AbortedHandler(o)
  <2>1. CASE handler[o] = "queued" BY <1>5, <2>1 DEF AInv, AbortedHandler
  <2>2. CASE handler[o] = "settles" /\ Triggered(o) BY <1>5, <2>2 DEF AInv, AbortedHandler
  <2>3. CASE handler[o] = "settles" /\ ~Triggered(o)
    <3>1. kind[o] # "none"
      BY <2>3 DEF AInv
    <3>2. \A p \in Ops : task'[p] = IF p = o THEN "cancelled" ELSE task[p]
      BY <1>5, <2>3 DEF AInv, AbortedHandler
    <3>3. \A p \in Ops : handler'[p] = IF p = o THEN "over" ELSE handler[p]
      BY <1>5, <2>3 DEF AInv, AbortedHandler
    <3>4. Shape' /\ ByToken' BY <1>5, <2>3 DEF AInv, AbortedHandler
    <3>5. NotYet /\ HandlerAfter /\ UNCHANGED <<kind, came, callback>>
      BY <1>5, <2>3 DEF AInv, AbortedHandler
    <3>6. HandlerAfter' BY <2>3, <3>3, <3>5
    <3>7. NotYet' BY <3>1, <3>2, <3>5
    <3> QED BY <3>4, <3>6, <3>7 DEF AInv
  <2> QED BY <1>5, <2>1, <2>2, <2>3 DEF AbortedHandler
<1>6. CASE Handler(o) BY <1>6 DEF AInv, Handler
<1>7. CASE CancelTimer(o) BY <1>7 DEF AInv, CancelTimer
<1>8. CASE CancelPromise(o)
  <2>1. CASE callback[o] = "asks" BY <1>8, <2>1 DEF AInv, CancelPromise
  <2>2. CASE callback[o] = "settles" /\ Triggered(o) BY <1>8, <2>2 DEF AInv, CancelPromise
  <2>3. CASE callback[o] = "settles" /\ ~Triggered(o)
    <3>1. kind[o] # "none"
      BY <2>3 DEF AInv
    <3>2. \A p \in Ops : task'[p] = IF p = o THEN "cancelled" ELSE task[p]
      BY <1>8, <2>3 DEF AInv, CancelPromise
    <3>3. \A p \in Ops : callback'[p] = IF p = o THEN "called" ELSE callback[p]
      BY <1>8, <2>3 DEF AInv, CancelPromise
    <3>4. Shape' /\ HandlerAfter' BY <1>8, <2>3 DEF AInv, CancelPromise
    <3>5. ByToken' BY <1>8, <2>3, <3>3 DEF AInv, CancelPromise
    <3>6. NotYet /\ UNCHANGED <<kind, came>> /\ callback[o] # "none"
      BY <1>8, <2>3 DEF AInv, CancelPromise
    <3>7. NotYet' BY <3>1, <3>2, <3>3, <3>6
    <3> QED BY <3>4, <3>5, <3>7 DEF AInv
  <2> QED BY <1>8, <2>1, <2>2, <2>3 DEF CancelPromise
<1>9. CASE CallBack(o) BY <1>9 DEF AInv, CallBack
<1> QED BY <1>1, <1>2, <1>3, <1>4, <1>5, <1>6, <1>7, <1>8, <1>9 DEF Runs

LEMMA OutsideKeeps ==
  ASSUME AInv, NEW o \in Ops, Deregister(o) \/ Outside(o)
  PROVE  AInv'
<1> USE DEF Shape, NotYet, HandlerAfter, ByToken, token, Triggered, Ended
<1>1. CASE Deregister(o) BY <1>1 DEF AInv, Deregister
<1>2. CASE Expire(o) BY <1>2 DEF AInv, Expire, Waits
<1>3. CASE Sent(o) BY <1>3 DEF AInv, Sent, First, Waiting
<1>4. CASE Received(o) BY <1>4 DEF AInv, Received, First, Waiting
<1>5. CASE ReceiveFails(o) BY <1>5 DEF AInv, ReceiveFails, First, Waiting
<1> QED BY <1>1, <1>2, <1>3, <1>4, <1>5 DEF Outside

LEMMA InvNext == AInv /\ [Next]_vars => AInv'
<1> SUFFICES ASSUME AInv, [Next]_vars PROVE AInv'
  OBVIOUS
<1>1. ASSUME NEW o \in Ops, Call(o) \/ Runs(o) \/ Deregister(o) \/ Outside(o)
      PROVE  AInv'
  BY <1>1, CallsKeep, RunsKeep, OutsideKeeps
<1> USE DEF AInv, Shape, NotYet, HandlerAfter, ByToken, token
<1>2. CASE CancelToken BY <1>2 DEF CancelToken
<1>3. CASE Arrive BY <1>3 DEF Arrive
<1>4. CASE Close BY <1>4 DEF Close, Waiting
<1>5. CASE UNCHANGED vars BY <1>5 DEF vars
<1> QED BY <1>1, <1>2, <1>3, <1>4, <1>5 DEF Next

(***************************************************************************)
(* Steps of AsyncOps are steps of Tasks, in one of four ways.              *)
(***************************************************************************)

(* What the reasons of a call depend on.                                   *)
LEMMA SameReasons ==
  ASSUME NEW o \in Ops, kind'[o] = kind[o], came'[o] = came[o], source' = source
  PROVE  Reasons(o)' = Reasons(o)
BY DEF Reasons

(* A call begins.                                                          *)
LEMMA CallMaps ==
  ASSUME AInv, AInv', NEW o \in Ops, NEW k, NEW pc, Calls(o, k, pc), source' = source,
         \A p \in Ops \ {o} : came'[p] = came[p]
  PROVE  T!Begin(o)
<1>1. task[o] = "none" /\ task' = [task EXCEPT ![o] = "pending"]
  BY DEF Calls, AInv, NotYet
<1>2. \A p \in Ops \ {o} : Reasons(p)' = Reasons(p)
  BY SameReasons DEF Calls, AInv, Shape
<1>3. Reasons(o) = {} /\ Reasons(o)' \subseteq T!Outcomes
  BY DEF Reasons, Calls, AInv, NotYet, T!Outcomes
<1>4. \A p \in Ops : Reasons(p)' \subseteq T!Outcomes
  BY DEF Reasons, T!Outcomes
<1> QED BY <1>1, <1>2, <1>3, <1>4 DEF T!Begin, T!Grows

(* An operation ends, or there is a new reason for one to end.             *)
LEMMA EndMaps ==
  ASSUME AInv, AInv', UNCHANGED <<kind, task>>, source = "cancelled" => source' = "cancelled",
         \A p \in Ops : came[p] \in {"none", came'[p]}
  PROVE  T!Happen
<1>1. \A p \in Ops : Reasons(p) \subseteq Reasons(p)' /\ Reasons(p)' \subseteq T!Outcomes
  BY DEF Reasons, T!Outcomes
<1>2. \A p \in Ops : task[p] = "none" => Reasons(p)' = Reasons(p)
  BY DEF Reasons, AInv, NotYet
<1> QED BY <1>1, <1>2 DEF T!Happen, T!Grows

(* A promise is settled, perhaps for the second time.                      *)
LEMMA SettleMaps ==
  ASSUME AInv, NEW o \in Ops, NEW x \in Reasons(o), Settle(o, x), UNCHANGED <<kind, came, source>>
  PROVE  T!Settle(o) \/ UNCHANGED <<task, R>>
<1>1. UNCHANGED R
  BY SameReasons DEF R
<1>2. CASE Triggered(o)
  BY <1>1, <1>2 DEF Settle
<1>3. CASE ~Triggered(o)
  BY <1>1, <1>3 DEF Settle, Triggered, T!Settle, R
<1> QED BY <1>2, <1>3

(* Nothing happens to the task.                                            *)
LEMMA StutterMaps ==
  ASSUME UNCHANGED <<kind, came, task, source>>
  PROVE  UNCHANGED <<task, R>>
BY SameReasons DEF R

LEMMA CallIsStep ==
  ASSUME AInv, AInv', NEW o \in Ops, Call(o)
  PROVE  T!Begin(o)
<1>1. CASE \E k \in Waits : WaitFor(o, k)
  BY <1>1, CallMaps DEF WaitFor, token
<1>2. CASE Connect(o)
  BY <1>2, CallMaps DEF Connect, Ended, token, AInv, Shape
<1>3. CASE Send(o)
  BY <1>3, CallMaps DEF Send, Fails, Ended, token, AInv, Shape
<1>4. CASE \E k \in Receives : Receive(o, k)
  BY <1>4, CallMaps DEF Receive, Fails, Ended, token, AInv, Shape
<1> QED BY <1>1, <1>2, <1>3, <1>4 DEF Call

LEMMA RunIsStep ==
  ASSUME AInv, AInv', NEW o \in Ops, Runs(o)
  PROVE  T!Next \/ UNCHANGED <<task, R>>
<1>1. CASE Register(o)
  BY <1>1, StutterMaps DEF Register, udp
<1>2. CASE Attach(o)
  BY <1>2, StutterMaps DEF Attach, token
<1>3. CASE Copies(o)
  BY <1>3, StutterMaps DEF Copies, token
<1>4. CASE Return(o)
  BY <1>4, StutterMaps DEF Return, token
<1>5. CASE AbortedHandler(o)
  <2>1. "cancelled" \in Reasons(o)
    BY <1>5 DEF AbortedHandler, AInv, ByToken, Reasons
  <2> QED BY <1>5, <2>1, StutterMaps, SettleMaps DEF AbortedHandler, token, T!Next
<1>6. CASE Handler(o)
  <2>1. came[o] \in Reasons(o)
    BY <1>6 DEF Handler, AInv, HandlerAfter, Shape, Reasons
  <2> QED BY <1>6, <2>1, SettleMaps DEF Handler, token, T!Next
<1>7. CASE CancelTimer(o)
  <2>1. T!Happen
    BY <1>7, EndMaps DEF CancelTimer, Ended, AInv, Shape
  <2> QED BY <2>1 DEF T!Next
<1>8. CASE CancelPromise(o)
  <2>1. callback[o] = "settles" => "cancelled" \in Reasons(o)
    BY DEF AInv, ByToken, Reasons
  <2> QED BY <1>8, <2>1, StutterMaps, SettleMaps DEF CancelPromise, T!Next
<1>9. CASE CallBack(o)
  BY <1>9, StutterMaps DEF CallBack
<1> QED BY <1>1, <1>2, <1>3, <1>4, <1>5, <1>6, <1>7, <1>8, <1>9 DEF Runs

LEMMA OutsideIsStep ==
  ASSUME AInv, AInv', NEW o \in Ops, Deregister(o) \/ Outside(o)
  PROVE  T!Next \/ UNCHANGED <<task, R>>
<1>1. CASE Deregister(o)
  BY <1>1, StutterMaps DEF Deregister
<1>2. CASE Outside(o)
  <2>1. UNCHANGED <<kind, task, source>> /\ \A p \in Ops : came[p] \in {"none", came'[p]}
    BY <1>2 DEF Outside, Expire, Sent, Received, ReceiveFails, First, Waiting, Ended, token, AInv, Shape
  <2> QED BY <2>1, EndMaps DEF T!Next
<1> QED BY <1>1, <1>2

LEMMA StepIsStep == AInv /\ AInv' /\ [Next]_vars => [T!Next]_<<task, R>>
<1> SUFFICES ASSUME AInv, AInv', [Next]_vars PROVE T!Next \/ UNCHANGED <<task, R>>
  OBVIOUS
<1>1. ASSUME NEW o \in Ops, Call(o) PROVE T!Next
  BY <1>1, CallIsStep DEF T!Next
<1>2. ASSUME NEW o \in Ops, Runs(o) \/ Deregister(o) \/ Outside(o)
      PROVE  T!Next \/ UNCHANGED <<task, R>>
  BY <1>2, RunIsStep, OutsideIsStep
<1>3. CASE CancelToken
  <2>1. T!Happen BY <1>3, EndMaps DEF CancelToken
  <2> QED BY <2>1 DEF T!Next
<1>4. CASE Arrive BY <1>4, StutterMaps DEF Arrive, token
<1>5. CASE Close
  <2>1. T!Happen BY <1>5, EndMaps DEF Close, Waiting, token, AInv, Shape
  <2> QED BY <2>1 DEF T!Next
<1>6. CASE UNCHANGED vars BY <1>6, StutterMaps DEF vars, token
<1> QED BY <1>1, <1>2, <1>3, <1>4, <1>5, <1>6 DEF Next

(* Every task ends once and for a reason: its operation ended that way, or *)
(* the token its wait was given was cancelled.  For any number of calls    *)
(* and datagrams, with callbacks, handlers and the canceller racing.       *)
THEOREM EndsOnceForAReason == Spec => T!Spec
<1>1. Init => T!Init
  BY DEF Init, T!Init, Reasons
<1>2. AInv /\ AInv' /\ [Next]_vars => [T!Next]_<<task, [o \in Ops |-> Reasons(o)]>>
  BY StepIsStep DEF R
<1>3. Spec => []AInv
  BY InvInit, InvNext, PTL DEF Spec
<1> QED BY <1>1, <1>2, <1>3, PTL DEF Spec, T!Spec

(***************************************************************************)
(* Types, and what a receive gives.                                        *)
(***************************************************************************)
StatesOK ==
  /\ kind \in [Ops -> Waits \cup Sockets \cup {"none"}]
  /\ at \in [Ops -> {"idle", "register", "calls back", "then", "called", "copies", "returned"}]
  /\ came \in [Ops -> {"none", "value", "error", "aborted"}]
  /\ handler \in [Ops -> {"none", "queued", "settles", "over"}]
  /\ task \in [Ops -> {"none", "pending", "value", "error", "cancelled"}]
  /\ source \in {"live", "cancelled"}
  /\ callback \in [Ops -> {"none", "registered", "pending", "timer", "asks", "settles",
                           "called", "deregistered"}]

SocketOK ==
  /\ queue \in Seq(Ops) /\ arrived \in Seq(1 .. MaxDatagrams)
  /\ arrivals \in 0 .. MaxDatagrams
  /\ open \in BOOLEAN
  /\ queue # <<>> => open

MemoryOK ==
  /\ took \in [Ops -> 0 .. MaxDatagrams] /\ early \subseteq Ops
  /\ memory \in [Addresses -> Torn .. MaxDatagrams]
  /\ buffer \in [Ops -> Addresses \cup {0}] /\ copy \in [Ops -> Addresses \cup {0}]

IsReceive(o) == kind[o] \in Receives
InLine(o) == \E i \in DOMAIN queue : queue[i] = o

(* What each receive has while it has it.                                  *)
Has(o) ==
  /\ IsReceive(o) => buffer[o] \in Addresses
  /\ kind[o] = "receive" /\ at[o] \in {"copies", "returned"} => copy[o] # 0
  /\ copy[o] # 0 =>
       kind[o] = "receive" /\ at[o] \in {"copies", "returned"} /\ copy[o] # buffer[o]
  /\ at[o] = "copies" /\ came[o] = "none" => o \in early
  /\ IsReceive(o) /\ task[o] = "value" => came[o] = "value"

(* Memory in use has one owner.                                            *)
Owned ==
  \A o, p \in Ops :
    /\ o # p /\ IsReceive(o) /\ IsReceive(p) /\ Holds(o) /\ Holds(p) => buffer[o] # buffer[p]
    /\ copy[o] # 0 /\ IsReceive(p) /\ Holds(p) => copy[o] # buffer[p]
    /\ o # p /\ copy[o] # 0 => copy[o] # copy[p]

(* Who still writes to memory that is somebody's now was queued before.    *)
Shared(q, o) ==
  /\ q # o /\ IsReceive(q) /\ IsReceive(o) /\ Holds(o) /\ buffer[q] = buffer[o]
  /\ came[q] = "none" /\ came[o] # "error"

InOrder ==
  /\ \A o \in Ops : IsReceive(o) /\ came[o] = "none" => InLine(o)
  /\ \A q, o \in Ops : Shared(q, o) => came[o] = "none" /\ q \in Before(o)

(* What is where.                                                          *)
FromEarlier(o, x) == \E p \in Ops : LeftTo(p, o) /\ came[p] = "value" /\ x \in {took[p], Torn}
InBuffer(o) == memory[buffer[o]] = 0 \/ FromEarlier(o, memory[buffer[o]])
InCopy(o) ==
  \/ came[o] = "value" /\ memory[copy[o]] = took[o]
  \/ o \in early /\ memory[copy[o]] \in {0, Torn}
  \/ FromEarlier(o, memory[copy[o]])

Contents ==
  \A o \in Ops :
    /\ IsReceive(o) /\ Holds(o) /\ came[o] = "value" => memory[buffer[o]] = took[o]
    /\ kind[o] = "receive" /\ Holds(o) /\ came[o] # "value" => InBuffer(o)
    /\ copy[o] # 0 /\ came[o] \in {"none", "value"} => InCopy(o)

BInv == MemoryOK /\ (\A o \in Ops : Has(o)) /\ Owned /\ InOrder /\ Contents

LEMMA Types == AInv /\ StatesOK /\ SocketOK /\ BInv => TypeOK /\ GivesWhatArrived
<1> SUFFICES ASSUME AInv, StatesOK, SocketOK, BInv PROVE TypeOK /\ GivesWhatArrived
  OBVIOUS
<1>1. TypeOK
  BY Zenon DEF AInv, NotYet, StatesOK, SocketOK, BInv, MemoryOK, TypeOK
<1>2. ASSUME NEW o \in Ops, IsReceive(o), at[o] = "returned", task[o] = "value"
      PROVE  \/ Result(o) = took[o]
             \/ kind[o] = "receive" /\ o \in early /\ Result(o) \in {0, Torn}
             \/ kind[o] = "receive" /\ \E p \in Ops : LeftTo(p, o) /\ Result(o) \in {took[p], Torn}
  <2>1. CASE kind[o] = "receive"
    <3>1. copy[o] # 0
      BY <1>2, <2>1 DEF BInv, Has
    <3>2. came[o] = "value" /\ InCopy(o)
      BY <1>2, <3>1 DEF BInv, Has, Contents
    <3> QED BY <2>1, <3>2 DEF InCopy, FromEarlier, Result
  <2>2. CASE kind[o] = "receive_from"
    <3>1. came[o] = "value" /\ Holds(o)
      BY <1>2, <2>2 DEF BInv, Has, Holds
    <3> QED BY <1>2, <2>2, <3>1 DEF BInv, Contents, Result
  <2> QED BY <1>2, <2>1, <2>2 DEF IsReceive
<1> QED BY <1>1, <1>2 DEF GivesWhatArrived, IsReceive

LEMMA StatesCall ==
  ASSUME StatesOK, NEW o \in Ops, Call(o)
  PROVE  StatesOK'
<1>1. ASSUME NEW k \in Waits \cup Sockets, NEW pc \in {"returned", "register", "called"},
             Calls(o, k, pc), UNCHANGED token,
             UNCHANGED <<came, handler>> \/ Ended(o, "value") \/ Ended(o, "error")
      PROVE  StatesOK'
  BY <1>1 DEF StatesOK, Calls, Ended, token
<1>2. ASSUME NEW k \in Waits, WaitFor(o, k) PROVE StatesOK'
  BY <1>1, <1>2 DEF WaitFor
<1>3. CASE Connect(o)
  BY <1>1, <1>3 DEF Connect
<1>4. CASE Send(o)
  BY <1>1, <1>4 DEF Send, Fails
<1>5. ASSUME NEW k \in Receives, Receive(o, k) PROVE StatesOK'
  <2>1. Calls(o, k, "called") /\ UNCHANGED token
    BY <1>5 DEF Receive, Fails
  <2>2. UNCHANGED <<came, handler>> \/ Ended(o, "value") \/ Ended(o, "error")
    BY <1>5 DEF Receive, Fails
  <2> QED BY <1>1, <2>1, <2>2
<1> QED BY <1>2, <1>3, <1>4, <1>5 DEF Call

LEMMA StatesStep == StatesOK /\ [Next]_vars => StatesOK'
<1> SUFFICES ASSUME StatesOK, [Next]_vars PROVE StatesOK'
  OBVIOUS
<1> USE DEF Ended, token
<1>1. ASSUME NEW o \in Ops, Register(o) \/ Attach(o) \/ Copies(o) \/ Return(o)
      PROVE  StatesOK'
  <2>1. /\ \E pc \in {"calls back", "then", "copies", "returned"} : at' = [at EXCEPT ![o] = pc]
        /\ UNCHANGED <<kind, came, handler, task, source>>
        /\ UNCHANGED callback
             \/ \E x \in {"timer", "registered"} : callback' = [callback EXCEPT ![o] = x]
    BY <1>1 DEF Register, Attach, Copies, Return
  <2>2. at' \in [Ops -> {"idle", "register", "calls back", "then", "called", "copies", "returned"}]
    BY <2>1 DEF StatesOK
  <2>3. callback' \in [Ops -> {"none", "registered", "pending", "timer", "asks", "settles",
                               "called", "deregistered"}]
    BY <2>1 DEF StatesOK
  <2> QED BY Zenon, <2>1, <2>2, <2>3 DEF StatesOK
<1>2. ASSUME NEW o \in Ops, AbortedHandler(o) \/ CancelPromise(o) PROVE StatesOK'
  <2>1. /\ UNCHANGED <<kind, at, came, source>>
        /\ UNCHANGED task \/ task' = [task EXCEPT ![o] = "cancelled"]
        /\ UNCHANGED handler \/ \E x \in {"over", "settles"} : handler' = [handler EXCEPT ![o] = x]
        /\ UNCHANGED callback
             \/ \E x \in {"called", "settles"} : callback' = [callback EXCEPT ![o] = x]
    BY <1>2 DEF AbortedHandler, CancelPromise, Settle
  <2>2. task' \in [Ops -> {"none", "pending", "value", "error", "cancelled"}]
    BY <2>1 DEF StatesOK
  <2>3. handler' \in [Ops -> {"none", "queued", "settles", "over"}]
    BY <2>1 DEF StatesOK
  <2>4. callback' \in [Ops -> {"none", "registered", "pending", "timer", "asks", "settles",
                               "called", "deregistered"}]
    BY <2>1 DEF StatesOK
  <2> QED BY Zenon, <2>1, <2>2, <2>3, <2>4 DEF StatesOK
<1>3. ASSUME NEW o \in Ops, Handler(o) PROVE StatesOK'
  <2>1. /\ handler' = [handler EXCEPT ![o] = "over"]
        /\ UNCHANGED <<kind, at, came, source, callback>>
        /\ task' = task \/ (task' = [task EXCEPT ![o] = came[o]] /\ came[o] # "aborted")
    BY <1>3 DEF Handler, Settle
  <2>2. came[o] \in {"none", "value", "error", "aborted"} /\ came[o] # "aborted" =>
          came[o] \in {"none", "pending", "value", "error", "cancelled"}
    OBVIOUS
  <2> QED BY <2>1, <2>2 DEF StatesOK
<1>4. ASSUME NEW o \in Ops, CancelTimer(o) \/ CallBack(o) \/ Deregister(o)
      PROVE  StatesOK'
  <2>1. /\ UNCHANGED <<kind, at, task, source>>
        /\ UNCHANGED <<came, handler>> \/ Ended(o, "aborted")
        /\ \E x \in {"asks", "timer", "deregistered"} : callback' = [callback EXCEPT ![o] = x]
    BY <1>4 DEF CancelTimer, CallBack, Deregister
  <2>2. came' \in [Ops -> {"none", "value", "error", "aborted"}]
    BY <2>1 DEF StatesOK, Ended
  <2>3. handler' \in [Ops -> {"none", "queued", "settles", "over"}]
    BY <2>1 DEF StatesOK, Ended
  <2>4. callback' \in [Ops -> {"none", "registered", "pending", "timer", "asks", "settles",
                               "called", "deregistered"}]
    BY <2>1 DEF StatesOK
  <2> QED BY Zenon, <2>1, <2>2, <2>3, <2>4 DEF StatesOK
<1>5. ASSUME NEW o \in Ops, Outside(o) PROVE StatesOK'
  <2>1. /\ UNCHANGED <<kind, at, task, source, callback>>
        /\ Ended(o, "value") \/ Ended(o, "error")
    BY <1>5 DEF Outside, Expire, Sent, Received, ReceiveFails
  <2> QED BY <2>1 DEF StatesOK
<1>6. CASE CancelToken
  BY <1>6 DEF CancelToken, StatesOK
<1>7. CASE Arrive
  BY <1>7 DEF Arrive, StatesOK
<1>8. CASE Close
  BY <1>8 DEF Close, StatesOK
<1>9. CASE UNCHANGED vars
  BY <1>9 DEF vars, StatesOK
<1> QED
  BY <1>1, <1>2, <1>3, <1>4, <1>5, <1>6, <1>7, <1>8, <1>9, StatesCall DEF Next, Runs

LEMMA Unqueued ==
  ASSUME NEW o \in Ops, queue \in Seq(Ops), Unqueue(o)
  PROVE  queue' \in Seq(Ops) /\ queue # <<>>
<1>1. PICK i \in DOMAIN queue : queue' = RemoveAt(queue, i)
  BY DEF Unqueue
<1> QED BY <1>1 DEF RemoveAt

LEMMA SocketStep == SocketOK /\ [Next]_vars => SocketOK'
<1> SUFFICES ASSUME SocketOK, [Next]_vars PROVE SocketOK'
  OBVIOUS
<1> USE AsyncAssumption
<1>0. ASSUME UNCHANGED udp PROVE SocketOK'
  BY <1>0 DEF udp, SocketOK
<1>1. ASSUME NEW o \in Ops, Call(o) PROVE SocketOK'
  <2>1. ASSUME NEW k \in Waits, WaitFor(o, k) PROVE SocketOK'
    BY <1>0, <2>1 DEF WaitFor
  <2>2. CASE Connect(o)
    <3>1. UNCHANGED <<queue, arrived, arrivals>> /\ (open' = TRUE \/ open' = open)
      BY <2>2 DEF Connect
    <3> QED BY Zenon, <3>1 DEF SocketOK
  <2>3. CASE Send(o)
    <3>1. UNCHANGED udp \/ (/\ queue' \in {queue, Append(queue, o)} /\ open
                            /\ UNCHANGED <<open, arrived, arrivals>>)
      BY <2>3 DEF Send, Fails
    <3>2. Append(queue, o) \in Seq(Ops)
      BY DEF SocketOK
    <3> QED BY <1>0, <3>1, <3>2 DEF SocketOK
  <2>4. ASSUME NEW k \in Receives, Receive(o, k) PROVE SocketOK'
    <3>1. /\ UNCHANGED <<open, arrivals>>
          /\ queue' = queue \/ (queue' = Append(queue, o) /\ open)
          /\ arrived' = arrived \/ (arrived # <<>> /\ arrived' = Tail(arrived))
      BY <2>4 DEF Receive
    <3>2. arrived # <<>> => Tail(arrived) \in Seq(1 .. MaxDatagrams)
      BY DEF SocketOK
    <3>3. Append(queue, o) \in Seq(Ops)
      BY DEF SocketOK
    <3>4. queue' \in Seq(Ops) /\ (queue' # <<>> => open') /\ open' \in BOOLEAN
      BY <3>1, <3>3 DEF SocketOK
    <3>5. arrived' \in Seq(1 .. MaxDatagrams)
      BY <3>1, <3>2 DEF SocketOK
    <3> QED BY Zenon, <3>1, <3>4, <3>5 DEF SocketOK
  <2> QED BY <1>1, <2>1, <2>2, <2>3, <2>4 DEF Call
<1>2. ASSUME NEW o \in Ops, Runs(o) \/ Deregister(o) PROVE SocketOK'
  BY <1>0, <1>2
  DEF Runs, Register, Attach, Copies, Return, AbortedHandler, Handler, CancelTimer,
      CancelPromise, CallBack, Deregister, SocketOK, udp
<1>3. ASSUME NEW o \in Ops, Expire(o) PROVE SocketOK'
  BY <1>0, <1>3 DEF Expire
<1>4. ASSUME NEW o \in Ops, Sent(o) \/ ReceiveFails(o) PROVE SocketOK'
  BY <1>4, Unqueued DEF Sent, ReceiveFails, SocketOK
<1>5. ASSUME NEW o \in Ops, Received(o) PROVE SocketOK'
  <2>1. arrived # <<>> /\ arrived' = Tail(arrived) /\ Unqueue(o) /\ UNCHANGED <<open, arrivals>>
    BY <1>5 DEF Received
  <2>2. arrived' \in Seq(1 .. MaxDatagrams)
    BY <2>1 DEF SocketOK
  <2> QED BY <2>1, <2>2, Unqueued DEF SocketOK
<1>6. CASE Arrive
  <2>1. /\ arrivals' \in 1 .. MaxDatagrams /\ arrived' = Append(arrived, arrivals')
        /\ UNCHANGED <<queue, open>>
    BY <1>6 DEF Arrive, SocketOK
  <2>2. arrived' \in Seq(1 .. MaxDatagrams) /\ arrivals' \in 0 .. MaxDatagrams
    BY <2>1 DEF SocketOK
  <2> QED BY Zenon, <2>1, <2>2 DEF SocketOK
<1>7. CASE Close
  <2>1. queue' = <<>> /\ arrived' = <<>> /\ open' = FALSE /\ UNCHANGED arrivals
    BY <1>7 DEF Close
  <2>2. queue' \in Seq(Ops) /\ arrived' \in Seq(1 .. MaxDatagrams)
    BY <2>1
  <2> QED BY Zenon, <2>1, <2>2 DEF SocketOK
<1>8. CASE CancelToken \/ UNCHANGED vars
  BY <1>0, <1>8 DEF CancelToken, vars
<1> QED BY <1>1, <1>2, <1>3, <1>4, <1>5, <1>6, <1>7, <1>8 DEF Next, Outside

(* The line.                                                               *)
LEMMA Appended ==
  ASSUME queue \in Seq(Ops), NEW x \in Ops, queue' = Append(queue, x)
  PROVE  /\ InLine(x)'
         /\ \A q \in Ops : InLine(q) => InLine(q)' /\ q \in Before(x)'
         /\ \A q, o \in Ops : q \in Before(o) => q \in Before(o)'
<1>1. /\ Len(queue') = Len(queue) + 1 /\ DOMAIN queue = 1 .. Len(queue)
      /\ DOMAIN queue' = 1 .. Len(queue') /\ Len(queue) \in Nat
      /\ queue'[Len(queue) + 1] = x /\ \A i \in DOMAIN queue : queue'[i] = queue[i]
  OBVIOUS
<1>2. InLine(x)'
  BY <1>1 DEF InLine
<1>3. ASSUME NEW q \in Ops, InLine(q) PROVE InLine(q)' /\ q \in Before(x)'
  <2>1. PICK i \in DOMAIN queue : queue[i] = q
    BY <1>3 DEF InLine
  <2>2. i \in DOMAIN queue' /\ Len(queue) + 1 \in DOMAIN queue' /\ i < Len(queue) + 1
    BY <1>1
  <2> QED BY <1>1, <2>1, <2>2 DEF InLine, Before
<1>4. ASSUME NEW q \in Ops, NEW o \in Ops, q \in Before(o) PROVE q \in Before(o)'
  <2>1. PICK i, j \in DOMAIN queue : i < j /\ queue[i] = q /\ queue[j] = o
    BY <1>4 DEF Before
  <2> QED BY <1>1, <2>1 DEF Before
<1> QED BY <1>2, <1>3, <1>4

LEMMA Removed ==
  ASSUME queue \in Seq(Ops), NEW x \in Ops, Unqueue(x)
  PROVE  /\ \A q \in Ops : q # x /\ InLine(q) => InLine(q)'
         /\ \A q, o \in Ops : q # x /\ o # x /\ q \in Before(o) => q \in Before(o)'
<1>1. PICK n \in DOMAIN queue : queue[n] = x /\ queue' = RemoveAt(queue, n)
  BY DEF Unqueue
<1> DEFINE to(i) == IF i < n THEN i ELSE i - 1
<1>2. \A i \in DOMAIN queue : i # n => to(i) \in DOMAIN queue' /\ queue'[to(i)] = queue[i]
  <2> DEFINE left == SubSeq(queue, 1, n - 1)
             right == SubSeq(queue, n + 1, Len(queue))
  <2>1. /\ n \in 1 .. Len(queue) /\ Len(queue) \in Nat /\ DOMAIN queue = 1 .. Len(queue)
        /\ left \in Seq(Ops) /\ right \in Seq(Ops)
        /\ Len(left) = n - 1 /\ Len(right) = Len(queue) - n
        /\ \A i \in 1 .. n - 1 : left[i] = queue[i]
        /\ \A i \in 1 .. Len(queue) - n : right[i] = queue[n + i]
    BY <1>1
  <2>2. queue' = left \o right
    BY <1>1 DEF RemoveAt
  <2> HIDE DEF left, right
  <2>3. /\ DOMAIN queue' = 1 .. Len(queue) - 1
        /\ \A i \in 1 .. Len(queue) - 1 : queue'[i] = IF i <= n - 1 THEN left[i] ELSE right[i - (n - 1)]
    <3>1. /\ left \o right \in Seq(Ops) /\ Len(left \o right) = Len(left) + Len(right)
          /\ \A i \in 1 .. Len(left) + Len(right) : (left \o right)[i] =
                   IF i <= Len(left) THEN left[i] ELSE right[i - Len(left)]
      BY <2>1, ConcatProperties
    <3>2. Len(left) + Len(right) = Len(queue) - 1
      BY <2>1
    <3>3. Len(queue') = Len(queue) - 1 /\ queue' \in Seq(Ops)
      BY <2>2, <3>1, <3>2
    <3>4. DOMAIN queue' = 1 .. Len(queue) - 1
      BY <3>3
    <3>5. \A i \in 1 .. Len(queue) - 1 : queue'[i] = IF i <= n - 1 THEN left[i] ELSE right[i - (n - 1)]
      BY Zenon, <2>1, <2>2, <3>1, <3>2
    <3> QED BY <3>4, <3>5
  <2>4. ASSUME NEW i \in DOMAIN queue, i < n PROVE queue'[i] = queue[i] /\ i \in DOMAIN queue'
    <3>1. i \in 1 .. n - 1 /\ i \in 1 .. Len(queue) - 1 /\ i <= n - 1
      BY <2>1, <2>4
    <3> QED BY <2>1, <2>3, <3>1
  <2>5. ASSUME NEW i \in DOMAIN queue, i > n
        PROVE  queue'[i - 1] = queue[i] /\ i - 1 \in DOMAIN queue'
    <3>1. /\ i - n \in 1 .. Len(queue) - n /\ (i - 1) - (n - 1) = i - n /\ n + (i - n) = i
          /\ i - 1 \in 1 .. Len(queue) - 1 /\ ~(i - 1 <= n - 1)
      <4>1. i \in 1 .. Len(queue) /\ n \in 1 .. Len(queue) /\ i > n
        BY <2>1, <2>5
      <4>2. Len(queue) \in Nat /\ \A k \in 1 .. Len(queue) : k \in Nat /\ 1 <= k /\ k <= Len(queue)
        BY <2>1
      <4>3. n < i
        BY <4>1, <4>2
      <4>4. i \in Nat /\ n \in Nat /\ Len(queue) \in Nat /\ 1 <= n /\ n < i /\ i <= Len(queue)
        BY Zenon, <4>1, <4>2, <4>3
      <4> QED BY <4>4
    <3> QED BY <2>1, <2>3, <3>1
  <2>6. \A i \in DOMAIN queue : i # n => i < n \/ i > n
    BY <2>1
  <2> QED BY <2>4, <2>5, <2>6
<1>3. \A i, j \in DOMAIN queue : i # n /\ j # n /\ i < j => to(i) < to(j)
  BY <1>1
<1> HIDE DEF to
<1>4. ASSUME NEW q \in Ops, q # x, InLine(q) PROVE InLine(q)'
  BY <1>1, <1>2, <1>4 DEF InLine
<1>5. ASSUME NEW q \in Ops, NEW o \in Ops, q # x, o # x, q \in Before(o) PROVE q \in Before(o)'
  <2>1. PICK i, j \in DOMAIN queue : i < j /\ queue[i] = q /\ queue[j] = o
    BY <1>5 DEF Before
  <2>2. to(i) \in DOMAIN queue' /\ to(j) \in DOMAIN queue' /\ to(i) < to(j)
        /\ queue'[to(i)] = q /\ queue'[to(j)] = o
    BY <1>1, <1>2, <1>3, <1>5, <2>1
  <2> QED BY <2>2 DEF Before
<1> QED BY <1>4, <1>5

(* Steps that leave the memory alone.  Operations that wait may fail.      *)
LineKept ==
  \A q, o \in Ops : IsReceive(q) /\ IsReceive(o) /\ came'[q] = "none" /\ came'[o] = "none" =>
    /\ InLine(q) => InLine(q)'
    /\ q \in Before(o) => q \in Before(o)'

Aside ==
  /\ UNCHANGED <<memory, buffer, copy, early, took>>
  /\ \A o \in Ops :
       /\ kind'[o] = kind[o] \/ (~IsReceive(o) /\ kind'[o] \notin Receives)
       /\ came'[o] = came[o] \/ (came[o] = "none" /\ (IsReceive(o) => came'[o] = "error"))
       /\ at'[o] = "copies" => at[o] = "copies"
       /\ IsReceive(o) /\ at[o] = "returned" => at'[o] = "returned"
       /\ kind[o] = "receive" =>
            (at'[o] \in {"copies", "returned"} <=> at[o] \in {"copies", "returned"})
       /\ IsReceive(o) => (task'[o] = "value" => task[o] = "value" \/ came[o] = "value")
  /\ LineKept

LEMMA AsideKeeps ==
  ASSUME BInv, Aside
  PROVE  BInv'
<1>1. /\ UNCHANGED <<memory, buffer, copy, early, took>>
      /\ \A o \in Ops : (IsReceive(o)' <=> IsReceive(o)) /\ (IsReceive(o) => kind'[o] = kind[o])
      /\ \A o \in Ops : IsReceive(o) => came'[o] = came[o] \/ (came[o] = "none" /\ came'[o] = "error")
      /\ \A o \in Ops : IsReceive(o) /\ Holds(o)' => Holds(o)
  BY DEF Aside, IsReceive, Holds, Receives
<1>2. MemoryOK'
  BY <1>1 DEF BInv, MemoryOK
<1>3. ASSUME NEW o \in Ops PROVE Has(o)'
  <2>1. Has(o) BY DEF BInv
  <2>2. (kind[o] = "receive" \/ kind'[o] = "receive") => kind'[o] = kind[o] /\ IsReceive(o)
    BY <1>1 DEF IsReceive, Receives
  <2>3. IsReceive(o) => buffer'[o] \in Addresses
    BY <1>1, <2>1 DEF Has
  <2>4. kind'[o] = "receive" /\ at'[o] \in {"copies", "returned"} => copy'[o] # 0
    BY <1>1, <2>1, <2>2 DEF Has, Aside
  <2>5. copy'[o] # 0 => /\ kind'[o] = "receive" /\ at'[o] \in {"copies", "returned"}
                        /\ copy'[o] # buffer'[o]
    BY <1>1, <2>1, <2>2 DEF Has, Aside
  <2>6. at'[o] = "copies" /\ came'[o] = "none" => o \in early'
    BY <1>1, <2>1 DEF Has, Aside
  <2>7. IsReceive(o) /\ task'[o] = "value" => came'[o] = "value"
    BY <1>1, <2>1 DEF Has, Aside
  <2> QED BY <1>1, <2>3, <2>4, <2>5, <2>6, <2>7 DEF Has
<1>4. Owned'
  BY <1>1 DEF BInv, Owned
<1>5. InOrder'
  <2>1. ASSUME NEW o \in Ops, IsReceive(o)', came'[o] = "none" PROVE InLine(o)'
    BY <1>1, <2>1 DEF Aside, LineKept, BInv, InOrder
  <2>2. ASSUME NEW q \in Ops, NEW o \in Ops, Shared(q, o)'
        PROVE  came'[o] = "none" /\ q \in Before(o)'
    <3>1. IsReceive(q) /\ IsReceive(o) /\ came'[q] = "none" /\ came[q] = "none" /\ came'[o] = came[o]
      BY <1>1, <2>2 DEF Shared
    <3>2. Shared(q, o)
      BY <1>1, <2>2, <3>1 DEF Shared
    <3> QED BY <3>1, <3>2 DEF Aside, LineKept, BInv, InOrder
  <2> QED BY <2>1, <2>2 DEF InOrder
<1>6. \A o \in Ops : \A x : FromEarlier(o, x) => FromEarlier(o, x)'
  BY <1>1 DEF FromEarlier, LeftTo, Aside, IsReceive, Receives
<1>7. ASSUME NEW o \in Ops
      PROVE  /\ IsReceive(o)' /\ Holds(o)' /\ came'[o] = "value" => memory'[buffer'[o]] = took'[o]
             /\ kind'[o] = "receive" /\ Holds(o)' /\ came'[o] # "value" => InBuffer(o)'
             /\ copy'[o] # 0 /\ came'[o] \in {"none", "value"} => InCopy(o)'
  <2>1. IsReceive(o)' /\ Holds(o)' /\ came'[o] = "value" => memory'[buffer'[o]] = took'[o]
    BY <1>1 DEF BInv, Contents
  <2>2. kind'[o] = "receive" /\ Holds(o)' /\ came'[o] # "value" => InBuffer(o)'
    <3>1. kind'[o] = "receive" => kind[o] = "receive" /\ IsReceive(o)
      BY <1>1 DEF IsReceive, Receives
    <3>2. kind'[o] = "receive" /\ Holds(o)' /\ came'[o] # "value" => InBuffer(o)
      BY <1>1, <3>1 DEF BInv, Contents
    <3> QED BY <1>1, <1>6, <3>2 DEF InBuffer
  <2>3. copy'[o] # 0 /\ came'[o] \in {"none", "value"} => InCopy(o)'
    <3>1. copy'[o] # 0 => IsReceive(o)
      BY <1>1 DEF BInv, Has, IsReceive, Receives
    <3>2. copy'[o] # 0 /\ came'[o] \in {"none", "value"} => InCopy(o) /\ came'[o] = came[o]
      BY <1>1, <3>1 DEF BInv, Contents
    <3> QED BY <1>1, <1>6, <3>2 DEF InCopy
  <2> QED BY <2>1, <2>2, <2>3
<1>8. Contents'
  BY Zenon, <1>7 DEF Contents
<1> QED BY <1>2, <1>3, <1>4, <1>5, <1>8 DEF BInv

(* A receive is started with memory that nobody has.                       *)
LEMMA ReceiveKeeps ==
  ASSUME AInv, SocketOK, BInv, NEW o \in Ops, NEW k \in Receives, Receive(o, k)
  PROVE  BInv'
<1> USE AsyncAssumption
<1>1. kind[o] = "none" /\ came[o] = "none" /\ ~IsReceive(o) /\ copy[o] = 0 /\ task[o] = "none"
  BY DEF Receive, Calls, AInv, NotYet, IsReceive, BInv, Has
<1>2. /\ kind' = [kind EXCEPT ![o] = k] /\ at' = [at EXCEPT ![o] = "called"]
      /\ task' = [task EXCEPT ![o] = "pending"]
      /\ UNCHANGED <<copy, early>>
  BY DEF Receive, Calls
<1>3. PICK a \in Free :
        /\ buffer' = [buffer EXCEPT ![o] = a]
        /\ \/ /\ came' = [came EXCEPT ![o] = "error"]
              /\ memory' = Blank(k, a) /\ UNCHANGED <<queue, took>>
           \/ /\ queue' = Append(queue, o) /\ memory' = Blank(k, a)
              /\ UNCHANGED <<came, took>>
           \/ /\ ~OneWaits /\ arrived # <<>>
              /\ came' = [came EXCEPT ![o] = "value"]
              /\ memory' = [memory EXCEPT ![a] = Head(arrived)]
              /\ took' = [took EXCEPT ![o] = Head(arrived)] /\ UNCHANGED queue
  BY DEF Receive, Ended
<1>4. /\ a \in Addresses /\ \A p \in Ops : Holds(p) => buffer[p] # a
      /\ \A p \in Ops : copy[p] # a
  BY DEF Free
<1>5. /\ DOMAIN kind = Ops /\ DOMAIN at = Ops /\ DOMAIN came = Ops /\ DOMAIN task = Ops
      /\ MemoryOK /\ Owned /\ InOrder /\ Contents
  BY DEF AInv, Shape, BInv
<1>6. \A p \in Ops \ {o} : /\ kind'[p] = kind[p] /\ at'[p] = at[p] /\ came'[p] = came[p]
                           /\ task'[p] = task[p] /\ buffer'[p] = buffer[p] /\ took'[p] = took[p]
                           /\ (IsReceive(p)' <=> IsReceive(p)) /\ (Holds(p)' <=> Holds(p))
  BY <1>2, <1>3, <1>5 DEF IsReceive, Holds, MemoryOK
<1>7. /\ IsReceive(o)' /\ kind'[o] = k /\ at'[o] = "called" /\ task'[o] = "pending"
      /\ buffer'[o] = a /\ came'[o] \in {"none", "error", "value"}
  BY <1>1, <1>2, <1>3, <1>5 DEF IsReceive, MemoryOK
<1>8. \A b \in Addresses : b # a => memory'[b] = memory[b]
  BY <1>3, <1>5 DEF Blank, MemoryOK
<1>9. MemoryOK'
  <2>1. arrived # <<>> => Head(arrived) \in 1 .. MaxDatagrams
    BY DEF SocketOK
  <2>2. took' \in [Ops -> 0 .. MaxDatagrams]
    BY <1>3, <1>5, <2>1 DEF MemoryOK
  <2>3. memory' \in [Addresses -> Torn .. MaxDatagrams]
    BY <1>3, <1>4, <1>5, <2>1 DEF MemoryOK, Blank, Torn
  <2>4. buffer' \in [Ops -> Addresses \cup {0}]
    BY <1>3, <1>4, <1>5 DEF MemoryOK
  <2> QED BY <1>2, <1>5, <2>2, <2>3, <2>4 DEF MemoryOK
<1>10. ASSUME NEW p \in Ops PROVE Has(p)'
  <2>1. CASE p = o
    BY <1>1, <1>2, <1>4, <1>7, <2>1 DEF Has
  <2>2. CASE p # o
    BY <1>2, <1>6, <2>2 DEF Has, BInv
  <2> QED BY <2>1, <2>2
<1>11. Owned'
  BY <1>1, <1>2, <1>4, <1>5, <1>6, <1>7 DEF Owned
<1>12. InOrder'
  <2>1. \A q \in Ops : InLine(q) => InLine(q)'
    BY <1>3, Appended DEF SocketOK, InLine
  <2>2. \A q, p \in Ops : q \in Before(p) => q \in Before(p)'
    BY <1>3, Appended DEF SocketOK, Before
  <2>3. came'[o] = "none" => queue' = Append(queue, o)
    BY <1>1, <1>3, <1>5
  <2>4. came'[o] = "none" => InLine(o)' /\ \A q \in Ops : InLine(q) => q \in Before(o)'
    BY <2>3, Appended DEF SocketOK
  <2>5. ASSUME NEW p \in Ops, IsReceive(p)', came'[p] = "none" PROVE InLine(p)'
    BY <1>5, <1>6, <2>1, <2>4, <2>5 DEF InOrder
  <2>6. ASSUME NEW q \in Ops, NEW p \in Ops, Shared(q, p)'
        PROVE  came'[p] = "none" /\ q \in Before(p)'
    <3>1. q # p /\ IsReceive(q)' /\ IsReceive(p)' /\ Holds(p)' /\ buffer'[q] = buffer'[p]
          /\ came'[q] = "none" /\ came'[p] # "error"
      BY <2>6 DEF Shared
    <3>2. CASE p # o /\ q # o
      <4>1. Shared(q, p)
        BY <1>6, <3>1, <3>2 DEF Shared
      <4> QED BY <1>5, <1>6, <2>2, <3>2, <4>1 DEF InOrder
    <3>3. CASE q = o /\ p # o
      BY <1>4, <1>6, <1>7, <3>1, <3>3
    <3>4. CASE p = o /\ q # o
      <4>1. InLine(q)
        BY <1>5, <1>6, <3>1, <3>4 DEF InOrder
      <4>2. OneWaits
        BY <1>6, <3>1, <3>4, <4>1 DEF OneWaits, InLine, IsReceive
      <4>3. came'[o] = "none"
        BY <1>1, <1>3, <1>5, <3>1, <3>4, <4>2
      <4> QED BY <2>4, <3>4, <4>1, <4>3
    <3> QED BY <3>1, <3>2, <3>3, <3>4
  <2> QED BY <2>5, <2>6 DEF InOrder
<1>13. Contents'
  <2>1. \A p \in Ops : \A x : p # o /\ FromEarlier(p, x) => FromEarlier(p, x)'
    <3>1. ASSUME NEW p \in Ops, NEW x, p # o, FromEarlier(p, x) PROVE FromEarlier(p, x)'
      <4>1. PICK q \in Ops : LeftTo(q, p) /\ came[q] = "value" /\ x \in {took[q], Torn}
        BY <3>1 DEF FromEarlier
      <4>2. q # o
        BY <1>1, <4>1
      <4>3. LeftTo(q, p)' /\ came'[q] = "value" /\ took'[q] = took[q]
        BY <1>2, <1>6, <3>1, <4>1, <4>2 DEF LeftTo
      <4> QED BY <4>1, <4>3 DEF FromEarlier
    <3> QED BY <3>1
  <2>2. ASSUME NEW p \in Ops, p # o
        PROVE  /\ IsReceive(p)' /\ Holds(p)' /\ came'[p] = "value" => memory'[buffer'[p]] = took'[p]
               /\ kind'[p] = "receive" /\ Holds(p)' /\ came'[p] # "value" => InBuffer(p)'
               /\ copy'[p] # 0 /\ came'[p] \in {"none", "value"} => InCopy(p)'
    <3>1. IsReceive(p) /\ Holds(p) => buffer[p] \in Addresses /\ buffer[p] # a
      BY <1>4 DEF BInv, Has
    <3>2. IsReceive(p) /\ Holds(p) => memory'[buffer'[p]] = memory[buffer[p]]
      BY <1>6, <1>8, <2>2, <3>1
    <3>3. copy[p] # 0 => memory'[copy'[p]] = memory[copy[p]]
      BY <1>2, <1>4, <1>5, <1>8 DEF MemoryOK
    <3>4. IsReceive(p)' /\ Holds(p)' /\ came'[p] = "value" => memory'[buffer'[p]] = took'[p]
      BY <1>5, <1>6, <2>2, <3>2 DEF Contents
    <3>5. kind[p] = "receive" => IsReceive(p)
      BY DEF IsReceive
    <3>6. kind'[p] = "receive" /\ Holds(p)' /\ came'[p] # "value" => InBuffer(p)
      BY <1>5, <1>6, <2>2 DEF Contents
    <3>7. kind'[p] = "receive" /\ Holds(p)' /\ came'[p] # "value" => InBuffer(p)'
      BY <1>6, <2>1, <2>2, <3>2, <3>5, <3>6 DEF InBuffer
    <3>8. copy'[p] # 0 /\ came'[p] \in {"none", "value"} => InCopy(p)'
      BY <1>2, <1>5, <1>6, <2>1, <2>2, <3>3 DEF Contents, InCopy
    <3> QED BY <3>4, <3>7, <3>8
  <2>3. /\ came'[o] = "value" => memory'[buffer'[o]] = took'[o]
        /\ kind'[o] = "receive" /\ came'[o] # "value" => InBuffer(o)'
        /\ copy'[o] = 0
    <3>1. came'[o] = "value" => memory'[a] = Head(arrived) /\ took'[o] = Head(arrived)
      BY <1>1, <1>3, <1>4, <1>5 DEF MemoryOK
    <3>2. came'[o] # "value" /\ k = "receive" => memory'[a] = 0
      BY <1>3, <1>4, <1>5 DEF MemoryOK, Blank
    <3> QED BY <1>1, <1>2, <1>7, <3>1, <3>2 DEF InBuffer
  <2> QED BY Zenon, <2>2, <2>3 DEF Contents
<1> QED BY <1>9, <1>10, <1>11, <1>12, <1>13 DEF BInv

(* receive makes its copy, elsewhere.                                      *)
LEMMA CopiesKeeps ==
  ASSUME AInv, BInv, NEW o \in Ops, Copies(o)
  PROVE  BInv'
<1>1. /\ kind[o] = "receive" /\ at[o] = "called" /\ at' = [at EXCEPT ![o] = "copies"]
      /\ early' = IF came[o] = "none" THEN early \cup {o} ELSE early
      /\ UNCHANGED <<kind, came, task, queue, buffer, took>>
  BY DEF Copies
<1>2. PICK a \in Free : /\ copy' = [copy EXCEPT ![o] = a]
                        /\ memory' = [memory EXCEPT ![a] = memory[buffer[o]]]
  BY DEF Copies
<1>3. /\ a \in Addresses /\ \A p \in Ops : Holds(p) => buffer[p] # a
      /\ \A p \in Ops : copy[p] # a
  BY DEF Free
<1>4. /\ DOMAIN at = Ops /\ MemoryOK /\ Owned /\ InOrder /\ Contents
      /\ \A p \in Ops : Has(p)
  BY DEF AInv, Shape, BInv
<1>5. /\ Holds(o) /\ IsReceive(o) /\ buffer[o] \in Addresses /\ copy'[o] = a /\ a # 0
      /\ \A p \in Ops : p # o => at'[p] = at[p] /\ copy'[p] = copy[p]
      /\ \A p \in Ops : Holds(p)' <=> Holds(p)
      /\ \A p \in Ops : IsReceive(p)' <=> IsReceive(p)
      /\ at'[o] = "copies"
  BY <1>1, <1>2, <1>3, <1>4, AsyncAssumption DEF Holds, IsReceive, Has, MemoryOK
<1>6. /\ \A b \in Addresses : b # a => memory'[b] = memory[b]
      /\ memory'[a] = memory[buffer[o]]
  BY <1>2, <1>3, <1>4 DEF MemoryOK
<1>7. MemoryOK'
  BY <1>1, <1>2, <1>3, <1>4, <1>5 DEF MemoryOK
<1>8. ASSUME NEW p \in Ops PROVE Has(p)'
  <2>1. CASE p # o
    BY <1>1, <1>4, <1>5, <2>1 DEF Has
  <2>2. CASE p = o
    BY <1>1, <1>3, <1>4, <1>5, <2>2 DEF Has, IsReceive
  <2> QED BY <2>1, <2>2
<1>9. Owned'
  BY <1>1, <1>3, <1>4, <1>5 DEF Owned
<1>10. InOrder'
  BY <1>1, <1>4, <1>5 DEF InOrder, Shared, InLine, Before
<1>11. ASSUME NEW p \in Ops, NEW x, FromEarlier(p, x) PROVE FromEarlier(p, x)'
  <2>1. PICK q \in Ops : LeftTo(q, p) /\ came[q] = "value" /\ x \in {took[q], Torn}
    BY <1>11 DEF FromEarlier
  <2>2. q # o /\ buffer[q] # 0
    BY <1>1, <1>4, <2>1, AsyncAssumption DEF LeftTo, Has, IsReceive
  <2>3. p = o => copy[p] = 0
    BY <1>1, <1>4 DEF Has
  <2>4. LeftTo(q, p)'
    BY <1>1, <1>5, <2>1, <2>2, <2>3 DEF LeftTo
  <2> QED BY <1>1, <2>1, <2>4 DEF FromEarlier
<1>12. Contents'
  <2>1. ASSUME NEW p \in Ops
        PROVE  /\ IsReceive(p)' /\ Holds(p)' /\ came'[p] = "value" => memory'[buffer'[p]] = took'[p]
               /\ kind'[p] = "receive" /\ Holds(p)' /\ came'[p] # "value" => InBuffer(p)'
    <3>1. IsReceive(p) /\ Holds(p) => memory'[buffer'[p]] = memory[buffer[p]]
      BY <1>1, <1>3, <1>4, <1>6 DEF Has
    <3>2. kind'[p] = "receive" /\ Holds(p)' /\ came'[p] # "value" => InBuffer(p) /\ IsReceive(p) /\ Holds(p)
      BY <1>1, <1>4, <1>5 DEF Contents, IsReceive
    <3> QED BY <1>1, <1>4, <1>5, <1>11, <3>1, <3>2 DEF Contents, InBuffer
  <2>2. ASSUME NEW p \in Ops, p # o, copy'[p] # 0, came'[p] \in {"none", "value"}
        PROVE  InCopy(p)'
    <3>1. memory'[copy'[p]] = memory[copy[p]] /\ InCopy(p)
      BY <1>1, <1>3, <1>4, <1>5, <1>6, <2>2 DEF MemoryOK, Contents
    <3> QED BY <1>1, <1>11, <3>1 DEF InCopy
  <2>3. came'[o] \in {"none", "value"} => InCopy(o)'
    <3>1. memory'[copy'[o]] = memory[buffer[o]]
      BY <1>5, <1>6
    <3>2. CASE came[o] = "value"
      BY <1>1, <1>4, <1>5, <3>1, <3>2 DEF InCopy, Contents
    <3>3. CASE came[o] = "none"
      <4>1. InBuffer(o)
        BY <1>1, <1>4, <1>5, <3>3 DEF Contents
      <4>2. o \in early'
        BY <1>1, <3>3
      <4> QED BY <1>1, <1>11, <3>1, <3>3, <4>1, <4>2 DEF InCopy, InBuffer
    <3> QED BY <1>1, <3>2, <3>3
  <2> QED BY Zenon, <2>1, <2>2, <2>3 DEF Contents
<1> QED BY <1>7, <1>8, <1>9, <1>10, <1>12 DEF BInv

(* A write lands where it should, in a copy that is being made from there, *)
(* and in one that is being made there, and nowhere else.                  *)
LEMMA Lands ==
  ASSUME NEW a \in Addresses, NEW d, Written(a, d)
  PROVE  /\ \A b \in Addresses : b # a /\ b \notin Mixed(a) => memory'[b] = memory[b]
         /\ a \notin Mixed(a) => memory'[a] = d
         /\ \A b \in Addresses : memory'[b] \in {memory[b], d, Torn}
BY DEF Written

LEMMA ReceivedKeeps ==
  ASSUME AInv, SocketOK, BInv, NEW o \in Ops, Received(o)
  PROVE  BInv'
<1> DEFINE d == Head(arrived)
           a == buffer[o]
<1> HIDE DEF d, a
<1>1. /\ DOMAIN came = Ops /\ MemoryOK /\ Owned /\ InOrder /\ Contents
      /\ \A p \in Ops : Has(p)
  BY DEF AInv, Shape, BInv
<1>2. /\ IsReceive(o) /\ came[o] = "none" /\ \A p \in Before(o) : ~IsReceive(p)
      /\ came' = [came EXCEPT ![o] = "value"] /\ took' = [took EXCEPT ![o] = d]
      /\ Unqueue(o) /\ Written(a, d) /\ d \in 1 .. MaxDatagrams
      /\ UNCHANGED <<kind, at, task, buffer, copy, early>>
  <2>1. IsReceive(o) /\ Direction(o) = Receives /\ First(o) /\ arrived # <<>>
    BY DEF Received, Direction, IsReceive
  <2>2. d \in 1 .. MaxDatagrams
    BY <2>1, HeadTailProperties DEF SocketOK, d
  <2>3. came[o] = "none" /\ \A p \in Before(o) : ~IsReceive(p)
    BY <2>1 DEF First, Waiting, IsReceive
  <2> QED BY <2>1, <2>2, <2>3 DEF Received, Ended, d, a
<1>3. /\ a \in Addresses /\ came'[o] = "value" /\ took'[o] = d
      /\ \A p \in Ops : p # o => came'[p] = came[p] /\ took'[p] = took[p]
      /\ \A p \in Ops : IsReceive(p)' <=> IsReceive(p)
      /\ \A p \in Ops : Holds(p)' <=> Holds(p)
      /\ \A p \in Ops : came[p] = "value" => p # o /\ came'[p] = "value"
  BY <1>1, <1>2 DEF Has, MemoryOK, IsReceive, Holds, a
<1>4. /\ \A b \in Addresses : b # a /\ b \notin Mixed(a) => memory'[b] = memory[b]
      /\ a \notin Mixed(a) => memory'[a] = d
      /\ \A b \in Addresses : memory'[b] \in {memory[b], d, Torn}
  BY <1>2, <1>3, Lands
<1>5. MemoryOK'
  <2>1. memory' \in [Addresses -> Torn .. MaxDatagrams]
    <3>1. \A b \in Addresses : memory'[b] \in Torn .. MaxDatagrams
      BY <1>1, <1>2, <1>4, AsyncAssumption DEF MemoryOK, Torn
    <3>2. memory' = [b \in Addresses |-> memory'[b]]
      BY <1>2 DEF Written
    <3> QED BY <3>1, <3>2
  <2> QED BY <1>1, <1>2, <2>1 DEF MemoryOK
<1>6. ASSUME NEW p \in Ops PROVE Has(p)'
  BY <1>1, <1>2, <1>3 DEF Has
<1>7. Owned'
  BY <1>1, <1>2, <1>3 DEF Owned
<1>8. InOrder'
  <2>1. /\ \A q \in Ops : q # o /\ InLine(q) => InLine(q)'
        /\ \A q, p \in Ops : q # o /\ p # o /\ q \in Before(p) => q \in Before(p)'
    BY <1>2, Removed DEF SocketOK
  <2>2. ASSUME NEW p \in Ops, IsReceive(p)', came'[p] = "none" PROVE InLine(p)'
    BY <1>1, <1>3, <2>1, <2>2 DEF InOrder
  <2>3. ASSUME NEW q \in Ops, NEW p \in Ops, Shared(q, p)'
        PROVE  came'[p] = "none" /\ q \in Before(p)'
    <3>1. q # o /\ q # p /\ IsReceive(q) /\ IsReceive(p) /\ Holds(p) /\ buffer[q] = buffer[p]
          /\ came[q] = "none" /\ came[p] # "error"
      BY <1>2, <1>3, <2>3 DEF Shared
    <3>2. came[p] = "none" /\ q \in Before(p)
      BY <1>1, <3>1 DEF Shared, InOrder
    <3>3. p # o
      BY <1>2, <3>1, <3>2
    <3> QED BY <1>3, <2>1, <3>1, <3>2, <3>3
  <2> QED BY <2>2, <2>3 DEF InOrder
<1>9. ASSUME NEW p \in Ops, NEW x, FromEarlier(p, x) PROVE FromEarlier(p, x)'
  BY <1>2, <1>3, <1>9 DEF FromEarlier, LeftTo
(* What the operation has left to another, if it had to leave it. *)
<1>10. ASSUME NEW p \in Ops, p # o, ~Holds(o), a \in {buffer[p], copy[p]}, NEW x \in {d, Torn}
       PROVE  FromEarlier(p, x)'
  <2>1. kind[o] = "receive" /\ at[o] = "returned"
    BY <1>2, <1>10 DEF Holds, IsReceive, Receives
  <2> QED BY <1>2, <1>3, <1>10, <2>1 DEF FromEarlier, LeftTo, a
(* No copy is made at a buffer that somebody has. *)
<1>11. \A p \in Ops : IsReceive(p) /\ Holds(p) => buffer[p] \notin Mixed(a)
  <2>1. ASSUME NEW p \in Ops, IsReceive(p), Holds(p), buffer[p] \in Mixed(a) PROVE FALSE
    <3>1. PICK q \in Ops : buffer[p] = copy[q]
      BY <2>1 DEF Mixed
    <3>2. buffer[p] # 0
      BY <1>1, <2>1, AsyncAssumption DEF Has
    <3> QED BY <1>1, <2>1, <3>1, <3>2 DEF Owned
  <2> QED BY <2>1
<1>12. ASSUME NEW p \in Ops, IsReceive(p)', Holds(p)', came'[p] = "value"
       PROVE  memory'[buffer'[p]] = took'[p]
  <2>1. CASE p = o
    BY <1>2, <1>3, <1>4, <1>11, <1>12, <2>1 DEF a
  <2>2. CASE p # o
    <3>1. IsReceive(p) /\ Holds(p) /\ came[p] = "value" /\ buffer[p] \in Addresses
      BY <1>1, <1>3, <1>12, <2>2 DEF Has
    <3>2. buffer[p] # a
      BY <1>1, <1>2, <2>2, <3>1 DEF InOrder, Shared, a
    <3> QED BY <1>1, <1>2, <1>3, <1>4, <1>11, <2>2, <3>1, <3>2 DEF Contents
  <2> QED BY <2>1, <2>2
<1>13. ASSUME NEW p \in Ops, kind'[p] = "receive", Holds(p)', came'[p] # "value"
       PROVE  InBuffer(p)'
  <2>1. p # o /\ IsReceive(p) /\ Holds(p) /\ kind[p] = "receive" /\ came[p] # "value"
    BY <1>2, <1>3, <1>13 DEF IsReceive
  <2>2. buffer[p] \in Addresses /\ InBuffer(p)
    BY <1>1, <2>1 DEF Has, Contents
  <2>3. CASE buffer[p] # a
    BY <1>2, <1>4, <1>9, <1>11, <2>1, <2>2, <2>3 DEF InBuffer
  <2>4. CASE buffer[p] = a
    <3>1. ~Holds(o)
      BY <1>1, <1>2, <2>1, <2>4 DEF Owned, a
    <3>2. memory'[a] = d
      BY <1>4, <1>11, <2>1, <2>4
    <3> QED BY <1>2, <1>10, <2>1, <2>4, <3>1, <3>2 DEF InBuffer
  <2> QED BY <2>3, <2>4
<1>14. ASSUME NEW p \in Ops, copy'[p] # 0, came'[p] \in {"none", "value"} PROVE InCopy(p)'
  <2>1. /\ copy[p] # 0 /\ copy[p] \in Addresses /\ copy' = copy
        /\ kind[p] = "receive" /\ IsReceive(p) /\ copy[p] # buffer[p]
        /\ came[p] \in {"none", "value"} /\ InCopy(p)
    <3>1. copy[p] # 0 /\ came[p] \in {"none", "value"}
      BY <1>2, <1>3, <1>14
    <3> QED BY <1>1, <1>2, <3>1 DEF MemoryOK, Has, IsReceive, Contents
  <2>2. CASE memory'[copy[p]] = memory[copy[p]]
    BY <1>2, <1>3, <1>9, <2>1, <2>2 DEF InCopy
  <2>3. CASE memory'[copy[p]] # memory[copy[p]]
    <3>1. memory'[copy[p]] \in {d, Torn}
      BY <1>4, <2>1, <2>3
    <3>2. copy[p] = a \/ copy[p] \in Mixed(a)
      BY <1>4, <2>1, <2>3
    <3>3. ASSUME p # o, ~Holds(o), a \in {buffer[p], copy[p]} PROVE InCopy(p)'
      BY <1>2, <1>10, <3>1, <3>3 DEF InCopy
    <3>4. CASE copy[p] = a
      <4>1. p # o /\ ~Holds(o)
        BY <1>1, <1>2, <2>1, <3>4 DEF Owned, a
      <4> QED BY <3>3, <3>4, <4>1
    <3>5. CASE copy[p] # a /\ copy[p] \in Mixed(a)
      <4>1. PICK q \in Ops : at[q] = "copies" /\ a \in {buffer[q], copy[q]} /\ copy[q] = copy[p]
        BY <3>5 DEF Mixed
      <4>2. q = p /\ buffer[p] = a /\ Holds(p)
        BY <1>1, <2>1, <3>5, <4>1 DEF Owned, Holds
      <4>3. CASE p = o
        <5>1. o \in early
          BY <1>1, <1>2, <4>1, <4>2, <4>3 DEF Has
        <5>2. memory'[copy'[o]] \in {took'[o], Torn} /\ came'[o] = "value" /\ o \in early'
          BY <1>2, <1>3, <2>1, <3>1, <4>3, <5>1
        <5> QED BY <4>3, <5>2 DEF InCopy
      <4>4. CASE p # o
        <5>1. ~Holds(o)
          BY <1>1, <1>2, <2>1, <4>2, <4>4 DEF Owned, a
        <5> QED BY <3>3, <4>2, <4>4, <5>1
      <4> QED BY <4>3, <4>4
    <3> QED BY <3>2, <3>4, <3>5
  <2> QED BY <2>2, <2>3
<1>15. Contents'
  BY Zenon, <1>12, <1>13, <1>14 DEF Contents
<1> QED BY <1>5, <1>6, <1>7, <1>8, <1>15 DEF BInv

(* Every other step leaves the memory alone.                               *)
LEMMA OtherStepsAside ==
  ASSUME AInv, SocketOK, BInv, [Next]_vars,
         \A o \in Ops : ~Received(o) /\ ~Copies(o) /\ \A k \in Receives : ~Receive(o, k)
  PROVE  Aside
<1> USE DEF IsReceive, Receives, Ended, udp, heap, token, Settle, Triggered
<1>0. /\ DOMAIN kind = Ops /\ DOMAIN came = Ops /\ DOMAIN at = Ops /\ DOMAIN task = Ops
      /\ DOMAIN handler = Ops /\ NotYet /\ HandlerAfter /\ ByToken
  BY DEF AInv, Shape
<1>q. queue' = queue => LineKept
  BY DEF LineKept, InLine, Before
<1>1. ASSUME NEW o \in Ops, NEW k \in Waits, WaitFor(o, k) PROVE Aside
  BY <1>0, <1>1, <1>q DEF WaitFor, Calls, Aside, NotYet
<1>2. ASSUME NEW o \in Ops, Connect(o) PROVE Aside
  BY <1>0, <1>2, <1>q DEF Connect, Calls, Aside, NotYet
<1>3. ASSUME NEW o \in Ops, Send(o) PROVE Aside
  <2>1. Calls(o, "send", "called") /\ UNCHANGED <<memory, buffer, copy, early, took>>
        /\ came' \in {came, [came EXCEPT ![o] = "value"], [came EXCEPT ![o] = "error"]}
        /\ queue' \in {queue, Append(queue, o)}
    BY <1>3 DEF Send, Fails
  <2>2. LineKept
    BY <1>q, <2>1, Appended DEF LineKept, SocketOK
  <2> QED BY <1>0, <2>1, <2>2 DEF Aside, Calls, NotYet
<1>4. ASSUME NEW o \in Ops, Register(o) \/ Attach(o) PROVE Aside
  BY <1>0, <1>4, <1>q DEF Register, Attach, Aside, ByToken
<1>5. ASSUME NEW o \in Ops, Return(o) PROVE Aside
  BY <1>0, <1>5, <1>q DEF Return, Aside
<1>6. ASSUME NEW o \in Ops, AbortedHandler(o) \/ Handler(o) \/ CancelPromise(o) PROVE Aside
  BY <1>0, <1>6, <1>q DEF AbortedHandler, Handler, CancelPromise, Aside
<1>7. ASSUME NEW o \in Ops, CancelTimer(o) \/ CallBack(o) \/ Deregister(o) \/ Expire(o)
      PROVE  Aside
  <2>1. /\ UNCHANGED <<kind, at, task, memory, buffer, copy, early, took>>
        /\ queue' = queue /\ kind[o] \in Waits
        /\ came' = came \/ (came[o] = "none" /\ \E how \in {"value", "aborted"} :
                                                  came' = [came EXCEPT ![o] = how])
    BY <1>0, <1>7 DEF CancelTimer, CallBack, Deregister, Expire, Waits, ByToken
  <2>2. ~IsReceive(o)
    BY <2>1 DEF Waits
  <2> QED BY <1>0, <1>q, <2>1, <2>2 DEF Aside
<1>8. ASSUME NEW o \in Ops, Sent(o) \/ ReceiveFails(o) PROVE Aside
  <2>1. /\ UNCHANGED <<kind, at, task, memory, buffer, copy, early, took>> /\ Unqueue(o)
        /\ came[o] = "none" /\ kind[o] \in Receives \cup {"send"}
        /\ \E how \in {"value", "error"} :
             came' = [came EXCEPT ![o] = how] /\ (IsReceive(o) => how = "error")
    BY <1>8 DEF Sent, ReceiveFails, First, Waiting
  <2>2. came'[o] # "none"
    BY <1>0, <2>1
  <2>3. LineKept
    <3>1. \A q \in Ops : came'[q] = "none" => q # o
      BY <2>2
    <3>2. /\ \A q \in Ops : q # o /\ InLine(q) => InLine(q)'
          /\ \A q, p \in Ops : q # o /\ p # o /\ q \in Before(p) => q \in Before(p)'
      BY <2>1, Removed DEF SocketOK
    <3> QED BY <3>1, <3>2 DEF LineKept
  <2> QED BY <1>0, <2>1, <2>3 DEF Aside
<1>9. CASE CancelToken \/ Arrive \/ UNCHANGED vars
  BY <1>9, <1>q DEF CancelToken, Arrive, vars, Aside
<1>10. CASE Close
  <2>1. /\ UNCHANGED <<kind, at, task, memory, buffer, copy, early, took>>
        /\ came' = [o \in Ops |-> IF Waiting(o) THEN "error" ELSE came[o]]
    BY <1>10 DEF Close
  <2>2. LineKept
    BY <2>1 DEF LineKept, Waiting, Sockets
  <2> QED BY <1>0, <2>1, <2>2 DEF Aside, Waiting
<1> QED
  BY <1>1, <1>2, <1>3, <1>4, <1>5, <1>6, <1>7, <1>8, <1>9, <1>10 DEF Next, Call, Runs, Outside

LEMMA MemoryStep == AInv /\ SocketOK /\ BInv /\ [Next]_vars => BInv'
BY ReceiveKeeps, CopiesKeeps, ReceivedKeeps, OtherStepsAside, AsideKeeps

LEMMA TypesInit == Init => StatesOK /\ SocketOK /\ BInv
<1> SUFFICES ASSUME Init PROVE StatesOK /\ SocketOK /\ BInv
  OBVIOUS
<1>1. StatesOK
  BY DEF Init, StatesOK
<1>2. SocketOK
  <2>1. queue = <<>> /\ arrived = <<>> /\ open = FALSE /\ arrivals = 0
    BY DEF Init
  <2>2. /\ queue \in Seq(Ops) /\ arrived \in Seq(1 .. MaxDatagrams)
        /\ arrivals \in 0 .. MaxDatagrams
    BY <2>1, AsyncAssumption
  <2> QED BY Zenon, <2>1, <2>2 DEF SocketOK
<1>3. MemoryOK
  BY AsyncAssumption DEF Init, MemoryOK, Torn
<1>4. /\ \A o \in Ops : Has(o) /\ ~IsReceive(o)
      /\ Owned /\ InOrder /\ Contents
  BY DEF Init, Has, IsReceive, Owned, InOrder, Shared, Contents
<1> QED BY <1>1, <1>2, <1>3, <1>4 DEF BInv

(* For any number of calls and datagrams: every promise, handler and       *)
(* callback is in a state it can be in, and nothing waits at a closed      *)
(* socket.                                                                 *)
THEOREM TypeCorrect == Spec => []TypeOK
BY InvInit, InvNext, TypesInit, StatesStep, SocketStep, MemoryStep, Types, PTL DEF Spec

(* For any number of calls, datagrams and addresses, with freed memory     *)
(* given out again while an operation writes to it: receive_from gives the *)
(* datagram its operation took; receive gives it, or what the early copy   *)
(* found, or what the operation of an earlier receive wrote to the memory  *)
(* that one had freed.                                                     *)
THEOREM ReceivesGiveWhatArrived == Spec => []GivesWhatArrived
BY InvInit, InvNext, TypesInit, StatesStep, SocketStep, MemoryStep, Types, PTL DEF Spec
=============================================================================
