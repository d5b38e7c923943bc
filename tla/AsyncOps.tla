------------------------------ MODULE AsyncOps ------------------------------
(***************************************************************************)
(* The asynchronous operations the rest of the library waits for: wait_for *)
(* of pplx_extras.cpp, and connect, send, receive and receive_from on the  *)
(* one socket of a UDP client, with its close.  Each starts an operation   *)
(* of asio and returns a task that hangs on a promise, which the handler   *)
(* settles on a thread of the pool.                                        *)
(*                                                                         *)
(* Calls, handlers, callbacks, the canceller of the token and the network  *)
(* take turns in any order.  Datagrams are numbered as they arrive.  What  *)
(* is in memory is the datagram written there, 0 when there is none.       *)
(* Memory that was freed may be given to the next who asks for some, while *)
(* an operation that was started with it still writes to it.  Whom else    *)
(* such a write may hit, outside the memory of receives, is not modelled.  *)
(***************************************************************************)
EXTENDS Integers, SequencesExt

CONSTANTS
  Ops,          \* calls of asynchronous operations
  Groups,       \* bound: what they may be calls of, together
  Addresses,    \* of the memory for receives
  MaxDatagrams  \* bound: datagrams that arrive

ASSUME AsyncAssumption == MaxDatagrams \in Nat /\ Addresses \subseteq Nat \ {0}

VARIABLES
  kind,      \* of each call: what it calls, "none" before it does
  at,        \* of each call: where in its function its caller is
  came,      \* of each call: how the operation of asio ended
  handler,   \* of each call: what its handler is doing
  task,      \* of each call: the state of its task
  queue,     \* operations on the socket that wait, in order
  memory,    \* what is at every address
  buffer,    \* of each call: the address given to a receive, 0 before
  copy,      \* of each call: where the continuation of receive has its copy, 0 before
  open,      \* is the socket open?
  arrived,   \* datagrams in the socket, in order
  arrivals,  \* how many datagrams have arrived
  took,      \* history: of each call, the datagram its operation took
  early,     \* history: the receives that began to copy before their operation ended
  source,    \* the cancellation source of the token: "live" or "cancelled"
  callback   \* of each call: what became of its cancellation callback

heap == <<memory, buffer, copy, early>>
udp == <<queue, heap, open, arrived, arrivals, took>>
token == <<source, callback>>
vars == <<kind, at, came, handler, task, udp, token>>

-----------------------------------------------------------------------------
Receives == {"receive", "receive_from"}
Sockets == Receives \cup {"connect", "send"}
Waits == {"wait", "wait with token"}
Torn == -1

Triggered(o) == task[o] # "pending"      \* promise._IsTriggered()

(* The promise settles the task unless it was settled before.              *)
Settle(o, outcome) == task' = IF Triggered(o) THEN task ELSE [task EXCEPT ![o] = outcome]

(* The operation ends, and its handler is queued.                          *)
Ended(o, how) ==
  /\ came' = [came EXCEPT ![o] = how]
  /\ handler' = [handler EXCEPT ![o] = "queued"]

Calls(o, k, pc) ==
  /\ kind[o] = "none"
  /\ \E group \in Groups : group[o] = k /\ \A p \in Ops : kind[p] \in {"none", group[p]}
  /\ kind' = [kind EXCEPT ![o] = k]
  /\ at' = [at EXCEPT ![o] = pc]
  /\ task' = [task EXCEPT ![o] = "pending"]

-----------------------------------------------------------------------------
(* wait_for.  Without a token that is all.                                 *)
NeverRegisters(o, k) ==
  /\ Calls(o, k, "returned")
  /\ UNCHANGED <<came, handler, udp, token>>

WaitFor(o, k) ==
  /\ Calls(o, k, IF k = "wait" THEN "returned" ELSE "register")
  /\ UNCHANGED <<came, handler, udp, token>>

(* On a cancelled token the callback runs at once, in the caller.          *)
Register(o) ==
  /\ at[o] = "register"
  /\ IF source = "cancelled"
     THEN /\ at' = [at EXCEPT ![o] = "calls back"]
          /\ callback' = [callback EXCEPT ![o] = "timer"]
     ELSE /\ at' = [at EXCEPT ![o] = "then"]
          /\ callback' = [callback EXCEPT ![o] = "registered"]
  /\ UNCHANGED <<kind, came, handler, task, udp, source>>

(* The continuation that takes the callback away again is attached.        *)
Attach(o) ==
  /\ at[o] = "then" \/ (at[o] = "calls back" /\ callback[o] = "called")
  /\ at' = [at EXCEPT ![o] = "returned"]
  /\ UNCHANGED <<kind, came, handler, task, udp, token>>

Expire(o) ==
  /\ kind[o] \in Waits /\ came[o] = "none"
  /\ Ended(o, "value")
  /\ UNCHANGED <<kind, at, task, udp, token>>

(* The handler asks whether the promise was settled, and then settles it.  *)
AbortedHandler(o) ==
  /\ kind[o] \in Waits /\ came[o] = "aborted"
  /\ \/ /\ handler[o] = "queued"
        /\ handler' = [handler EXCEPT ![o] = IF Triggered(o) THEN "over" ELSE "settles"]
        /\ UNCHANGED task
     \/ /\ handler[o] = "settles"
        /\ handler' = [handler EXCEPT ![o] = "over"]
        /\ Settle(o, "cancelled")
  /\ UNCHANGED <<kind, at, came, udp, token>>

(* So does the callback, after it has cancelled the timer.                 *)
CancelTimer(o) ==
  /\ callback[o] = "timer"
  /\ IF came[o] = "none" THEN Ended(o, "aborted") ELSE UNCHANGED <<came, handler>>
  /\ callback' = [callback EXCEPT ![o] = "asks"]
  /\ UNCHANGED <<kind, at, task, udp, source>>

CancelPromise(o) ==
  /\ \/ /\ callback[o] = "asks"
        /\ callback' = [callback EXCEPT ![o] = IF Triggered(o) THEN "called" ELSE "settles"]
        /\ UNCHANGED task
     \/ /\ callback[o] = "settles"
        /\ callback' = [callback EXCEPT ![o] = "called"]
        /\ Settle(o, "cancelled")
  /\ UNCHANGED <<kind, at, came, handler, udp, source>>

(* The token is cancelled; the callbacks are called one after the other.   *)
CancelToken ==
  /\ source = "live" /\ source' = "cancelled"
  /\ callback' = [o \in Ops |-> IF callback[o] = "registered" THEN "pending" ELSE callback[o]]
  /\ UNCHANGED <<kind, at, came, handler, task, udp>>

Calling(o) == callback[o] \in {"timer", "asks", "settles"}

CallBack(o) ==
  /\ callback[o] = "pending"
  /\ \A p \in Ops : Calling(p) => at[p] = "calls back"
  /\ callback' = [callback EXCEPT ![o] = "timer"]
  /\ UNCHANGED <<kind, at, came, handler, task, udp, source>>

(* The continuation takes the callback away; one that is being called it   *)
(* waits for, one that would be called is not.                             *)
DeregistersElapsed(o) ==
  /\ task[o] = "value"
  /\ kind[o] = "wait with token" /\ at[o] = "returned"
  /\ callback[o] \in {"registered", "pending", "called"}
  /\ callback' = [callback EXCEPT ![o] = "deregistered"]
  /\ UNCHANGED <<kind, at, came, handler, task, udp, source>>

Deregister(o) ==
  /\ Triggered(o)
  /\ kind[o] = "wait with token" /\ at[o] = "returned"
  /\ callback[o] \in {"registered", "pending", "called"}
  /\ callback' = [callback EXCEPT ![o] = "deregistered"]
  /\ UNCHANGED <<kind, at, came, handler, task, udp, source>>

-----------------------------------------------------------------------------
(* The socket.  An operation that can be done at once, and finds none of   *)
(* its kind waiting, is done at once; otherwise it waits in line.          *)

Direction(o) == IF kind[o] \in Receives THEN Receives ELSE {"send"}
Before(o) == {p \in Ops : \E i, j \in DOMAIN queue : i < j /\ queue[i] = p /\ queue[j] = o}
Waiting(o) == kind[o] \in Sockets /\ came[o] = "none"
First(o) == Waiting(o) /\ \A p \in Before(o) : kind[p] \notin Direction(o)
Unqueue(o) == \E i \in DOMAIN queue : queue[i] = o /\ queue' = RemoveAt(queue, i)

Fails(o, k) ==
  /\ Calls(o, k, "called")
  /\ Ended(o, "error")
  /\ UNCHANGED <<udp, token>>

(* connect opens the socket if it has to, which may fail.  (A host that is *)
(* no address makes connect and receive_from throw before they do          *)
(* anything.)                                                              *)
Connect(o) ==
  /\ Calls(o, "connect", "called")
  /\ \/ Ended(o, "value") /\ open' = TRUE
     \/ Ended(o, "error") /\ open' \in {open, TRUE}
  /\ UNCHANGED <<queue, heap, arrived, arrivals, took, token>>

(* There may or may not be room for a datagram in the socket.              *)
Send(o) ==
  \/ /\ open
     /\ Calls(o, "send", "called")
     /\ \/ queue' = Append(queue, o) /\ UNCHANGED <<came, handler>>
        \/ /\ \A i \in DOMAIN queue : kind[queue[i]] # "send"
           /\ Ended(o, "value")
           /\ UNCHANGED queue
     /\ UNCHANGED <<heap, open, arrived, arrivals, took, token>>
  \/ Fails(o, "send")

(* receive has a vector of its own until it returns, receive_from an array *)
(* that is never deleted.                                                  *)
FreedByBoth(o) == at[o] # "returned"

Holds(o) == kind[o] = "receive_from" \/ at[o] # "returned"

(* Memory that nobody had yet is all the same: the first of it will do.    *)
Used == {buffer[o] : o \in Ops} \cup {copy[o] : o \in Ops}
Free ==
  {a \in Addresses :
     /\ \A o \in Ops : copy[o] # a /\ (Holds(o) => buffer[o] # a)
     /\ a \in Used \/ \A b \in Addresses \ Used : a <= b}

(* The vector is zeroed, the array is as it was left.                      *)
Blank(k, a) == IF k = "receive" THEN [memory EXCEPT ![a] = 0] ELSE memory

OneWaits == \E i \in DOMAIN queue : kind[queue[i]] \in Receives

Receive(o, k) ==
  /\ Calls(o, k, "called")
  /\ \E a \in Free :
       /\ buffer' = [buffer EXCEPT ![o] = a]
       /\ \/ /\ Ended(o, "error")
             /\ memory' = Blank(k, a)
             /\ UNCHANGED <<queue, arrived, took>>
          \/ /\ open /\ (arrived = <<>> \/ OneWaits)
             /\ queue' = Append(queue, o)
             /\ memory' = Blank(k, a)
             /\ UNCHANGED <<came, handler, arrived, took>>
          \/ /\ open /\ arrived # <<>> /\ ~OneWaits
             /\ Ended(o, "value")
             /\ memory' = [memory EXCEPT ![a] = Head(arrived)]
             /\ took' = [took EXCEPT ![o] = Head(arrived)]
             /\ arrived' = Tail(arrived)
             /\ UNCHANGED queue
  /\ UNCHANGED <<copy, early, open, arrivals, token>>

(* receive copies its buffer into the continuation while operations may be *)
(* writing to either; then the function returns, and the memory of send    *)
(* and receive and the endpoint of receive_from are gone.                  *)
Copies(o) ==
  /\ at[o] = "called" /\ kind[o] = "receive"
  /\ at' = [at EXCEPT ![o] = "copies"]
  /\ \E a \in Free :
       /\ copy' = [copy EXCEPT ![o] = a]
       /\ memory' = [memory EXCEPT ![a] = memory[buffer[o]]]
  /\ early' = IF came[o] = "none" THEN early \cup {o} ELSE early
  /\ UNCHANGED <<kind, came, handler, task, queue, buffer, open, arrived, arrivals, took, token>>

Return(o) ==
  /\ at[o] = "copies" \/ (at[o] = "called" /\ kind[o] \in Sockets \ {"receive"})
  /\ at' = [at EXCEPT ![o] = "returned"]
  /\ UNCHANGED <<kind, came, handler, task, udp, token>>

(* An operation that waited is done.  A send reads the bytes, or what is   *)
(* now where they were.                                                    *)
Sent(o) ==
  /\ kind[o] = "send" /\ First(o)
  /\ \E how \in {"value", "error"} : Ended(o, how)
  /\ Unqueue(o)
  /\ UNCHANGED <<kind, at, task, heap, open, arrived, arrivals, took, token>>

(* A write to a place that is being copied, from or to, finds the copy not *)
(* begun, made, or in the middle.                                          *)
Mixed(a) == {copy[p] : p \in {q \in Ops : at[q] = "copies" /\ a \in {buffer[q], copy[q]}}}

Written(a, datagram) ==
  \E over, torn \in SUBSET Mixed(a) :
    memory' = [b \in Addresses |->
                 IF b \in torn THEN Torn
                 ELSE IF b \in over \/ (b = a /\ b \notin Mixed(a)) THEN datagram
                 ELSE memory[b]]

(* A receive writes to the address it was given, whose that is by now.     *)
Received(o) ==
  /\ kind[o] \in Receives /\ First(o) /\ arrived # <<>>
  /\ Ended(o, "value")
  /\ Unqueue(o)
  /\ Written(buffer[o], Head(arrived))
  /\ took' = [took EXCEPT ![o] = Head(arrived)]
  /\ arrived' = Tail(arrived)
  /\ UNCHANGED <<kind, at, task, buffer, copy, early, open, arrivals, token>>

(* A failure the network reports, such as an unreachable port.             *)
ReceiveFails(o) ==
  /\ kind[o] \in Receives /\ First(o)
  /\ Ended(o, "error")
  /\ Unqueue(o)
  /\ UNCHANGED <<kind, at, task, heap, open, arrived, arrivals, took, token>>

(* The datagram has the next number.                                       *)
Arrive ==
  /\ open /\ arrivals < MaxDatagrams
  /\ arrivals' = arrivals + 1
  /\ arrived' = Append(arrived, arrivals')
  /\ UNCHANGED <<kind, at, came, handler, task, queue, heap, open, took, token>>

(* close ends the operations that wait.                                    *)
ShutsDown ==
  /\ open /\ open' = FALSE
  /\ arrived' = <<>>
  /\ UNCHANGED <<kind, at, came, handler, task, queue, heap, arrivals, took, token>>

Close ==
  /\ open /\ open' = FALSE
  /\ came' = [o \in Ops |-> IF Waiting(o) THEN "error" ELSE came[o]]
  /\ handler' = [o \in Ops |-> IF Waiting(o) THEN "queued" ELSE handler[o]]
  /\ queue' = <<>> /\ arrived' = <<>>
  /\ UNCHANGED <<kind, at, task, heap, arrivals, took, token>>

(* Every other handler settles the promise with what it was given.         *)
Handler(o) ==
  /\ handler[o] = "queued" /\ came[o] # "aborted"
  /\ handler' = [handler EXCEPT ![o] = "over"]
  /\ Settle(o, came[o])
  /\ UNCHANGED <<kind, at, came, udp, token>>

-----------------------------------------------------------------------------
Init ==
  /\ kind = [o \in Ops |-> "none"] /\ at = [o \in Ops |-> "idle"]
  /\ came = [o \in Ops |-> "none"] /\ handler = [o \in Ops |-> "none"]
  /\ task = [o \in Ops |-> "none"]
  /\ queue = <<>> /\ open = FALSE /\ arrived = <<>> /\ arrivals = 0
  /\ memory = [a \in Addresses |-> 0] /\ early = {}
  /\ buffer = [o \in Ops |-> 0] /\ copy = [o \in Ops |-> 0] /\ took = [o \in Ops |-> 0]
  /\ source = "live" /\ callback = [o \in Ops |-> "none"]

Call(o) ==
  \/ \E k \in Waits : WaitFor(o, k)
  \/ Connect(o) \/ Send(o)
  \/ \E k \in Receives : Receive(o, k)

(* Callers go on, and handlers, callbacks and continuations are run.       *)
Runs(o) ==
  \/ Register(o) \/ Attach(o) \/ Copies(o) \/ Return(o)
  \/ AbortedHandler(o) \/ Handler(o)
  \/ CancelTimer(o) \/ CancelPromise(o) \/ CallBack(o)

Outside(o) == Expire(o) \/ Sent(o) \/ Received(o) \/ ReceiveFails(o)

Next ==
  \/ \E o \in Ops : Call(o) \/ Runs(o) \/ Deregister(o) \/ Outside(o)
  \/ CancelToken \/ Arrive \/ Close

Spec == Init /\ [][Next]_vars

FairSpec ==
  Spec /\ \A o \in Ops :
            /\ WF_vars(Register(o) \/ Attach(o))
            /\ WF_vars(AbortedHandler(o) \/ Handler(o))
            /\ WF_vars(CancelTimer(o) \/ CancelPromise(o) \/ CallBack(o))
            /\ WF_vars(Deregister(o))

-----------------------------------------------------------------------------
TypeOK ==
  /\ kind \in [Ops -> Waits \cup Sockets \cup {"none"}]
  /\ at \in [Ops -> {"idle", "register", "calls back", "then", "called", "copies", "returned"}]
  /\ came \in [Ops -> {"none", "value", "error", "aborted"}]
  /\ handler \in [Ops -> {"none", "queued", "settles", "over"}]
  /\ task \in [Ops -> {"none", "pending", "value", "error", "cancelled"}]
  /\ queue \in Seq(Ops) /\ arrived \in Seq(1 .. MaxDatagrams)
  /\ arrivals \in 0 .. MaxDatagrams
  /\ took \in [Ops -> 0 .. MaxDatagrams] /\ early \subseteq Ops
  /\ memory \in [Addresses -> Torn .. MaxDatagrams]
  /\ buffer \in [Ops -> Addresses \cup {0}] /\ copy \in [Ops -> Addresses \cup {0}]
  /\ open \in BOOLEAN /\ source \in {"live", "cancelled"}
  /\ callback \in [Ops -> {"none", "registered", "pending", "timer", "asks", "settles",
                           "called", "deregistered"}]
  /\ queue # <<>> => open
  /\ \A o \in Ops : kind[o] = "none" <=> task[o] = "none"

(* What a task ends with: its operation did, or the token it was given was *)
(* cancelled.                                                              *)
Reasons(o) ==
  {x \in {"value", "error"} : came[o] = x}
    \cup IF source = "cancelled" /\ kind[o] = "wait with token" THEN {"cancelled"} ELSE {}

T == INSTANCE Tasks WITH reasons <- [o \in Ops |-> Reasons(o)]

(* Whatever timer, handler, callback and canceller do to each other, and   *)
(* though both of them ask first and settle later, a task ends once and    *)
(* for a reason; and where the time does not end or the network does not   *)
(* answer, the cancelled token or the closed socket is enough to end it.   *)
TaskSpec == T!FairSpec

(* receive_from always gives the datagram its operation took, though its   *)
(* memory may be memory that another operation still writes to, because    *)
(* that one was queued before.  receive gives it unless it copied before   *)
(* it came, and then has zeros or anything; or unless its memory is what   *)
(* an earlier receive has left to an operation: then it may have the       *)
(* datagram of that one, or both mixed.                                    *)
Result(o) == memory[IF kind[o] = "receive" THEN copy[o] ELSE buffer[o]]

LeftTo(p, o) ==
  p # o /\ kind[p] = "receive" /\ at[p] = "returned" /\ buffer[p] \in {buffer[o], copy[o]}

GivesWhatArrived ==
  \A o \in Ops : kind[o] \in Receives /\ at[o] = "returned" /\ task[o] = "value" =>
    \/ Result(o) = took[o]
    \/ kind[o] = "receive" /\ o \in early /\ Result(o) \in {0, Torn}
    \/ kind[o] = "receive" /\ \E p \in Ops : LeftTo(p, o) /\ Result(o) \in {took[p], Torn}

(* A wait that is over leaves no callback in the token.                    *)
Deregistered ==
  \A o \in Ops : (at[o] = "returned" /\ task[o] \notin {"none", "pending"})
                   ~> callback[o] \in {"none", "deregistered"}
=============================================================================
