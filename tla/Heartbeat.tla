------------------------------ MODULE Heartbeat ------------------------------
(***************************************************************************)
(* The heartbeat of a voice session (do_heartbeat, process_hello and       *)
(* process_heartbeat_ack of lib/discord/voice_client_events.cpp), seen     *)
(* apart from the rest of the client.                                      *)
(*                                                                         *)
(* Every Hello starts a loop, a chain of continuations on the thread pool: *)
(*                                                                         *)
(*   scheduled -> checking -> waiting -> bumping -> sent -> checking ...   *)
(*                                                                         *)
(* It compares _nonce with _received_nonce, waits for the interval,        *)
(* increments _nonce and sends it.  The peer answers every heartbeat with  *)
(* its nonce, in order.  A loop ends for good as "ended" (a cancellation   *)
(* was seen), "mismatch" (the comparison threw) or "unsent" (the websocket *)
(* refused the message); process_hello keeps no handle to the loop's task, *)
(* so nobody restarts it.                                                  *)
(***************************************************************************)
EXTENDS Integers, Sequences

CONSTANTS
  Modulus,  \* size of the nonce type: 2^32 for uint32_t
  Loops     \* identities of heartbeat loops, one for each Hello

ASSUME HeartbeatAssumption == Modulus \in Nat /\ Modulus >= 4

VARIABLES
  nonce,       \* _nonce: the last nonce the client generated
  received,    \* _received_nonce: the last nonce the peer answered
  pc,          \* where each loop is
  reg,         \* the value of _nonce a loop holds in a register
  flight,      \* nonces sent and not yet processed as an answer, oldest first
  overlapped,  \* history: was a loop started while another was live?
  missed       \* history: did a heartbeat not get its answer in time?

vars == <<nonce, received, pc, reg, flight, overlapped, missed>>

-----------------------------------------------------------------------------
(* uint32_t arithmetic.                                                    *)

Word == 0 .. Modulus - 1

PlainInc(n) == n + 1
Inc(n) == IF n = Modulus - 1 THEN 0 ELSE n + 1

Sub(m, n) == IF m >= n THEN m - n ELSE m - n + Modulus

(* The comparison that decides whether the connection is still healthy.    *)
AnyOutstanding(delta) == delta > 0
TwoTolerated(delta) == delta > 2
NonceMismatch(delta) == delta > 1

-----------------------------------------------------------------------------
LivePC == {"scheduled", "checking", "waiting", "bumping", "sent"}
OverPC == {"ended", "mismatch", "unsent"}

Live(l) == pc[l] \in LivePC

Goto(l, next) == pc' = [pc EXCEPT ![l] = next]

(* A Hello creates the task that runs the loop.                            *)
Create(l) ==
  /\ pc[l] = "idle"
  /\ Goto(l, "scheduled")
  /\ overlapped' = (overlapped \/ \E k \in Loops : Live(k))
  /\ UNCHANGED <<nonce, received, reg, flight, missed>>

(* The loop ends quietly: its task is cancelled before it ran, or          *)
(* is_task_cancellation_requested() answers true at one of the three       *)
(* places that ask, after the comparison, after the wait and after the     *)
(* send.  Which token is asked is not this module's concern.               *)
CancellationSeen(l) ==
  /\ pc[l] \in {"scheduled", "checking", "waiting", "sent"}
  /\ pc[l] = "checking" => ~NonceMismatch(Sub(reg[l], received))
  /\ Goto(l, "ended")
  /\ reg' = [reg EXCEPT ![l] = 0]
  /\ UNCHANGED <<nonce, received, flight, overlapped, missed>>

(* do_heartbeat is entered: it loads _nonce ...                            *)
Enter(l) ==
  /\ pc[l] \in {"scheduled", "sent"}
  /\ Goto(l, "checking")
  /\ reg' = [reg EXCEPT ![l] = nonce]
  /\ UNCHANGED <<nonce, received, flight, overlapped, missed>>

(* ... and subtracts _received_nonce.  Neither variable is atomic or       *)
(* guarded by a lock, so the two loads are two steps.                      *)
Compare(l) ==
  /\ pc[l] = "checking"
  /\ Goto(l, IF NonceMismatch(Sub(reg[l], received)) THEN "mismatch"
                                                     ELSE "waiting")
  /\ reg' = [reg EXCEPT ![l] = 0]
  /\ UNCHANGED <<nonce, received, flight, overlapped, missed>>

(* The interval is over and the continuation loads _nonce to increment it. *)
(* An answer that has not come by now is late.                             *)
Fire(l) ==
  /\ pc[l] = "waiting"
  /\ Goto(l, "bumping")
  /\ reg' = [reg EXCEPT ![l] = nonce]
  /\ missed' = (missed \/ flight # <<>>)
  /\ UNCHANGED <<nonce, received, flight, overlapped>>

(* The second half of ++_nonce.  It precedes the send and is not undone    *)
(* when the send fails.                                                    *)
StoreNonce(l) ==
  /\ pc[l] = "bumping"
  /\ nonce' = Inc(reg[l])
  /\ reg' = [reg EXCEPT ![l] = 0]

Beat(l) ==
  /\ StoreNonce(l)
  /\ Goto(l, "sent")
  /\ flight' = Append(flight, nonce')
  /\ UNCHANGED <<received, overlapped, missed>>

(* The websocket is closed: the send throws and the loop is gone.          *)
BeatFails(l) ==
  /\ StoreNonce(l)
  /\ Goto(l, "unsent")
  /\ missed' = TRUE
  /\ UNCHANGED <<received, flight, overlapped>>

(* The answers to the heartbeats are processed in the order they come, the *)
(* handler of one having returned before the next starts.                  *)
LatestFirst ==
  /\ flight # <<>>
  /\ received' = flight[Len(flight)]
  /\ flight' = SubSeq(flight, 1, Len(flight) - 1)
  /\ UNCHANGED <<nonce, pc, reg, overlapped, missed>>

Acknowledge ==
  /\ flight # <<>>
  /\ received' = Head(flight)
  /\ flight' = Tail(flight)
  /\ UNCHANGED <<nonce, pc, reg, overlapped, missed>>

(* The connection ends, and with it the answers still under way.           *)
Disconnect ==
  /\ flight # <<>>
  /\ flight' = <<>>
  /\ missed' = TRUE
  /\ UNCHANGED <<nonce, received, pc, reg, overlapped>>

-----------------------------------------------------------------------------
Init ==
  /\ nonce = 0
  /\ received = 0
  /\ pc = [l \in Loops |-> "idle"]
  /\ reg = [l \in Loops |-> 0]
  /\ flight = <<>>
  /\ overlapped = FALSE
  /\ missed = FALSE

Step(l) == Enter(l) \/ Compare(l) \/ Fire(l) \/ Beat(l)

Next ==
  \/ \E l \in Loops : Create(l) \/ CancellationSeen(l) \/ BeatFails(l) \/ Step(l)
  \/ Acknowledge
  \/ Disconnect

Spec == Init /\ [][Next]_vars

(* The thread pool runs every ready continuation, every timer fires and    *)
(* the peer answers; nobody has to say Hello, cancel or disconnect.        *)
FairSpec ==
  /\ Spec
  /\ \A l \in Loops : WF_vars(Step(l))
  /\ WF_vars(Acknowledge)

-----------------------------------------------------------------------------
TypeOK ==
  /\ nonce \in Word
  /\ received \in Word
  /\ pc \in [Loops -> {"idle"} \cup LivePC \cup OverPC]
  /\ reg \in [Loops -> Word]
  /\ flight \in Seq(Word)
  /\ overlapped \in BOOLEAN
  /\ missed \in BOOLEAN

(* As long as loops never overlap, the unsigned difference do_heartbeat    *)
(* computes never exceeds two: at most two heartbeats are unanswered, and  *)
(* _received_nonce never runs ahead of _nonce, which would make the        *)
(* difference wrap to a huge value.  Answers lost with a connection and    *)
(* nonces spent on refused sends do not break it.                          *)
HeartbeatWindow == ~overlapped => Sub(nonce, received) <= 2

(* As long as every heartbeat was answered within its interval and loops   *)
(* have not overlapped, no loop throws "nonce mismatch": the comparison    *)
(* tolerates the one heartbeat that was sent just before it.               *)
NoFalseAlarm ==
  ~overlapped /\ ~missed => \A l \in Loops : pc[l] # "mismatch"

(* Processing an answer never takes _received_nonce backwards: measured    *)
(* from _nonce, which wraps, every new value is more recent than the old.  *)
AnswersAdvance ==
  [][received' # received /\ ~overlapped
       => Sub(nonce, received') < Sub(nonce, received)]_vars

(* A loop that has sent a heartbeat goes on to the next one, unless it is  *)
(* cancelled, a heartbeat was not answered in time or loops overlapped.    *)
KeepsBeating ==
  \A l \in Loops :
    pc[l] = "sent" ~> pc[l] \in {"bumping", "ended"} \/ missed \/ overlapped
=============================================================================
