------------------------------- MODULE Tasks -------------------------------
(***************************************************************************)
(* What the caller of an asynchronous operation is promised of the task it *)
(* gets: the task is pending until there is a reason for it to end, ends   *)
(* once, for one of the reasons there are, and does end when there is one. *)
(***************************************************************************)
CONSTANT Ops   \* calls of asynchronous operations

VARIABLES
  task,     \* of each call: "none", "pending", or how its task ended
  reasons   \* of each call: the ways to end it has a reason for

Outcomes == {"value", "error", "cancelled"}

Init ==
  /\ task = [o \in Ops |-> "none"]
  /\ reasons = [o \in Ops |-> {}]

(* A reason, once there, stays; there is none before the call.             *)
Grows(begun) ==
  \A o \in Ops : /\ reasons[o] \subseteq reasons'[o] /\ reasons'[o] \subseteq Outcomes
                 /\ o \notin begun => reasons'[o] = reasons[o]

Begin(o) ==
  /\ task[o] = "none"
  /\ task' = [task EXCEPT ![o] = "pending"]
  /\ Grows({o})

Happen ==
  /\ Grows({o \in Ops : task[o] # "none"})
  /\ UNCHANGED task

Settle(o) ==
  /\ task[o] = "pending"
  /\ \E outcome \in reasons[o] : task' = [task EXCEPT ![o] = outcome]
  /\ UNCHANGED reasons

Next == Happen \/ \E o \in Ops : Begin(o) \/ Settle(o)

Spec == Init /\ [][Next]_<<task, reasons>>

FairSpec == Spec /\ \A o \in Ops : WF_<<task, reasons>>(Settle(o))
=============================================================================
