--------------------------- MODULE PstreambufProofs ---------------------------
(***************************************************************************)
(* Theorems about Pstreambuf, for every set of streams and modes and every *)
(* number of processes.                                                    *)
(***************************************************************************)
EXTENDS Pstreambuf, TLAPS

-----------------------------------------------------------------------------
Pcs == {"idle", "ck_exec", "fcntl", "pipes", "fork", "parent", "read", "wait",
        "sync", "peof", "close", "destroy", "closing", "destroying", "gone"}
Blocking == {"sync", "peof", "close", "destroy"}
States == {"none", "forked", "running", "zombie", "reaped"}
Mode == SUBSET (Standard \cup {"newpg"})
AnyEnd == Children \X (Standard \cup {"ck_exec"}) \X {"RD", "WR"}

CallRecord == [pc : Pcs, n : 0 .. MaxOpens, mode : Mode, argv : BOOLEAN]
ChildRecord == [state : States, newpg : BOOLEAN, leader : BOOLEAN, wrote : BOOLEAN, ran : BOOLEAN,
                stays : BOOLEAN]

(* Shapes.                                                                 *)
CallsOK == call \in [Streams -> CallRecord] /\ opens \in 0 .. MaxOpens
ChildrenOK == child \in [Children -> ChildRecord]
PpidOK == ppid \in [Streams -> {-1, 0} \cup Children]
PipesOK ==
  /\ pipes \in [Streams -> SUBSET AnyEnd]
  /\ \A s \in Streams : \A e \in pipes[s] : e \in ParentSide(e[1])
FilesOK == files \in [Processes -> SUBSET AnyEnd] /\ onExec \in [Processes -> SUBSET AnyEnd]
SetsOK == error \subseteq Streams /\ leaky \subseteq Streams

Shape == CallsOK /\ ChildrenOK /\ PpidOK /\ PipesOK /\ FilesOK /\ SetsOK

-----------------------------------------------------------------------------
(* Where a call of open is.                                                *)
Before == {"ck_exec", "fcntl", "pipes", "fork"}
After == {"read", "wait"}
Starting == Before \cup {"parent"}

(* Every call of open has a number of its own, which is used up.           *)
OwnNumber ==
  /\ \A s \in Streams :
       /\ call[s].n <= opens
       /\ call[s].pc \in Starting \cup After => call[s].n \in Children
       /\ call[s].pc \in {"ck_exec", "fcntl"} \cup After => call[s].argv
  /\ \A s, t \in Streams : s # t /\ call[s].n # 0 => call[s].n # call[t].n

(* Where in open the stream is tells what it knows of the process.         *)
Stage ==
  /\ \A s \in Streams :
       /\ call[s].pc \in Before => child[call[s].n].state = "none"
       /\ call[s].pc \in Starting => ppid[s] <= 0
       /\ call[s].pc \in After => ppid[s] = call[s].n
  /\ \A n \in Children : n > opens => child[n].state = "none"

(* Every process belongs to a stream from fork until it was collected.     *)
Owned ==
  /\ \A n \in Children :
       child[n].state \in {"forked", "running", "zombie"} => \E s \in Streams : Owns(s, n)
  /\ \A n \in Children, s \in Streams :
       Owns(s, n) => child[n].state \in {"forked", "running", "zombie"}
  /\ \A n \in Children, s, t \in Streams : Owns(s, n) /\ Owns(t, n) => s = t

(* The pipes of two streams are different, and those of a new process new. *)
OwnPipes ==
  /\ \A s, t \in Streams : s # t => pipes[s] \cap pipes[t] = {}
  /\ \A s \in Streams : \A e \in pipes[s] : e[1] <= opens
  /\ \A s, t \in Streams : call[t].pc \in Starting => \A e \in pipes[s] : e[1] # call[t].n
  /\ \A s \in Streams : call[s].pc \in Starting /\ pipes[s] # {} => s \in leaky

(* Flags are set on descriptors that are open, and on ck_exec pipes only.  *)
FlagsOK ==
  \A p \in Processes : onExec[p] \subseteq {e \in files[p] : e[2] = "ck_exec"}

(* Until open has read it, the outcome of exec is on its way.              *)
Told(n) ==
  \/ child[n].ran \/ child[n].wrote
  \/ child[n].state = "forked" /\ <<n, "ck_exec", "WR">> \in files[n]

RanOrWrote ==
  \A n \in Children :
    /\ child[n].state \in {"none", "forked"} => ~child[n].wrote /\ ~child[n].ran
    /\ child[n].state = "running" => child[n].ran
    /\ child[n].wrote => ~child[n].ran

ToldTo(s) == Told(call[s].n)

Outcome ==
  \A s \in Streams :
    /\ call[s].pc \in {"parent", "read"} /\ call[s].argv => ToldTo(s)
    /\ call[s].pc = "wait" => child[call[s].n].wrote

ClosingClean == \A s \in Streams : Closing(s) => pipes[s] = {} /\ s \notin error

PstreamInv ==
  /\ Shape /\ OwnNumber /\ Stage /\ Owned /\ OwnPipes /\ FlagsOK /\ DescriptorsKept
  /\ RanOrWrote /\ Outcome /\ ClosingClean

-----------------------------------------------------------------------------
(* Shapes.  What a step does to the record of a call or of a child.        *)
LEMMA CallGoes ==
  ASSUME CallsOK, NEW s \in Streams, NEW pc \in Pcs,
         call' = [call EXCEPT ![s].pc = pc]
  PROVE  /\ call' \in [Streams -> CallRecord]
         /\ call'[s].pc = pc /\ call'[s].n = call[s].n /\ call'[s].mode = call[s].mode
         /\ call'[s].argv <=> call[s].argv
         /\ \A t \in Streams \ {s} : call'[t] = call[t]
  BY DEF CallsOK, CallRecord

LEMMA ChildGoes ==
  ASSUME ChildrenOK, NEW n \in Children, NEW state \in States,
         child' = [child EXCEPT ![n].state = state]
  PROVE  /\ ChildrenOK'
         /\ child'[n].state = state
         /\ child'[n].wrote <=> child[n].wrote
         /\ child'[n].ran <=> child[n].ran
         /\ child'[n].leader <=> child[n].leader
         /\ \A m \in Children \ {n} : child'[m] = child[m]
  BY DEF ChildrenOK, ChildRecord

LEMMA CallBegins ==
  ASSUME CallsOK, NEW s \in Streams, NEW mode \in Modes, NEW argv \in BOOLEAN,
         Begin(s, mode, argv)
  PROVE  /\ CallsOK'
         /\ call'[s].pc = (IF argv THEN "ck_exec" ELSE "pipes")
         /\ call'[s].n = opens + 1 /\ opens + 1 \in Children /\ opens' = opens + 1
         /\ call'[s].argv <=> argv
         /\ \A t \in Streams \ {s} : call'[t] = call[t]
<1> DEFINE c == [pc |-> IF argv THEN "ck_exec" ELSE "pipes", n |-> opens + 1, mode |-> mode,
                 argv |-> argv]
<1>1. opens + 1 \in Children /\ opens' = opens + 1 /\ opens' \in 0 .. MaxOpens
  BY PstreamAssumption DEF Begin, CallsOK, Children
<1>2. c \in CallRecord
  <2>1. c.pc \in Pcs /\ c.n \in 0 .. MaxOpens /\ c.mode \in Mode
    BY <1>1, PstreamAssumption DEF Pcs, Mode, CallsOK
  <2> QED
    BY <2>1 DEF CallRecord
<1>3. call' = [call EXCEPT ![s] = c]
  BY DEF Begin
<1>4. /\ c.pc = (IF argv THEN "ck_exec" ELSE "pipes") /\ c.n = opens + 1
      /\ c.argv <=> argv
  OBVIOUS
<1> HIDE DEF c
<1>5. call' \in [Streams -> CallRecord] /\ call'[s] = c
      /\ \A t \in Streams \ {s} : call'[t] = call[t]
  BY <1>2, <1>3 DEF CallsOK
<1> QED
  BY <1>1, <1>4, <1>5 DEF CallsOK

LEMMA CallCloses ==
  ASSUME CallsOK, NEW s \in Streams, NEW pc \in Pcs,
         call' = [call EXCEPT ![s] = [NoCall EXCEPT !.pc = pc]]
  PROVE  /\ call' \in [Streams -> CallRecord]
         /\ call'[s].pc = pc /\ call'[s].n = 0
         /\ \A t \in Streams \ {s} : call'[t] = call[t]
<1> DEFINE c == [NoCall EXCEPT !.pc = pc]
<1>1. NoCall \in CallRecord /\ NoCall.n = 0
  <2>1. 0 \in 0 .. MaxOpens /\ {} \in Mode /\ "idle" \in Pcs
    BY PstreamAssumption DEF Mode, Pcs
  <2> QED
    BY <2>1 DEF NoCall, CallRecord
<1>2. c \in CallRecord /\ c.pc = pc /\ c.n = 0
  BY <1>1 DEF CallRecord
<1>4. call' = [call EXCEPT ![s] = c]
  OBVIOUS
<1> HIDE DEF c
<1> QED
  BY <1>2, <1>4 DEF CallsOK

LEMMA ChildForks ==
  ASSUME ChildrenOK, NEW n \in Children, NEW newpg \in BOOLEAN,
         child' = [child EXCEPT ![n] = [@ EXCEPT !.state = "forked", !.newpg = newpg]]
  PROVE  /\ ChildrenOK' /\ child'[n].state = "forked"
         /\ child'[n].wrote <=> child[n].wrote
         /\ child'[n].ran <=> child[n].ran
         /\ \A m \in Children \ {n} : child'[m] = child[m]
  BY DEF ChildrenOK, ChildRecord, States

LEMMA ChildRuns ==
  ASSUME ChildrenOK, NEW n \in Children,
         \E stays \in BOOLEAN :
           child' = [child EXCEPT ![n] = [@ EXCEPT !.state = "running",
                                                   !.leader = @ \/ child[n].newpg,
                                                   !.ran = TRUE, !.stays = stays]]
  PROVE  /\ ChildrenOK' /\ child'[n].state = "running"
         /\ child'[n].wrote <=> child[n].wrote
         /\ child'[n].ran
         /\ \A m \in Children \ {n} : child'[m] = child[m]
<1>1. PICK stays \in BOOLEAN :
        child' = [child EXCEPT ![n] = [@ EXCEPT !.state = "running",
                                                !.leader = @ \/ child[n].newpg,
                                                !.ran = TRUE, !.stays = stays]]
  OBVIOUS
<1> QED
  BY <1>1 DEF ChildrenOK, ChildRecord, States

LEMMA ChildLeaves ==
  ASSUME ChildrenOK, NEW n \in Children, NEW wrote \in BOOLEAN,
         child' = [child EXCEPT ![n].state = "zombie", ![n].wrote = wrote]
  PROVE  /\ ChildrenOK' /\ child'[n].state = "zombie"
         /\ child'[n].wrote <=> wrote
         /\ child'[n].ran <=> child[n].ran
         /\ \A m \in Children \ {n} : child'[m] = child[m]
  BY DEF ChildrenOK, ChildRecord, States

LEMMA EndsOK ==
  ASSUME NEW n \in Children
  PROVE  /\ CkExec(n) \subseteq AnyEnd /\ ParentSide(n) \subseteq AnyEnd
         /\ ChildSide(n) \subseteq AnyEnd
         /\ \A roles \in SUBSET Standard : Ends(n, roles) \subseteq AnyEnd
         /\ \A e \in ParentSide(n) : e[1] = n /\ e[2] \in Standard
         /\ \A e \in CkExec(n) : e[1] = n /\ e[2] = "ck_exec"
         /\ \A e \in ChildSide(n) : e[1] = n /\ e[2] \in Standard
         /\ \A roles : \A e \in Ends(n, roles) : e[1] = n /\ e[2] \in roles
<1>1. \A roles \in SUBSET (Standard \cup {"ck_exec"}) : Ends(n, roles) \subseteq AnyEnd
  BY DEF Ends, AnyEnd
<1>2. \A roles : \A e \in Ends(n, roles) : e[1] = n /\ e[2] \in roles
  BY DEF Ends
<1>3. CkExec(n) = Ends(n, {"ck_exec"})
  BY DEF CkExec
<1>4. ParentSide(n) \subseteq Ends(n, Standard) /\ ChildSide(n) \subseteq Ends(n, Standard)
  BY DEF ParentSide, ChildSide, Ends, Standard, Sources
<1> HIDE DEF Ends, CkExec, ParentSide, ChildSide
<1> QED
  BY <1>1, <1>2, <1>3, <1>4

(* A write of a call, its start, or a close without one.                   *)
Resets(s, next) ==
  /\ call[s].pc \in {"idle"} \cup Blocking /\ opens' = opens
  /\ call' = [call EXCEPT ![s] = [NoCall EXCEPT !.pc = next]]

ResetTo == {"idle", "closing", "destroying"} \cup Blocking

LEMMA WriteEnds ==
  ASSUME NEW s \in Streams, WriteReturns(s)
  PROVE  /\ call[s].pc \in Blocking
         /\ \E fds, next : /\ Wrote(s, fds, next)
                          /\ \/ next = "idle"
                             \/ next \in {"closing", "destroying"} /\ fds = pipes[s]
<1>1. call[s].pc \in Blocking
  BY DEF WriteReturns, At, Blocking
<1>2. CASE Wrote(s, {}, "idle")
  BY <1>1, <1>2
<1>3. CASE Wrote(s, Writing, "idle")
  BY <1>1, <1>3
<1>4. CASE Wrote(s, pipes[s], "closing") \/ Wrote(s, pipes[s], "destroying")
  BY <1>1, <1>4
<1> QED
  BY <1>2, <1>3, <1>4 DEF WriteReturns

LEMMA WriteResets ==
  ASSUME NEW s \in Streams,
         \/ WriteReturns(s)
         \/ \E in \in Blocking : WriteWaits(s, in)
         \/ \E next \in {"closing", "destroying"} : Close(s, next)
  PROVE  \E next \in ResetTo : Resets(s, next)
<1>1. CASE WriteReturns(s)
  <2>1. PICK fds, next : Wrote(s, fds, next) /\ next \in {"idle", "closing", "destroying"}
    BY <1>1, WriteEnds
  <2> QED
    BY <1>1, <2>1, WriteEnds DEF Wrote, Resets, ResetTo
<1>2. CASE \E in \in Blocking : WriteWaits(s, in)
  BY <1>2 DEF WriteWaits, Idle, Resets, ResetTo
<1>3. CASE \E next \in {"closing", "destroying"} : Close(s, next)
  BY <1>3 DEF Close, Idle, Resets, ResetTo
<1> QED
  BY <1>1, <1>2, <1>3

(* The processes and whose they are keep their shapes.                     *)
LEMMA ChildrenStep == Shape /\ OwnNumber /\ [Next]_vars => ChildrenOK' /\ PpidOK'
<1> SUFFICES ASSUME Shape, OwnNumber, [Next]_vars PROVE ChildrenOK' /\ PpidOK'
  OBVIOUS
<1>0. /\ ChildrenOK /\ PpidOK /\ CallsOK /\ {"zombie", "reaped"} \subseteq States
      /\ 0 \notin Children /\ \A n \in Children : n > 0
  BY DEF Shape, States, Children
<1>1. ASSUME NEW s \in Streams, NEW fds, wait(s, fds) \/ ExecFailed(s)
      PROVE  ChildrenOK' /\ PpidOK'
  <2>1. \/ UNCHANGED <<ppid, child>>
        \/ /\ ppid[s] \in Children /\ ppid' = [ppid EXCEPT ![s] = 0]
           /\ child' = [child EXCEPT ![ppid[s]].state = "reaped"]
    BY <1>0, <1>1 DEF wait, ExecFailed, Exited, is_open, PpidOK
  <2>2. CASE UNCHANGED <<ppid, child>>
    BY <1>0, <2>2 DEF ChildrenOK, PpidOK
  <2>3. CASE /\ ppid[s] \in Children /\ ppid' = [ppid EXCEPT ![s] = 0]
             /\ child' = [child EXCEPT ![ppid[s]].state = "reaped"]
    <3>1. PpidOK'
      BY <1>0, <2>3 DEF PpidOK
    <3>2. ChildrenOK'
      BY <1>0, <2>3, ChildGoes
    <3> QED
      BY <3>1, <3>2
  <2> QED
    BY <2>1, <2>2, <2>3
<1>2. ASSUME NEW n \in Children, Killed(n), UNCHANGED ppid PROVE ChildrenOK' /\ PpidOK'
  <2>1. ChildrenOK'
    BY <1>0, <1>2, ChildGoes DEF Killed
  <2> QED
    BY <1>0, <1>2, <2>1 DEF PpidOK
<1>3. ASSUME NEW s \in Streams, kill(s) \/ killpg(s) PROVE ChildrenOK' /\ PpidOK'
  <2>1. ppid[s] \in Children /\ UNCHANGED ppid
    BY <1>0, <1>3 DEF kill, killpg, is_open, PpidOK
  <2>2. Killed(ppid[s]) \/ UNCHANGED child
    BY <1>3 DEF kill, killpg
  <2> QED
    BY <1>0, <1>2, <2>1, <2>2 DEF ChildrenOK, PpidOK
<1>4. ASSUME NEW s \in Streams, Fork(s) PROVE ChildrenOK' /\ PpidOK'
  <2>1. call[s].n \in Children /\ UNCHANGED ppid
    BY <1>4 DEF Fork, At, OwnNumber, Starting, Before
  <2>2. child' = [child EXCEPT ![call[s].n] =
                    [@ EXCEPT !.state = "forked", !.newpg = "newpg" \in call[s].mode]]
    BY <1>4 DEF Fork
  <2>3. ("newpg" \in call[s].mode) \in BOOLEAN
    OBVIOUS
  <2>4. ChildrenOK'
    BY <1>0, <2>1, <2>2, <2>3, ChildForks
  <2> QED
    BY <1>0, <2>1, <2>4 DEF PpidOK
<1>5. ASSUME NEW s \in Streams, InParent(s) PROVE ChildrenOK' /\ PpidOK'
  <2>1. call[s].n \in Children
    BY <1>5 DEF InParent, At, OwnNumber, Starting, Before
  <2>2. ppid' = [ppid EXCEPT ![s] = call[s].n] /\ UNCHANGED child
    BY <1>5 DEF InParent
  <2> QED
    BY <1>0, <2>1, <2>2 DEF PpidOK, ChildrenOK
<1>6. ASSUME NEW n \in Children, Exec(n) PROVE ChildrenOK' /\ PpidOK'
  <2>1. ChildrenOK'
    BY <1>0, <1>6, ChildRuns DEF Exec
  <2> QED
    BY <1>0, <1>6, <2>1 DEF Exec, PpidOK
<1>7. ASSUME NEW n \in Children, ExecFails(n) \/ Exits(n) PROVE ChildrenOK' /\ PpidOK'
  <2>1. ASSUME NEW wrote \in BOOLEAN, Leaves(n, wrote) PROVE ChildrenOK' /\ PpidOK'
    <3>1. ChildrenOK'
      BY <1>0, <2>1, ChildLeaves DEF Leaves
    <3> QED
      BY <1>0, <2>1, <3>1 DEF Leaves, PpidOK
  <2>2. CASE ExecFails(n)
    <3>1. (<<n, "ck_exec", "WR">> \in files[n]) \in BOOLEAN
      OBVIOUS
    <3>2. Leaves(n, <<n, "ck_exec", "WR">> \in files[n])
      BY <2>2 DEF ExecFails
    <3> HIDE DEF Leaves
    <3> QED
      BY <2>1, <3>1, <3>2
  <2>3. CASE Exits(n)
    BY <2>1, <2>3 DEF Exits
  <2> QED
    BY <1>7, <2>2, <2>3
<1>8. ASSUME UNCHANGED <<ppid, child>> PROVE ChildrenOK' /\ PpidOK'
  BY <1>0, <1>8 DEF ChildrenOK, PpidOK
<1>9. ASSUME NEW s \in Streams, Using(s) PROVE ChildrenOK' /\ PpidOK'
  <2>1. CASE \E mode \in Modes, argv \in BOOLEAN : Open(s, mode, argv)
    BY <1>8, <2>1 DEF Open, Begin
  <2>2. CASE Reap(s) \/ peof(s) \/ \E next \in {"closing", "destroying"} : Close(s, next)
    BY <1>1, <2>2 DEF Reap, peof, Close
  <2>3. CASE CallFails(s) \/ showmanyc(s) \/ \E in \in Blocking : WriteWaits(s, in)
    BY <1>8, <2>3 DEF CallFails, showmanyc, WriteWaits
  <2> QED
    BY <1>3, <1>9, <2>1, <2>2, <2>3 DEF Using, Blocking
<1>10. ASSUME NEW s \in Streams, Opening(s) PROVE ChildrenOK' /\ PpidOK'
  <2>1. CASE Fork(s) \/ InParent(s) \/ ExecFailed(s)
    BY <1>1, <1>4, <1>5, <2>1
  <2>2. CASE ~(Fork(s) \/ InParent(s) \/ ExecFailed(s))
    BY <1>8, <1>10, <2>2
    DEF Opening, Proceeds, CkExecPipe, SetCloseOnExec, CkExecFails, Pipes, PipesFail, ForkFails,
        ExecSucceeded, ExecReported, OpenInterrupted, Fails
  <2> QED
    BY <2>1, <2>2
<1>11. ASSUME NEW s \in Streams, CloseWaits(s) PROVE ChildrenOK' /\ PpidOK'
  BY <1>1, <1>11 DEF CloseWaits
<1>12. ASSUME NEW s \in Streams, WriteReturns(s) PROVE ChildrenOK' /\ PpidOK'
  BY <1>8, <1>12 DEF WriteReturns, Wrote
<1>13. CASE UNCHANGED vars
  BY <1>8, <1>13 DEF vars
<1> QED
  BY <1>6, <1>7, <1>9, <1>10, <1>11, <1>12, <1>13 DEF Next

-----------------------------------------------------------------------------
(* Where a call goes from where it is.                                     *)
Moves(pc, next) ==
  \/ pc = "ck_exec" /\ next \in {"fcntl", "idle"}
  \/ pc = "fcntl" /\ next \in {"pipes", "idle"}
  \/ pc = "pipes" /\ next \in {"fork", "idle"}
  \/ pc = "fork" /\ next \in {"parent", "idle"}
  \/ pc = "parent" /\ next \in {"read", "idle"}
  \/ pc = "read" /\ next \in {"wait", "idle"}
  \/ pc = "wait" /\ next = "idle"
  \/ pc = "closing" /\ next = "idle"
  \/ pc = "destroying" /\ next = "gone"

GoesOn(s, next) ==
  /\ Moves(call[s].pc, next) /\ Goto(s, next) /\ opens' = opens
  /\ next = "read" => call[s].argv

LEMMA CallStep ==
  ASSUME [Next]_vars
  PROVE  \/ \E s \in Streams, mode \in Modes, argv \in BOOLEAN : Begin(s, mode, argv)
         \/ \E s \in Streams, next \in Pcs : GoesOn(s, next)
         \/ \E s \in Streams, next \in ResetTo : Resets(s, next)
         \/ UNCHANGED <<call, opens>>
<1>1. ASSUME NEW s \in Streams, Opening(s) PROVE \E next \in Pcs : GoesOn(s, next)
  <2>1. CASE CkExecPipe(s)
    <3>1. GoesOn(s, "fcntl") BY <2>1 DEF CkExecPipe, GoesOn, At, Moves
    <3> QED BY <3>1 DEF Pcs
  <2>2. CASE SetCloseOnExec(s)
    <3>1. GoesOn(s, "pipes") BY <2>2 DEF SetCloseOnExec, GoesOn, At, Moves
    <3> QED BY <3>1 DEF Pcs
  <2>3. CASE Pipes(s)
    <3>1. GoesOn(s, "fork") BY <2>3 DEF Pipes, GoesOn, At, Moves
    <3> QED BY <3>1 DEF Pcs
  <2>4. CASE Fork(s)
    <3>1. GoesOn(s, "parent") BY <2>4 DEF Fork, GoesOn, At, Moves
    <3> QED BY <3>1 DEF Pcs
  <2>5. CASE InParent(s)
    <3>1. GoesOn(s, IF call[s].argv THEN "read" ELSE "idle")
      BY <2>5 DEF InParent, GoesOn, At, Moves
    <3> QED BY <3>1 DEF Pcs
  <2>6. CASE ExecReported(s)
    <3>1. GoesOn(s, "wait") BY <2>6 DEF ExecReported, GoesOn, At, Moves
    <3> QED BY <3>1 DEF Pcs
  <2>7. CASE CkExecFails(s) \/ PipesFail(s) \/ ForkFails(s) \/ OpenInterrupted(s)
             \/ ExecSucceeded(s) \/ ExecFailed(s)
    <3>1. GoesOn(s, "idle")
      BY <2>7 DEF CkExecFails, PipesFail, ForkFails, OpenInterrupted, ExecSucceeded, ExecFailed,
                  Fails, GoesOn, At, Moves
    <3> QED BY <3>1 DEF Pcs
  <2> QED
    BY <1>1, <2>1, <2>2, <2>3, <2>4, <2>5, <2>6, <2>7 DEF Opening, Proceeds
<1>2. ASSUME NEW s \in Streams, CloseWaits(s) PROVE \E next \in Pcs : GoesOn(s, next)
  <2>1. GoesOn(s, IF At(s, "closing") THEN "idle" ELSE "gone")
    BY <1>2 DEF CloseWaits, Closing, GoesOn, At, Moves
  <2> QED
    BY <2>1 DEF Pcs
<1>3. ASSUME NEW s \in Streams, Using(s)
      PROVE  \/ \E mode \in Modes, argv \in BOOLEAN : Begin(s, mode, argv)
             \/ \E next \in ResetTo : Resets(s, next)
             \/ UNCHANGED <<call, opens>>
  <2>1. CASE \/ \E in \in Blocking : WriteWaits(s, in)
             \/ \E next \in {"closing", "destroying"} : Close(s, next)
    BY <2>1, WriteResets
  <2>2. CASE \E mode \in Modes, argv \in BOOLEAN : Open(s, mode, argv)
    BY <2>2 DEF Open
  <2>3. CASE Reap(s) \/ peof(s) \/ CallFails(s) \/ showmanyc(s) \/ kill(s) \/ killpg(s)
    BY <2>3 DEF Reap, peof, CallFails, showmanyc, kill, killpg
  <2> QED
    BY <1>3, <2>1, <2>2, <2>3 DEF Using, Blocking
<1>4. ASSUME NEW n \in Children, Exec(n) \/ ExecFails(n) \/ Exits(n)
      PROVE  UNCHANGED <<call, opens>>
  BY <1>4 DEF Exec, ExecFails, Exits, Leaves
<1>5. CASE UNCHANGED vars
  BY <1>5 DEF vars
<1> QED
  BY <1>1, <1>2, <1>3, <1>4, <1>5, WriteResets DEF Next

LEMMA CallsStep ==
  ASSUME Shape, OwnNumber, [Next]_vars
  PROVE  CallsOK' /\ OwnNumber'
<1>0. CallsOK /\ ResetTo \subseteq Pcs
  BY DEF Shape, Pcs, ResetTo, Blocking
<1>1. ASSUME NEW s \in Streams, NEW mode \in Modes, NEW argv \in BOOLEAN, Begin(s, mode, argv)
      PROVE  CallsOK' /\ OwnNumber'
  <2>1. /\ CallsOK'
        /\ call'[s].pc = (IF argv THEN "ck_exec" ELSE "pipes")
        /\ call'[s].n = opens + 1 /\ opens + 1 \in Children /\ opens' = opens + 1
        /\ call'[s].argv <=> argv
        /\ \A t \in Streams \ {s} : call'[t] = call[t]
    BY <1>0, <1>1, CallBegins
  <2>2. opens \in Nat /\ \A t \in Streams : call[t].n \in Nat
    BY <1>0 DEF CallsOK, CallRecord
  <2>3. \A t \in Streams : call'[t].n <= opens'
    BY <2>1, <2>2 DEF OwnNumber
  <2>4. \A t \in Streams : call'[t].pc \in Starting \cup After => call'[t].n \in Children
    BY <2>1 DEF OwnNumber
  <2>5. \A t \in Streams : call'[t].pc \in {"ck_exec", "fcntl"} \cup After => call'[t].argv
    BY <2>1 DEF OwnNumber, After
  <2>6. \A t, u \in Streams : t # u /\ call'[t].n # 0 => call'[t].n # call'[u].n
    BY <2>1, <2>2 DEF OwnNumber
  <2> QED
    BY <2>1, <2>3, <2>4, <2>5, <2>6 DEF OwnNumber
<1>2. ASSUME NEW s \in Streams, NEW next \in Pcs, GoesOn(s, next) PROVE CallsOK' /\ OwnNumber'
  <2>1. /\ call' \in [Streams -> CallRecord]
        /\ call'[s].pc = next /\ call'[s].n = call[s].n /\ call'[s].mode = call[s].mode
        /\ call'[s].argv <=> call[s].argv
        /\ \A t \in Streams \ {s} : call'[t] = call[t]
    BY <1>0, <1>2, CallGoes DEF GoesOn, Goto
  <2>2. opens' = opens
    BY <1>2 DEF GoesOn
  <2>3. \A t \in Streams : call'[t].n = call[t].n
    BY <2>1
  <2>4. \A t \in Streams : call'[t].pc \in Starting \cup After => call'[t].n \in Children
    BY <1>2, <2>1 DEF OwnNumber, GoesOn, Moves, Starting, Before, After
  <2>5. next \in {"ck_exec", "fcntl"} \cup After => call[s].argv
    <3>1. CASE next = "read"
      BY <1>2, <3>1 DEF GoesOn
    <3>2. CASE next # "read"
      BY <1>2, <3>2 DEF GoesOn, Moves, OwnNumber, After
    <3> QED
      BY <3>1, <3>2
  <2>6. \A t \in Streams : call'[t].pc \in {"ck_exec", "fcntl"} \cup After => call'[t].argv
    BY <2>1, <2>5 DEF OwnNumber
  <2>7. CallsOK'
    BY <1>0, <2>1, <2>2 DEF CallsOK
  <2> QED
    BY <2>2, <2>3, <2>4, <2>6, <2>7 DEF OwnNumber
<1>3. ASSUME NEW s \in Streams, NEW next \in ResetTo, Resets(s, next)
      PROVE  CallsOK' /\ OwnNumber'
  <2>1. /\ call' \in [Streams -> CallRecord]
        /\ call'[s].pc = next /\ call'[s].n = 0
        /\ \A t \in Streams \ {s} : call'[t] = call[t]
    BY <1>0, <1>3, CallCloses DEF Resets
  <2>2. opens' = opens /\ opens \in Nat
    BY <1>0, <1>3 DEF Resets, CallsOK
  <2>3. CallsOK'
    BY <1>0, <2>1, <2>2 DEF CallsOK
  <2>4. \A t \in Streams : call'[t].pc \in {"ck_exec", "fcntl"} \cup After => call'[t].argv
    BY <2>1 DEF OwnNumber, After, ResetTo, Blocking
  <2>5. /\ \A t \in Streams : call'[t].n <= opens'
        /\ \A t \in Streams : call'[t].pc \in Starting \cup After => call'[t].n \in Children
        /\ \A t, u \in Streams : t # u /\ call'[t].n # 0 => call'[t].n # call'[u].n
    BY <2>1, <2>2 DEF OwnNumber, Starting, Before, After, ResetTo, Blocking
  <2> QED
    BY <2>3, <2>4, <2>5 DEF OwnNumber
<1>4. CASE UNCHANGED <<call, opens>>
  BY <1>0, <1>4 DEF CallsOK, OwnNumber
<1> QED
  BY <1>1, <1>2, <1>3, <1>4, CallStep

-----------------------------------------------------------------------------
(* What a step does to the processes and the calls that know of them.      *)
Others(s) == \A t \in Streams \ {s} : call'[t] = call[t] /\ ppid'[t] = ppid[t]

(* The call goes on, and no process changes.                               *)
OnlyCall(s) ==
  /\ UNCHANGED <<ppid, child, opens>> /\ Others(s)
  /\ call[s].pc # "parent" /\ call'[s].pc # "parent"
  /\ call'[s].pc \in Before => call[s].pc \in Before /\ call'[s].n = call[s].n
  /\ call'[s].pc \in After => call[s].pc \in After /\ call'[s].n = call[s].n

(* waitpid finds the process of the stream exited.                         *)
Collects(s) ==
  /\ Exited(s) /\ Others(s) /\ opens' = opens
  /\ ppid'[s] = 0 /\ child'[ppid[s]].state = "reaped"
  /\ \A n \in Children \ {ppid[s]} : child'[n] = child[n]
  /\ call[s].pc \notin Starting /\ call'[s].pc \notin Starting \cup After

(* A process goes on or ends.                                              *)
OnlyChild(n) ==
  /\ UNCHANGED <<ppid, call, opens>>
  /\ child[n].state \in {"forked", "running"} /\ child'[n].state \in {"running", "zombie"}
  /\ \A m \in Children \ {n} : child'[m] = child[m]

LEMMA PidStep ==
  ASSUME Shape, OwnNumber, [Next]_vars
  PROVE  \/ \E s \in Streams, mode \in Modes, argv \in BOOLEAN : Open(s, mode, argv)
         \/ \E s \in Streams : OnlyCall(s) \/ Fork(s) \/ InParent(s) \/ Collects(s)
         \/ \E n \in Children : OnlyChild(n)
         \/ UNCHANGED <<call, ppid, child, opens>>
<1>0. /\ ChildrenOK /\ PpidOK /\ CallsOK /\ {"zombie", "reaped"} \subseteq States
      /\ 0 \notin Children /\ \A n \in Children : n > 0
      /\ {"idle", "closing", "destroying", "gone", "fcntl", "pipes", "fork", "wait"} \subseteq Pcs
      /\ ResetTo \subseteq Pcs
  BY DEF Shape, States, Children, Pcs, ResetTo, Blocking
<1>1. ASSUME NEW s \in Streams, NEW next \in Pcs, GoesOn(s, next)
      PROVE  /\ call'[s].pc = next /\ call'[s].n = call[s].n /\ opens' = opens
             /\ \A t \in Streams \ {s} : call'[t] = call[t]
             /\ Moves(call[s].pc, next)
  BY <1>0, <1>1, CallGoes DEF GoesOn, Goto
<1>2. ASSUME NEW s \in Streams, NEW fds, wait(s, fds) \/ ExecFailed(s)
      PROVE  \/ UNCHANGED <<ppid, child>> /\ ~Exited(s)
             \/ /\ Exited(s) /\ ppid'[s] = 0 /\ \A t \in Streams \ {s} : ppid'[t] = ppid[t]
                /\ child'[ppid[s]].state = "reaped"
                /\ \A n \in Children \ {ppid[s]} : child'[n] = child[n]
  <2>1. \/ UNCHANGED <<ppid, child>> /\ ~Exited(s)
        \/ /\ Exited(s) /\ ppid[s] \in Children /\ ppid' = [ppid EXCEPT ![s] = 0]
           /\ child' = [child EXCEPT ![ppid[s]].state = "reaped"]
    BY <1>0, <1>2 DEF wait, ExecFailed, Exited, is_open, PpidOK
  <2>2. CASE /\ Exited(s) /\ ppid[s] \in Children /\ ppid' = [ppid EXCEPT ![s] = 0]
             /\ child' = [child EXCEPT ![ppid[s]].state = "reaped"]
    <3>1. ppid'[s] = 0 /\ \A t \in Streams \ {s} : ppid'[t] = ppid[t]
      BY <1>0, <2>2 DEF PpidOK
    <3>2. child'[ppid[s]].state = "reaped" /\ \A n \in Children \ {ppid[s]} : child'[n] = child[n]
      BY <1>0, <2>2, ChildGoes
    <3> QED
      BY <2>2, <3>1, <3>2
  <2> QED
    BY <2>1, <2>2
<1>3. ASSUME NEW s \in Streams, NEW fds, wait(s, fds) \/ ExecFailed(s),
             opens' = opens, \A t \in Streams \ {s} : call'[t] = call[t],
             call[s].pc \notin Starting, call'[s].pc \notin Starting \cup After
      PROVE  OnlyCall(s) \/ Collects(s)
  BY <1>2, <1>3 DEF OnlyCall, Collects, Others, Starting
<1>4. ASSUME NEW s \in Streams, Reap(s) \/ peof(s) PROVE OnlyCall(s) \/ Collects(s)
  <2>1. UNCHANGED <<call, opens>> /\ call[s].pc = "idle" /\ (wait(s, {}) \/ wait(s, Writing))
    BY <1>4 DEF Reap, peof, Idle
  <2> QED
    BY <1>3, <2>1 DEF Starting, Before, After
<1>5. ASSUME NEW s \in Streams, NEW next \in {"closing", "destroying"}, Close(s, next)
      PROVE  OnlyCall(s) \/ Collects(s)
  <2>1. /\ call'[s].pc = next
        /\ \A t \in Streams \ {s} : call'[t] = call[t]
    BY <1>0, <1>5, CallCloses DEF Close
  <2>2. opens' = opens /\ call[s].pc = "idle" /\ wait(s, pipes[s])
    BY <1>5 DEF Close, Idle
  <2> QED
    BY <1>3, <2>1, <2>2 DEF Starting, Before, After
<1>6. ASSUME NEW s \in Streams, CloseWaits(s) PROVE OnlyCall(s) \/ Collects(s)
  <2>1. GoesOn(s, IF At(s, "closing") THEN "idle" ELSE "gone") /\ wait(s, {})
    BY <1>6 DEF CloseWaits, Closing, GoesOn, At, Moves
  <2>2. PICK next \in {"idle", "gone"} : GoesOn(s, next)
    BY <2>1
  <2>3. call[s].pc \in {"closing", "destroying"}
    BY <1>6 DEF CloseWaits, Closing, At
  <2> QED
    BY <1>0, <1>1, <1>3, <2>1, <2>2, <2>3 DEF Starting, Before, After
<1>7. ASSUME NEW s \in Streams, ExecFailed(s) PROVE OnlyCall(s) \/ Collects(s)
  <2>1. GoesOn(s, "idle") /\ call[s].pc = "wait"
    BY <1>7 DEF ExecFailed, GoesOn, At, Moves
  <2> QED
    BY <1>0, <1>1, <1>3, <1>7, <2>1 DEF Starting, Before, After
<1>8. ASSUME NEW s \in Streams, NEW next \in Pcs, GoesOn(s, next), UNCHANGED <<ppid, child>>,
             call[s].pc # "parent", next # "parent"
      PROVE  OnlyCall(s)
  BY <1>1, <1>8 DEF OnlyCall, Others, Moves, Before, After
<1>9. ASSUME NEW s \in Streams, Opening(s)
      PROVE  OnlyCall(s) \/ Fork(s) \/ InParent(s) \/ Collects(s)
  <2>1. CASE CkExecPipe(s)
    <3>1. GoesOn(s, "fcntl") /\ UNCHANGED <<ppid, child>> /\ call[s].pc # "parent"
      BY <2>1 DEF CkExecPipe, GoesOn, At, Moves
    <3> QED BY <1>0, <1>8, <3>1
  <2>2. CASE SetCloseOnExec(s)
    <3>1. GoesOn(s, "pipes") /\ UNCHANGED <<ppid, child>> /\ call[s].pc # "parent"
      BY <2>2 DEF SetCloseOnExec, GoesOn, At, Moves
    <3> QED BY <1>0, <1>8, <3>1
  <2>3. CASE Pipes(s)
    <3>1. GoesOn(s, "fork") /\ UNCHANGED <<ppid, child>> /\ call[s].pc # "parent"
      BY <2>3 DEF Pipes, GoesOn, At, Moves
    <3> QED BY <1>0, <1>8, <3>1
  <2>4. CASE ExecReported(s)
    <3>1. GoesOn(s, "wait") /\ UNCHANGED <<ppid, child>> /\ call[s].pc # "parent"
      BY <2>4 DEF ExecReported, GoesOn, At, Moves
    <3> QED BY <1>0, <1>8, <3>1
  <2>5. CASE CkExecFails(s) \/ PipesFail(s) \/ ForkFails(s) \/ OpenInterrupted(s)
             \/ ExecSucceeded(s)
    <3>1. GoesOn(s, "idle") /\ UNCHANGED <<ppid, child>> /\ call[s].pc # "parent"
      BY <2>5 DEF CkExecFails, PipesFail, ForkFails, OpenInterrupted, ExecSucceeded,
                  Fails, GoesOn, At, Moves
    <3> QED BY <1>0, <1>8, <3>1
  <2> QED
    BY <1>7, <1>9, <2>1, <2>2, <2>3, <2>4, <2>5 DEF Opening, Proceeds
<1>10. ASSUME NEW n \in Children, Killed(n), UNCHANGED <<ppid, call, opens>> PROVE OnlyChild(n)
  BY <1>0, <1>10, ChildGoes DEF OnlyChild, Killed
<1>11. ASSUME NEW s \in Streams, kill(s) \/ killpg(s)
       PROVE  \/ \E n \in Children : OnlyChild(n)
              \/ UNCHANGED <<call, ppid, child, opens>>
  <2>1. ppid[s] \in Children /\ UNCHANGED <<ppid, call, opens>>
    BY <1>0, <1>11 DEF kill, killpg, is_open, PpidOK
  <2>2. Killed(ppid[s]) \/ UNCHANGED child
    BY <1>11 DEF kill, killpg
  <2> QED
    BY <1>10, <2>1, <2>2
<1>12. ASSUME NEW n \in Children, NEW wrote \in BOOLEAN, Leaves(n, wrote),
              child[n].state \in {"forked", "running"}
       PROVE  OnlyChild(n)
  BY <1>0, <1>12, ChildLeaves DEF OnlyChild, Leaves
<1>13. ASSUME NEW n \in Children, Exec(n) \/ ExecFails(n) \/ Exits(n) PROVE OnlyChild(n)
  <2>1. CASE Exec(n)
    BY <1>0, <2>1, ChildRuns DEF Exec, OnlyChild
  <2>2. CASE ExecFails(n)
    <3> DEFINE b == <<n, "ck_exec", "WR">> \in files[n]
    <3>1. b \in BOOLEAN
      OBVIOUS
    <3>2. Leaves(n, b) /\ child[n].state = "forked"
      BY <2>2 DEF ExecFails
    <3> HIDE DEF b
    <3> QED
      BY <1>12, <3>1, <3>2
  <2>3. CASE Exits(n)
    BY <1>12, <2>3 DEF Exits
  <2> QED
    BY <1>13, <2>1, <2>2, <2>3
<1>14. ASSUME NEW s \in Streams, NEW next \in ResetTo, Resets(s, next), UNCHANGED <<ppid, child>>
       PROVE  OnlyCall(s)
  <2>1. /\ call'[s].pc = next
        /\ \A t \in Streams \ {s} : call'[t] = call[t]
    BY <1>0, <1>14, CallCloses DEF Resets
  <2>2. call[s].pc # "parent" /\ next \notin Starting \cup After
    BY <1>14 DEF Resets, ResetTo, Blocking, Starting, Before, After
  <2> QED
    BY <1>14, <2>1, <2>2 DEF OnlyCall, Others, Resets, Starting
<1>15. ASSUME NEW s \in Streams, Using(s)
       PROVE  \/ \E mode \in Modes, argv \in BOOLEAN : Open(s, mode, argv)
              \/ OnlyCall(s) \/ Collects(s)
              \/ \E n \in Children : OnlyChild(n)
              \/ UNCHANGED <<call, ppid, child, opens>>
  <2>1. CASE CallFails(s) \/ showmanyc(s)
    BY <2>1 DEF CallFails, showmanyc
  <2>2. CASE \E in \in Blocking : WriteWaits(s, in)
    <3>1. UNCHANGED <<ppid, child>>
      BY <2>2 DEF WriteWaits
    <3> QED
      BY <1>14, <2>2, <3>1, WriteResets
  <2> QED
    BY <1>4, <1>5, <1>11, <1>15, <2>1, <2>2 DEF Using, Blocking
<1>16. ASSUME NEW s \in Streams, WriteReturns(s) PROVE OnlyCall(s)
  <2>1. UNCHANGED <<ppid, child>>
    BY <1>16 DEF WriteReturns, Wrote
  <2> QED
    BY <1>14, <1>16, <2>1, WriteResets
<1>17. CASE UNCHANGED vars
  BY <1>17 DEF vars
<1> QED
  BY <1>6, <1>9, <1>13, <1>15, <1>16, <1>17 DEF Next

(* Processes belong to their streams through every step.                   *)
Alive == {"forked", "running", "zombie"}

LEMMA OwnedStep ==
  ASSUME Shape, OwnNumber, Stage, Owned, [Next]_vars
  PROVE  Stage' /\ Owned'
<1>0. /\ ChildrenOK /\ PpidOK /\ CallsOK /\ {"parent"} \subseteq Pcs
      /\ 0 \notin Children /\ \A n \in Children : n \in Nat /\ n > 0
      /\ \A s \in Streams : ppid[s] \in Int /\ call[s].n \in Nat
      /\ opens \in Nat
  BY DEF Shape, Children, Pcs, PpidOK, CallsOK, CallRecord
<1>1. ASSUME NEW s \in Streams, NEW mode \in Modes, NEW argv \in BOOLEAN, Open(s, mode, argv)
      PROVE  Stage' /\ Owned'
  <2>1. /\ call'[s].pc = (IF argv THEN "ck_exec" ELSE "pipes")
        /\ call'[s].n = opens + 1 /\ opens + 1 \in Children /\ opens' = opens + 1
        /\ \A t \in Streams \ {s} : call'[t] = call[t]
    BY <1>0, <1>1, CallBegins DEF Open
  <2>2. UNCHANGED <<ppid, child>> /\ ppid[s] <= 0 /\ call[s].pc = "idle"
    BY <1>0, <1>1 DEF Open, Begin, is_open, Idle
  <2>3. child[opens + 1].state = "none"
    BY <1>0, <2>1 DEF Stage
  <2>4. \A n \in Children : n > opens + 1 => child[n].state = "none"
    BY <1>0 DEF Stage
  <2>5. Stage'
    BY <2>1, <2>2, <2>3, <2>4 DEF Stage, Starting, Before, After
  <2>6. \A n \in Children, t \in Streams : Owns(t, n)' <=> Owns(t, n)
    BY <2>1, <2>2 DEF Owns, At
  <2> QED
    BY <2>2, <2>5, <2>6 DEF Owned
<1>2. ASSUME NEW s \in Streams, OnlyCall(s) PROVE Stage' /\ Owned'
  <2>1. Stage'
    BY <1>2 DEF OnlyCall, Others, Stage, Starting, Before, After
  <2>2. \A n \in Children, t \in Streams : Owns(t, n)' <=> Owns(t, n)
    BY <1>2 DEF Owns, At, OnlyCall, Others
  <2> QED
    BY <1>2, <2>1, <2>2 DEF Owned, OnlyCall
<1>3. ASSUME NEW s \in Streams, Fork(s) PROVE Stage' /\ Owned'
  <2> DEFINE n == call[s].n
  <2>1. /\ call'[s].pc = "parent" /\ call'[s].n = n
        /\ \A t \in Streams \ {s} : call'[t] = call[t]
    BY <1>0, <1>3, CallGoes DEF Fork, Goto
  <2>2. /\ call[s].pc = "fork" /\ UNCHANGED <<ppid, opens>>
        /\ n \in Children /\ child[n].state = "none" /\ ppid[s] <= 0 /\ n <= opens
    BY <1>3 DEF Fork, At, Stage, OwnNumber, Starting, Before
  <2>3. child' = [child EXCEPT ![n] = [@ EXCEPT !.state = "forked",
                                                !.newpg = "newpg" \in call[s].mode]]
    BY <1>3 DEF Fork
  <2>4. ("newpg" \in call[s].mode) \in BOOLEAN
    OBVIOUS
  <2> HIDE DEF n
  <2>5. child'[n].state = "forked" /\ \A m \in Children \ {n} : child'[m] = child[m]
    BY <1>0, <2>2, <2>3, <2>4, ChildForks
  <2>6. \A t \in Streams \ {s} : call[t].n # n
    BY <1>0, <2>2 DEF n, OwnNumber
  <2>7. Stage'
    <3>1. \A t \in Streams : call'[t].pc \in Before => child'[call'[t].n].state = "none"
      <4> SUFFICES ASSUME NEW t \in Streams, call'[t].pc \in Before
                   PROVE  child'[call'[t].n].state = "none"
        OBVIOUS
      <4>1. t # s /\ call'[t] = call[t]
        BY <2>1 DEF Before
      <4>2. call[t].n \in Children /\ child[call[t].n].state = "none"
        BY <4>1 DEF Stage, OwnNumber, Starting
      <4> QED
        BY <2>5, <2>6, <4>1, <4>2
    <3>2. \A t \in Streams :
            /\ call'[t].pc \in Starting => ppid'[t] <= 0
            /\ call'[t].pc \in After => ppid'[t] = call'[t].n
      BY <2>1, <2>2 DEF Stage, Starting, After
    <3>3. \A m \in Children : m > opens' => child'[m].state = "none"
      BY <1>0, <2>2, <2>5 DEF Stage
    <3> QED
      BY <3>1, <3>2, <3>3 DEF Stage
  <2>8. \A t \in Streams, m \in Children : Owns(t, m)' <=> Owns(t, m) \/ (t = s /\ m = n)
    BY <1>0, <2>1, <2>2 DEF Owns, At
  <2>9. \A t \in Streams : ~Owns(t, n)
    BY <2>2 DEF Owned, Alive
  <2>10. \A m \in Children : Owns(s, m)' => m = n
    BY <1>0, <2>1, <2>2 DEF Owns
  <2>11. \A m \in Children : child'[m].state \in Alive => \E t \in Streams : Owns(t, m)'
    <3> SUFFICES ASSUME NEW m \in Children, child'[m].state \in Alive
                 PROVE  \E t \in Streams : Owns(t, m)'
      OBVIOUS
    <3>1. CASE m = n
      BY <2>2, <2>8, <3>1
    <3>2. CASE m # n
      BY <2>5, <2>8, <3>2 DEF Owned, Alive
    <3> QED
      BY <3>1, <3>2
  <2>12. \A m \in Children, t \in Streams : Owns(t, m)' => child'[m].state \in Alive
    BY <2>5, <2>8, <2>9 DEF Owned, Alive
  <2>13. \A m \in Children, t, u \in Streams : Owns(t, m)' /\ Owns(u, m)' => t = u
    BY <2>8, <2>9, <2>10 DEF Owned
  <2> QED
    BY <2>7, <2>11, <2>12, <2>13 DEF Owned, Alive
<1>4. ASSUME NEW s \in Streams, InParent(s) PROVE Stage' /\ Owned'
  <2>1. /\ call[s].pc = "parent" /\ UNCHANGED <<opens, child>>
        /\ ppid' = [ppid EXCEPT ![s] = call[s].n] /\ ppid[s] <= 0 /\ call[s].n \in Children
    BY <1>4 DEF InParent, At, Stage, OwnNumber, Starting
  <2>2. PICK next \in {"read", "idle"} : call' = [call EXCEPT ![s].pc = next]
    BY <1>4 DEF InParent, Goto
  <2>3. /\ call'[s].pc = next /\ call'[s].n = call[s].n
        /\ \A t \in Streams \ {s} : call'[t] = call[t]
    BY <1>0, <2>2, CallGoes DEF Pcs
  <2>4. ppid'[s] = call[s].n /\ \A t \in Streams \ {s} : ppid'[t] = ppid[t]
    BY <1>0, <2>1 DEF PpidOK
  <2>5. Stage'
    BY <2>1, <2>3, <2>4 DEF Stage, Starting, Before, After
  <2>6. \A t \in Streams, m \in Children : Owns(t, m)' <=> Owns(t, m)
    BY <1>0, <2>1, <2>3, <2>4 DEF Owns, At
  <2> QED
    BY <2>1, <2>5, <2>6 DEF Owned
<1>5. ASSUME NEW s \in Streams, Collects(s) PROVE Stage' /\ Owned'
  <2> DEFINE n == ppid[s]
  <2>1. /\ n \in Children /\ child[n].state = "zombie" /\ child'[n].state = "reaped"
        /\ \A m \in Children \ {n} : child'[m] = child[m]
        /\ ppid'[s] = 0 /\ opens' = opens
        /\ \A t \in Streams \ {s} : call'[t] = call[t] /\ ppid'[t] = ppid[t]
        /\ call[s].pc \notin Starting /\ call'[s].pc \notin Starting \cup After
    BY <1>0, <1>5 DEF Collects, Others, Exited, is_open, PpidOK
  <2> HIDE DEF n
  <2>2. Owns(s, n) /\ \A m \in Children : Owns(s, m) => m = n
    BY <2>1 DEF Owns, At, Starting, n
  <2>3. \A m \in Children : ~Owns(s, m)'
    BY <1>0, <2>1 DEF Owns, At, Starting
  <2>4. \A t \in Streams \ {s}, m \in Children : Owns(t, m)' <=> Owns(t, m)
    BY <2>1 DEF Owns, At
  <2>5. \A t \in Streams \ {s} : ~Owns(t, n)
    BY <2>1, <2>2 DEF Owned
  <2>6. Stage'
    <3>1. \A t \in Streams : call'[t].pc \in Before => child'[call'[t].n].state = "none"
      <4> SUFFICES ASSUME NEW t \in Streams, call'[t].pc \in Before
                   PROVE  child'[call'[t].n].state = "none"
        OBVIOUS
      <4>1. t # s /\ call'[t] = call[t]
        BY <2>1 DEF Starting
      <4>2. call[t].n \in Children /\ child[call[t].n].state = "none"
        BY <4>1 DEF Stage, OwnNumber, Starting
      <4> QED
        BY <2>1, <4>1, <4>2
    <3>2. \A t \in Streams :
            /\ call'[t].pc \in Starting => ppid'[t] <= 0
            /\ call'[t].pc \in After => ppid'[t] = call'[t].n
      BY <2>1 DEF Stage
    <3>3. \A m \in Children : m > opens' => child'[m].state = "none"
      BY <1>0, <2>1 DEF Stage
    <3> QED
      BY <3>1, <3>2, <3>3 DEF Stage
  <2>7. \A m \in Children : child'[m].state \in Alive => \E t \in Streams : Owns(t, m)'
    <3> SUFFICES ASSUME NEW m \in Children, child'[m].state \in Alive
                 PROVE  \E t \in Streams : Owns(t, m)'
      OBVIOUS
    <3>1. m # n /\ child[m].state \in Alive
      BY <2>1 DEF Alive
    <3>2. PICK t \in Streams : Owns(t, m)
      BY <3>1 DEF Owned, Alive
    <3> QED
      BY <2>2, <2>4, <3>1, <3>2
  <2>8. \A m \in Children, t \in Streams : Owns(t, m)' => child'[m].state \in Alive
    BY <2>1, <2>3, <2>4, <2>5 DEF Owned, Alive
  <2>9. \A m \in Children, t, u \in Streams : Owns(t, m)' /\ Owns(u, m)' => t = u
    BY <2>3, <2>4 DEF Owned
  <2> QED
    BY <2>6, <2>7, <2>8, <2>9 DEF Owned, Alive
<1>6. ASSUME NEW n \in Children, OnlyChild(n) PROVE Stage' /\ Owned'
  <2>1. \A t \in Streams, m \in Children : Owns(t, m)' <=> Owns(t, m)
    BY <1>6 DEF OnlyChild, Owns, At
  <2>2. \A m \in Children : child'[m].state \in Alive <=> child[m].state \in Alive
    BY <1>6 DEF OnlyChild, Alive
  <2>3. \A m \in Children : child[m].state = "none" => child'[m].state = "none"
    BY <1>6 DEF OnlyChild
  <2>4. Stage'
    <3>1. \A t \in Streams : call'[t].pc \in Before => child'[call'[t].n].state = "none"
      BY <1>6, <2>3 DEF OnlyChild, Stage, OwnNumber, Starting
    <3> QED
      BY <1>6, <2>3, <3>1 DEF OnlyChild, Stage
  <2> QED
    BY <2>1, <2>2, <2>4 DEF Owned, Alive
<1>7. CASE UNCHANGED <<call, ppid, child, opens>>
  BY <1>7 DEF Stage, Owned, Owns, At
<1> QED
  BY <1>1, <1>2, <1>3, <1>4, <1>5, <1>6, <1>7, PidStep

-----------------------------------------------------------------------------
(* Pipes are only closed, except where open keeps those of a new process.  *)
LEMMA PipesStep ==
  ASSUME Shape, [Next]_vars
  PROVE  /\ pipes' \in [Streams -> SUBSET AnyEnd] \/ \E s \in Streams : InParent(s)
         /\ \/ /\ \A s \in Streams : pipes'[s] \subseteq pipes[s]
               /\ \/ leaky' = leaky
                  \/ \E s \in Streams, mode \in Modes, argv \in BOOLEAN : Open(s, mode, argv)
            \/ \E s \in Streams : InParent(s)
<1>0. pipes \in [Streams -> SUBSET AnyEnd]
  BY DEF Shape, PipesOK
<1> DEFINE Shrinks == /\ pipes' \in [Streams -> SUBSET AnyEnd]
                      /\ \A s \in Streams : pipes'[s] \subseteq pipes[s]
<1>1. ASSUME NEW s \in Streams, NEW fds, pipes' = [pipes EXCEPT ![s] = @ \ fds] PROVE Shrinks
  BY <1>0, <1>1
<1>2. ASSUME NEW s \in Streams, NEW fds, wait(s, fds) PROVE Shrinks
  BY <1>1, <1>2 DEF wait, ClosePipes
<1>3. ASSUME pipes' = pipes PROVE Shrinks
  BY <1>0, <1>3
<1> HIDE DEF Shrinks
<1>4. ASSUME NEW s \in Streams, Opening(s) PROVE (Shrinks /\ leaky' = leaky) \/ InParent(s)
  <2>1. CASE ExecFailed(s)
    BY <1>1, <2>1 DEF ExecFailed
  <2>2. CASE ~InParent(s) /\ ~ExecFailed(s)
    <3>1. pipes' = pipes /\ leaky' = leaky
      BY <1>4, <2>2
      DEF Opening, Proceeds, CkExecPipe, SetCloseOnExec, CkExecFails, Pipes, PipesFail, Fork, ForkFails,
          ExecSucceeded, ExecReported, OpenInterrupted, Fails
    <3> QED BY <1>3, <3>1
  <2> QED
    BY <2>1, <2>2
<1>5. ASSUME NEW s \in Streams, Using(s)
      PROVE  /\ Shrinks
             /\ \/ leaky' = leaky
                \/ \E mode \in Modes, argv \in BOOLEAN : Open(s, mode, argv)
  <2>1. CASE \E mode \in Modes, argv \in BOOLEAN : Open(s, mode, argv)
    BY <1>3, <2>1 DEF Open, Begin
  <2>2. CASE Reap(s) \/ peof(s) \/ \E next \in {"closing", "destroying"} : Close(s, next)
    BY <1>2, <2>2 DEF Reap, peof, Close
  <2>3. CASE CallFails(s) \/ showmanyc(s) \/ kill(s) \/ killpg(s)
             \/ \E in \in Blocking : WriteWaits(s, in)
    BY <1>3, <2>3 DEF CallFails, showmanyc, kill, killpg, WriteWaits
  <2> QED
    BY <1>5, <2>1, <2>2, <2>3 DEF Using, Blocking
<1>6. ASSUME NEW s \in Streams, CloseWaits(s) \/ WriteReturns(s) PROVE Shrinks /\ leaky' = leaky
  <2>1. CASE CloseWaits(s)
    BY <1>2, <2>1 DEF CloseWaits
  <2>2. CASE WriteReturns(s)
    BY <1>1, <2>2 DEF WriteReturns, Wrote, ClosePipes
  <2> QED
    BY <1>6, <2>1, <2>2
<1>7. ASSUME NEW n \in Children, Exec(n) \/ ExecFails(n) \/ Exits(n)
      PROVE  Shrinks /\ leaky' = leaky
  BY <1>3, <1>7 DEF Exec, ExecFails, Exits, Leaves
<1>8. ASSUME UNCHANGED vars PROVE Shrinks /\ leaky' = leaky
  BY <1>3, <1>8 DEF vars
<1>9. \/ /\ Shrinks
         /\ \/ leaky' = leaky
            \/ \E s \in Streams, mode \in Modes, argv \in BOOLEAN : Open(s, mode, argv)
      \/ \E s \in Streams : InParent(s)
  BY <1>4, <1>5, <1>6, <1>7, <1>8 DEF Next
<1> QED
  BY <1>9 DEF Shrinks

(* The calls that still start a process go on with the number they have.   *)
LEMMA StartingStep ==
  ASSUME Shape, OwnNumber, [Next]_vars
  PROVE  \/ \E s \in Streams, mode \in Modes, argv \in BOOLEAN : Open(s, mode, argv)
         \/ /\ opens' = opens
            /\ \A t \in Streams : call'[t].pc \in Starting =>
                 call[t].pc \in Starting /\ call'[t].n = call[t].n
<1>0. CallsOK /\ {"parent", "read", "idle"} \subseteq Pcs
  BY DEF Shape, Pcs
<1>1. ASSUME NEW s \in Streams, Fork(s)
      PROVE  /\ opens' = opens
             /\ \A t \in Streams : call'[t].pc \in Starting =>
                  call[t].pc \in Starting /\ call'[t].n = call[t].n
  <2>1. /\ call'[s].pc = "parent" /\ call'[s].n = call[s].n /\ call[s].pc = "fork"
        /\ \A t \in Streams \ {s} : call'[t] = call[t]
        /\ opens' = opens
    BY <1>0, <1>1, CallGoes DEF Fork, Goto, At
  <2> QED
    BY <2>1 DEF Starting, Before
<1>2. ASSUME NEW s \in Streams, InParent(s)
      PROVE  /\ opens' = opens
             /\ \A t \in Streams : call'[t].pc \in Starting =>
                  call[t].pc \in Starting /\ call'[t].n = call[t].n
  <2>1. PICK next \in {"read", "idle"} : call' = [call EXCEPT ![s].pc = next]
    BY <1>2 DEF InParent, Goto
  <2>2. /\ call'[s].pc = next
        /\ \A t \in Streams \ {s} : call'[t] = call[t]
        /\ opens' = opens
    BY <1>0, <1>2, <2>1, CallGoes DEF InParent
  <2> QED
    BY <2>2 DEF Starting, Before
<1>3. ASSUME NEW s \in Streams, OnlyCall(s) \/ Collects(s)
      PROVE  /\ opens' = opens
             /\ \A t \in Streams : call'[t].pc \in Starting =>
                  call[t].pc \in Starting /\ call'[t].n = call[t].n
  BY <1>3 DEF OnlyCall, Collects, Others, Starting
<1>4. ASSUME NEW n \in Children, OnlyChild(n) PROVE UNCHANGED <<call, opens>>
  BY <1>4 DEF OnlyChild
<1> QED
  BY <1>1, <1>2, <1>3, <1>4, PidStep

LEMMA OwnPipesStep ==
  ASSUME Shape, OwnNumber, OwnPipes, [Next]_vars
  PROVE  PipesOK' /\ OwnPipes' /\ SetsOK'
<1>0. /\ pipes \in [Streams -> SUBSET AnyEnd] /\ CallsOK
      /\ opens \in Nat /\ \A s \in Streams : call[s].n \in Nat
      /\ \A s \in Streams : \A e \in pipes[s] : e[1] \in Nat
      /\ 0 \notin Children
  <2>1. /\ pipes \in [Streams -> SUBSET AnyEnd] /\ CallsOK
        /\ opens \in Nat /\ \A s \in Streams : call[s].n \in Nat
        /\ 0 \notin Children /\ Children \subseteq Nat
    BY DEF Shape, PipesOK, CallsOK, CallRecord, Children
  <2>2. \A e \in AnyEnd : e[1] \in Children
    BY DEF AnyEnd
  <2> QED
    BY <2>1, <2>2
<1>1. SetsOK'
  <2>1. error' \subseteq Streams
    <3>1. ASSUME NEW s \in Streams, Using(s) \/ Opening(s) \/ WriteReturns(s) \/ CloseWaits(s)
          PROVE  error' \subseteq error \cup {s}
      BY <3>1
      DEF Using, Opening, Proceeds, CloseWaits, WriteWaits, WriteReturns, Wrote, Open, Begin, Reap,
          peof, CallFails, showmanyc, kill, killpg, Close, CkExecPipe, SetCloseOnExec, CkExecFails, Pipes, PipesFail, Fork, ForkFails,
          InParent, ExecSucceeded, ExecReported, ExecFailed, OpenInterrupted, Fails
    <3>2. ASSUME NEW n \in Children, Exec(n) \/ ExecFails(n) \/ Exits(n) PROVE error' = error
      BY <3>2 DEF Exec, ExecFails, Exits, Leaves
    <3>3. CASE UNCHANGED vars
      BY <3>3 DEF vars, Shape, SetsOK
    <3> QED
      BY <3>1, <3>2, <3>3 DEF Next, Shape, SetsOK
  <2>2. leaky' \subseteq Streams
    <3>1. ASSUME NEW s \in Streams, InParent(s) PROVE leaky' = leaky
      BY <3>1 DEF InParent
    <3>2. ASSUME NEW s \in Streams, NEW mode, NEW argv, Open(s, mode, argv)
          PROVE  leaky' \subseteq leaky \cup {s}
      BY <3>2 DEF Open, Begin
    <3> QED
      BY <3>1, <3>2, PipesStep DEF Shape, SetsOK
  <2> QED
    BY <2>1, <2>2 DEF SetsOK
<1>2. CASE \E s \in Streams : InParent(s)
  <2>1. PICK s \in Streams : InParent(s)
    BY <1>2
  <2> DEFINE n == call[s].n
             kept == {e \in pipes[s] : e[2] \notin call[s].mode}
             new == {e \in ParentSide(n) : e[2] \in call[s].mode}
  <2>2. /\ pipes' = [pipes EXCEPT ![s] = kept \cup new]
        /\ call[s].pc = "parent" /\ n \in Children /\ n <= opens /\ leaky' = leaky
    BY <2>1 DEF InParent, At, OwnNumber, Starting
  <2>3. call[s].pc \in Starting
    BY <2>2 DEF Starting
  <2>4. new \subseteq AnyEnd /\ \A e \in new : e[1] = n /\ e \in ParentSide(e[1])
    BY <2>2, EndsOK
  <2>5. kept \subseteq pipes[s]
    OBVIOUS
  <2>6. \A t \in Streams \ {s} : call[t].n # n
    BY <1>0, <2>2 DEF OwnNumber
  <2> HIDE DEF n, kept, new
  <2>7. pipes' \in [Streams -> SUBSET AnyEnd]
    BY <1>0, <2>2, <2>4, <2>5
  <2>8. pipes'[s] = kept \cup new /\ \A t \in Streams \ {s} : pipes'[t] = pipes[t]
    BY <1>0, <2>2
  <2>9. opens' = opens
    BY <2>1 DEF InParent
  <2>10. \A t \in Streams : call'[t].pc \in Starting =>
           t # s /\ call[t].pc \in Starting /\ call'[t].n = call[t].n
    <3>1. PICK next \in {"read", "idle"} : call' = [call EXCEPT ![s].pc = next]
      BY <2>1 DEF InParent, Goto
    <3>2. /\ call'[s].pc = next
          /\ \A t \in Streams \ {s} : call'[t] = call[t]
      BY <1>0, <3>1, CallGoes DEF Pcs
    <3> QED
      BY <3>2 DEF Starting, Before
  <2>11. PipesOK'
    <3>1. \A t \in Streams : \A e \in pipes'[t] : e \in ParentSide(e[1])
      BY <2>4, <2>5, <2>8 DEF Shape, PipesOK
    <3> QED
      BY <2>7, <3>1 DEF PipesOK
  <2>12. \A t \in Streams : \A e \in pipes[t] : e[1] # n
    BY <2>3 DEF OwnPipes, n
  <2>13. \A t, u \in Streams : t # u => pipes'[t] \cap pipes'[u] = {}
    BY <2>4, <2>5, <2>8, <2>12 DEF OwnPipes
  <2>14. \A t \in Streams : \A e \in pipes'[t] : e[1] <= opens'
    BY <2>2, <2>4, <2>5, <2>8, <2>9 DEF OwnPipes
  <2>15. \A t, u \in Streams : call'[u].pc \in Starting => \A e \in pipes'[t] : e[1] # call'[u].n
    BY <2>4, <2>5, <2>6, <2>8, <2>10 DEF OwnPipes
  <2>16. \A t \in Streams : call'[t].pc \in Starting /\ pipes'[t] # {} => t \in leaky'
    BY <2>2, <2>8, <2>10 DEF OwnPipes
  <2> QED
    BY <1>1, <2>11, <2>13, <2>14, <2>15, <2>16 DEF OwnPipes
<1>3. ASSUME pipes' \in [Streams -> SUBSET AnyEnd],
             \A s \in Streams : pipes'[s] \subseteq pipes[s]
      PROVE  /\ PipesOK'
             /\ \A s, t \in Streams : s # t => pipes'[s] \cap pipes'[t] = {}
  BY <1>3 DEF Shape, PipesOK, OwnPipes
<1>4. ASSUME pipes' \in [Streams -> SUBSET AnyEnd],
             \A s \in Streams : pipes'[s] \subseteq pipes[s], leaky' = leaky, opens' = opens,
             \A t \in Streams : call'[t].pc \in Starting =>
               call[t].pc \in Starting /\ call'[t].n = call[t].n
      PROVE  PipesOK' /\ OwnPipes' /\ SetsOK'
  <2>1. \A s \in Streams : \A e \in pipes'[s] : e[1] <= opens'
    BY <1>4 DEF OwnPipes
  <2>2. \A t, u \in Streams : call'[u].pc \in Starting => \A e \in pipes'[t] : e[1] # call'[u].n
    BY <1>4 DEF OwnPipes
  <2>3. \A t \in Streams : call'[t].pc \in Starting /\ pipes'[t] # {} => t \in leaky'
    BY <1>4 DEF OwnPipes
  <2> QED
    BY <1>1, <1>3, <1>4, <2>1, <2>2, <2>3 DEF OwnPipes
<1>5. ASSUME NEW s \in Streams, NEW mode \in Modes, NEW argv \in BOOLEAN, Open(s, mode, argv)
      PROVE  PipesOK' /\ OwnPipes' /\ SetsOK'
  <2>1. /\ call'[s].pc = (IF argv THEN "ck_exec" ELSE "pipes")
        /\ call'[s].n = opens + 1 /\ opens + 1 \in Children /\ opens' = opens + 1
        /\ \A t \in Streams \ {s} : call'[t] = call[t]
    BY <1>0, <1>5, CallBegins DEF Open
  <2>2. pipes' = pipes /\ leaky' = IF pipes[s] = {} THEN leaky ELSE leaky \cup {s}
    BY <1>5 DEF Open, Begin
  <2>3. \A t \in Streams : \A e \in pipes'[t] : e[1] <= opens'
    BY <1>0, <2>1, <2>2 DEF OwnPipes
  <2>4. \A t, u \in Streams : call'[u].pc \in Starting => \A e \in pipes'[t] : e[1] # call'[u].n
    <3>1. \A t \in Streams : \A e \in pipes'[t] : e[1] # opens + 1
      BY <1>0, <2>2 DEF OwnPipes
    <3> QED
      BY <2>1, <2>2, <3>1 DEF OwnPipes
  <2>5. \A t \in Streams : call'[t].pc \in Starting /\ pipes'[t] # {} => t \in leaky'
    BY <2>1, <2>2 DEF OwnPipes
  <2> QED
    BY <1>0, <1>1, <1>3, <2>2, <2>3, <2>4, <2>5 DEF OwnPipes
<1>6. CASE \E s \in Streams, mode \in Modes, argv \in BOOLEAN : Open(s, mode, argv)
  BY <1>5, <1>6
<1> DEFINE parent == \E s \in Streams : InParent(s)
           opened == \E s \in Streams, mode \in Modes, argv \in BOOLEAN : Open(s, mode, argv)
           shrunk == \A s \in Streams : pipes'[s] \subseteq pipes[s]
           started == \A t \in Streams : call'[t].pc \in Starting =>
                        call[t].pc \in Starting /\ call'[t].n = call[t].n
<1>7. /\ pipes' \in [Streams -> SUBSET AnyEnd] \/ parent
      /\ (shrunk /\ (leaky' = leaky \/ opened)) \/ parent
  BY PipesStep
<1>8. opened \/ (opens' = opens /\ started)
  BY StartingStep
<1>9. parent \/ opened \/ (/\ pipes' \in [Streams -> SUBSET AnyEnd] /\ shrunk
                           /\ leaky' = leaky /\ opens' = opens /\ started)
  <2> HIDE DEF parent, opened, shrunk, started
  <2> QED BY <1>7, <1>8
<1> QED
  BY <1>2, <1>4, <1>6, <1>9

-----------------------------------------------------------------------------
(* The descriptors of the processes and their flags.                       *)
LEMMA FlagsStep ==
  ASSUME Shape, OwnNumber, FlagsOK, DescriptorsKept, [Next]_vars
  PROVE  FilesOK' /\ FlagsOK'
<1>0. /\ files \in [Processes -> SUBSET AnyEnd] /\ onExec \in [Processes -> SUBSET AnyEnd]
      /\ Parent \in Processes /\ Children \subseteq Processes
      /\ \A p \in Processes : \A e \in onExec[p] : e \in files[p] /\ e[2] = "ck_exec"
  BY DEF Shape, FilesOK, FlagsOK, Processes
<1> DEFINE Sets(p, fs, cs) ==
             /\ files' = [files EXCEPT ![p] = fs] /\ onExec' = [onExec EXCEPT ![p] = cs]
             /\ fs \subseteq AnyEnd /\ cs \subseteq AnyEnd
             /\ \A e \in cs : e \in fs /\ e[2] = "ck_exec"
<1>1. ASSUME NEW p \in Processes, NEW fs, NEW cs, Sets(p, fs, cs)
      PROVE  FilesOK' /\ FlagsOK'
  <2>1. FilesOK'
    BY <1>0, <1>1 DEF FilesOK
  <2>2. \A q \in Processes : \A e \in onExec'[q] : e \in files'[q] /\ e[2] = "ck_exec"
    BY <1>0, <1>1
  <2> QED
    BY <2>1, <2>2 DEF FlagsOK
<1> HIDE DEF Sets
<1>2. ASSUME NEW fds, CloseFds(fds) PROVE FilesOK' /\ FlagsOK'
  <2>1. /\ files' = [files EXCEPT ![Parent] = files[Parent] \ fds]
        /\ onExec' = [onExec EXCEPT ![Parent] = onExec[Parent] \ fds]
    BY <1>2 DEF CloseFds
  <2>2. /\ files[Parent] \ fds \in SUBSET AnyEnd /\ onExec[Parent] \ fds \in SUBSET AnyEnd
        /\ \A e \in onExec[Parent] \ fds : e \in files[Parent] \ fds /\ e[2] = "ck_exec"
    BY <1>0
  <2>3. Sets(Parent, files[Parent] \ fds, onExec[Parent] \ fds)
    BY <2>1, <2>2 DEF Sets
  <2> QED
    BY <1>0, <1>1, <2>3
<1>3. ASSUME NEW fs, fs \subseteq AnyEnd,
             files' = [files EXCEPT ![Parent] = fs], onExec' = onExec, onExec[Parent] \subseteq fs
      PROVE  FilesOK' /\ FlagsOK'
  <2>1. onExec' = [onExec EXCEPT ![Parent] = onExec[Parent]]
    BY <1>0, <1>3
  <2>2. Sets(Parent, fs, onExec[Parent])
    BY <1>0, <1>3, <2>1 DEF Sets
  <2> QED
    BY <1>0, <1>1, <2>2
<1>4. ASSUME NEW s \in Streams, NEW fds, wait(s, fds) \/ ClosePipes(s, fds), onExec' = onExec
      PROVE  FilesOK' /\ FlagsOK'
  <2>1. PICK W : files' = [files EXCEPT ![Parent] = files[Parent] \ (pipes[s] \cap W)]
    BY <1>4 DEF wait, ClosePipes
  <2>2. \A e \in pipes[s] : e[2] # "ck_exec"
    <3>1. \A n : \A e \in ParentSide(n) : e[2] # "ck_exec"
      BY DEF ParentSide
    <3> QED
      BY <3>1 DEF Shape, PipesOK
  <2>3. /\ onExec[Parent] \subseteq files[Parent] \ (pipes[s] \cap W)
        /\ files[Parent] \ (pipes[s] \cap W) \subseteq AnyEnd
    BY <1>0, <2>2
  <2> QED
    BY <1>0, <1>3, <1>4, <2>1, <2>3
<1>5. ASSUME NEW n \in Children,
             files' = [files EXCEPT ![n] = {}], onExec' = [onExec EXCEPT ![n] = {}]
      PROVE  FilesOK' /\ FlagsOK'
  <2>1. Sets(n, {}, {})
    BY <1>5 DEF Sets
  <2> QED
    BY <1>0, <1>1, <2>1
<1>6. ASSUME UNCHANGED <<files, onExec>> PROVE FilesOK' /\ FlagsOK'
  BY <1>0, <1>6 DEF FilesOK, FlagsOK
<1>7. ASSUME NEW s \in Streams, CkExecPipe(s) \/ Pipes(s) PROVE FilesOK' /\ FlagsOK'
  <2>1. call[s].n \in Children
    BY <1>7 DEF CkExecPipe, Pipes, At, OwnNumber, Starting, Before
  <2>2. \A roles \in SUBSET Standard : Ends(call[s].n, roles) \subseteq AnyEnd
    BY <2>1, EndsOK
  <2>3. CkExec(call[s].n) \subseteq AnyEnd
    BY <2>1, EndsOK
  <2>4. Ends(call[s].n, call[s].mode \cap Standard) \subseteq AnyEnd
    BY <2>2
  <2>5. PICK new \in SUBSET AnyEnd : files' = [files EXCEPT ![Parent] = files[Parent] \cup new]
    BY <1>7, <2>3, <2>4 DEF CkExecPipe, Pipes
  <2>6. files[Parent] \cup new \subseteq AnyEnd /\ onExec[Parent] \subseteq files[Parent] \cup new
    BY <1>0
  <2>7. onExec' = onExec
    BY <1>7 DEF CkExecPipe, Pipes
  <2> QED
    BY <1>0, <1>3, <2>5, <2>6, <2>7
<1>8. ASSUME NEW s \in Streams, SetCloseOnExec(s) PROVE FilesOK' /\ FlagsOK'
  <2> DEFINE n == call[s].n
  <2>1. call[s].pc = "fcntl" /\ call[s].argv /\ n \in Children
    <3>1. call[s].pc = "fcntl"
      BY <1>8 DEF SetCloseOnExec, At
    <3>2. call[s].argv
      BY <3>1 DEF OwnNumber
    <3>3. n \in Children
      BY <3>1 DEF OwnNumber, Starting, Before
    <3> QED BY <3>1, <3>2, <3>3
  <2>2. CkExec(n) \subseteq Local(s)
    BY <2>1 DEF Local
  <2>3. CkExec(n) \subseteq files[Parent]
    BY <2>2 DEF DescriptorsKept, InUse
  <2>4. files' = files /\ onExec' = [onExec EXCEPT ![Parent] = onExec[Parent] \cup CkExec(n)]
    BY <1>8 DEF SetCloseOnExec
  <2>5. \A e \in CkExec(n) : e[2] = "ck_exec"
    BY <2>1, EndsOK
  <2> HIDE DEF n
  <2>6. files' = [files EXCEPT ![Parent] = files[Parent]]
    BY <1>0, <2>4
  <2>7. /\ onExec[Parent] \cup CkExec(n) \in SUBSET AnyEnd
        /\ \A e \in onExec[Parent] \cup CkExec(n) : e \in files[Parent] /\ e[2] = "ck_exec"
    BY <1>0, <2>3, <2>5
  <2>8. Sets(Parent, files[Parent], onExec[Parent] \cup CkExec(n))
    BY <1>0, <2>4, <2>6, <2>7 DEF Sets
  <2> QED
    BY <1>0, <1>1, <2>8
<1>9. ASSUME NEW s \in Streams, Fork(s) PROVE FilesOK' /\ FlagsOK'
  <2>1. call[s].n \in Children
    BY <1>9 DEF Fork, At, OwnNumber, Starting, Before
  <2>2. /\ files' = [files EXCEPT ![call[s].n] = files[Parent]]
        /\ onExec' = [onExec EXCEPT ![call[s].n] = onExec[Parent]]
    BY <1>9 DEF Fork
  <2>3. /\ files[Parent] \in SUBSET AnyEnd /\ onExec[Parent] \in SUBSET AnyEnd
        /\ \A e \in onExec[Parent] : e \in files[Parent] /\ e[2] = "ck_exec"
    BY <1>0
  <2>4. Sets(call[s].n, files[Parent], onExec[Parent])
    BY <2>2, <2>3 DEF Sets
  <2> QED
    BY <1>0, <1>1, <2>1, <2>4
<1>10. ASSUME NEW s \in Streams, Opening(s) PROVE FilesOK' /\ FlagsOK'
  <2>1. CASE CkExecFails(s) \/ PipesFail(s) \/ ForkFails(s) \/ OpenInterrupted(s)
    <3>1. \E fds : CloseFds(fds)
      BY <2>1 DEF CkExecFails, PipesFail, ForkFails, OpenInterrupted, Fails
    <3> QED BY <1>2, <3>1
  <2>2. CASE InParent(s) \/ ExecSucceeded(s) \/ ExecFailed(s)
    <3>1. \E fds : CloseFds(fds)
      BY <2>2 DEF InParent, ExecSucceeded, ExecFailed
    <3> QED BY <1>2, <3>1
  <2>3. CASE ExecReported(s)
    BY <1>6, <2>3 DEF ExecReported
  <2> QED
    BY <1>7, <1>8, <1>9, <1>10, <2>1, <2>2, <2>3 DEF Opening, Proceeds
<1>11. ASSUME NEW s \in Streams, Using(s) PROVE FilesOK' /\ FlagsOK'
  <2>1. CASE Reap(s) \/ peof(s) \/ \E next \in {"closing", "destroying"} : Close(s, next)
    BY <1>4, <2>1 DEF Reap, peof, Close
  <2>2. CASE kill(s) \/ killpg(s)
    <3>1. ppid[s] \in Children
      BY <2>2 DEF kill, killpg, is_open, Shape, PpidOK, Children
    <3>2. Killed(ppid[s]) \/ UNCHANGED <<files, onExec>>
      BY <2>2 DEF kill, killpg
    <3> QED
      BY <1>5, <1>6, <3>1, <3>2 DEF Killed
  <2>3. CASE \/ CallFails(s) \/ showmanyc(s)
             \/ \E mode \in Modes, argv \in BOOLEAN : Open(s, mode, argv)
             \/ \E in \in Blocking : WriteWaits(s, in)
    BY <1>6, <2>3 DEF CallFails, showmanyc, Open, Begin, WriteWaits
  <2> QED
    BY <1>11, <2>1, <2>2, <2>3 DEF Using, Blocking
<1>12. ASSUME NEW s \in Streams, CloseWaits(s) \/ WriteReturns(s) PROVE FilesOK' /\ FlagsOK'
  BY <1>4, <1>12 DEF CloseWaits, WriteReturns, Wrote
<1>13. ASSUME NEW n \in Children, Exec(n) PROVE FilesOK' /\ FlagsOK'
  <2> DEFINE fs == files[n] \ (ParentSide(n) \cup onExec[n])
  <2>1. files' = [files EXCEPT ![n] = fs] /\ onExec' = [onExec EXCEPT ![n] = {}]
    BY <1>13 DEF Exec
  <2>2. fs \subseteq AnyEnd
    BY <1>0
  <2>3. Sets(n, fs, {})
    BY <2>1, <2>2 DEF Sets
  <2> QED
    BY <1>0, <1>1, <2>3
<1>14. ASSUME NEW n \in Children, ExecFails(n) \/ Exits(n) PROVE FilesOK' /\ FlagsOK'
  BY <1>5, <1>14 DEF ExecFails, Exits, Leaves
<1>15. CASE UNCHANGED vars
  BY <1>6, <1>15 DEF vars
<1> QED
  BY <1>10, <1>11, <1>12, <1>13, <1>14, <1>15 DEF Next

-----------------------------------------------------------------------------
(* The descriptors of this program, stream by stream.                      *)
Mine(s) == pipes[s] \cup Local(s)
Ck(s) == IF call[s].argv THEN CkExec(call[s].n) ELSE {}
CkWrite(s) == <<call[s].n, "ck_exec", "WR">>

LEMMA LocalIs ==
  ASSUME NEW s \in Streams
  PROVE  /\ call[s].pc \in {"fcntl", "pipes"} => Local(s) = Ck(s)
         /\ call[s].pc \in {"fork", "parent"} =>
              Local(s) = Ck(s) \cup Ends(call[s].n, call[s].mode \cap Standard)
         /\ call[s].pc \in After => Local(s) = Ck(s) \ {CkWrite(s)}
         /\ call[s].pc \in {"ck_exec", "idle", "sync", "peof", "close", "destroy", "closing",
                         "destroying", "gone"} => Local(s) = {}
  BY DEF Local, Ck, CkWrite, After

LEMMA LocalBecomes ==
  ASSUME NEW s \in Streams
  PROVE  /\ call'[s].pc \in {"fcntl", "pipes"} => Local(s)' = Ck(s)'
         /\ call'[s].pc \in {"fork", "parent"} =>
              Local(s)' = Ck(s)' \cup Ends(call'[s].n, call'[s].mode \cap Standard)
         /\ call'[s].pc \in After => Local(s)' = Ck(s)' \ {CkWrite(s)'}
         /\ call'[s].pc \in {"ck_exec", "idle", "sync", "peof", "close", "destroy", "closing",
                          "destroying", "gone"} => Local(s)' = {}
  BY DEF Local, Ck, CkWrite, After

(* What a call has open are ends of the pipes of its own process.          *)
LEMMA LocalEnds ==
  ASSUME CallsOK, OwnNumber, NEW s \in Streams, NEW e \in Local(s)
  PROVE  /\ call[s].pc \in Starting \cup After /\ e[1] = call[s].n
         /\ call[s].pc \in After => e[2] = "ck_exec"
<1>1. call[s].pc \in Pcs
  BY DEF CallsOK, CallRecord
<1>2. call[s].pc \in Starting \cup After
  BY <1>1, LocalIs DEF Pcs, Starting, Before, After
<1>3. call[s].n \in Children
  BY <1>2 DEF OwnNumber
<1>4. \A d \in Ck(s) : d[1] = call[s].n /\ d[2] = "ck_exec"
  <2>1. \A d \in CkExec(call[s].n) : d[1] = call[s].n /\ d[2] = "ck_exec"
    BY <1>3, EndsOK
  <2>2. Ck(s) \subseteq CkExec(call[s].n)
    BY DEF Ck
  <2> QED
    BY <2>1, <2>2
<1>5. \A d \in Ends(call[s].n, call[s].mode \cap Standard) : d[1] = call[s].n
  BY <1>3, EndsOK
<1>6. CASE call[s].pc \in After
  BY <1>2, <1>4, <1>6, LocalIs
<1>7. CASE call[s].pc \in Starting
  <2>1. e \in Ck(s) \cup Ends(call[s].n, call[s].mode \cap Standard)
    BY <1>7, LocalIs DEF Starting, Before
  <2> QED
    BY <1>2, <1>4, <1>5, <1>7, <2>1 DEF Starting, Before, After
<1> QED
  BY <1>2, <1>6, <1>7

(* No stream has an end that another one is about to close.                *)
LEMMA ForeignEnds ==
  ASSUME Shape, OwnNumber, OwnPipes, NEW s \in Streams, NEW t \in Streams \ {s}, NEW e \in Mine(t)
  PROVE  /\ e \notin pipes[s]
         /\ call[s].pc \in Starting \cup After /\ e[1] = call[s].n =>
              e[2] # "ck_exec" /\ call[s].pc \notin Starting
<1>0. CallsOK /\ "ck_exec" \notin Standard /\ 0 \notin Children
  BY DEF Shape, Standard, Sources, Children
<1>1. \A u \in Streams : \A d \in pipes[u] : d[2] # "ck_exec"
  <2>1. \A n : \A d \in ParentSide(n) : d[2] # "ck_exec"
    BY DEF ParentSide
  <2> QED
    BY <2>1 DEF Shape, PipesOK
<1>2. CASE e \in pipes[t]
  BY <1>1, <1>2 DEF OwnPipes
<1>3. CASE e \in Local(t)
  <2>1. /\ call[t].pc \in Starting \cup After /\ e[1] = call[t].n
        /\ call[t].pc \in After => e[2] = "ck_exec"
    BY <1>0, <1>3, LocalEnds
  <2>2. call[t].n # 0
    BY <1>0, <2>1 DEF OwnNumber
  <2>3. call[s].n # call[t].n
    BY <2>2 DEF OwnNumber
  <2>4. e \notin pipes[s]
    BY <1>1, <2>1 DEF OwnPipes
  <2> QED
    BY <2>1, <2>3, <2>4
<1> QED
  BY <1>2, <1>3 DEF Mine

(* A step that opens some descriptors and closes others for one stream.    *)
Changes(s, add, del) ==
  /\ files'[Parent] = (files[Parent] \cup add) \ del
  /\ \A t \in Streams \ {s} : Mine(t)' = Mine(t) /\ \A e \in Mine(t) : e \notin del
  /\ Mine(s)' \subseteq files'[Parent]
  /\ leaky' = {} => leaky = {} /\ (Mine(s) \cup add) \ del \subseteq Mine(s)'

LEMMA ChangesKept ==
  ASSUME DescriptorsKept, NEW s \in Streams, NEW add, NEW del, Changes(s, add, del)
  PROVE  DescriptorsKept'
<1>1. InUse = UNION {Mine(t) : t \in Streams}
  BY DEF InUse, Mine
<1>2. InUse' = UNION {Mine(t)' : t \in Streams}
  BY DEF InUse, Mine
<1>3. ASSUME NEW e \in InUse' PROVE e \in files'[Parent]
  <2>1. PICK t \in Streams : e \in Mine(t)'
    BY <1>2, <1>3
  <2>2. CASE t = s
    BY <2>1, <2>2 DEF Changes
  <2>3. CASE t # s
    <3>1. e \in Mine(t) /\ e \notin del
      BY <2>1, <2>3 DEF Changes
    <3>2. e \in files[Parent]
      BY <1>1, <3>1 DEF DescriptorsKept
    <3> QED
      BY <3>1, <3>2 DEF Changes
  <2> QED
    BY <2>2, <2>3
<1>4. ASSUME leaky' = {}, NEW e \in files'[Parent] PROVE e \in InUse'
  <2>1. /\ e \in files[Parent] \cup add /\ e \notin del
        /\ leaky = {} /\ (Mine(s) \cup add) \ del \subseteq Mine(s)'
    BY <1>4 DEF Changes
  <2>2. CASE e \in add
    <3>1. e \in Mine(s)'
      BY <2>1, <2>2
    <3> QED
      BY <1>2, <3>1
  <2>3. CASE e \in files[Parent]
    <3>1. e \in InUse
      BY <2>1, <2>3 DEF DescriptorsKept
    <3>2. PICK t \in Streams : e \in Mine(t)
      BY <1>1, <3>1
    <3>3. e \in Mine(t)'
      BY <2>1, <3>2 DEF Changes
    <3> QED
      BY <1>2, <3>3
  <2> QED
    BY <2>1, <2>2, <2>3
<1> QED
  BY <1>3, <1>4 DEF DescriptorsKept

LEMMA OthersMine ==
  ASSUME NEW t \in Streams, call'[t] = call[t], pipes'[t] = pipes[t]
  PROVE  Mine(t)' = Mine(t) /\ Local(t)' = Local(t)
  BY DEF Mine, Local

LEMMA CkStays ==
  ASSUME CallsOK, NEW s \in Streams, NEW next \in Pcs, GoesOn(s, next)
  PROVE  /\ call'[s].pc = next /\ call'[s].n = call[s].n /\ call'[s].mode = call[s].mode
         /\ Ck(s)' = Ck(s) /\ CkWrite(s)' = CkWrite(s)
         /\ \A t \in Streams \ {s} : call'[t] = call[t] /\ Local(t)' = Local(t)
<1>1. /\ call'[s].pc = next /\ call'[s].n = call[s].n /\ call'[s].mode = call[s].mode
      /\ call'[s].argv <=> call[s].argv
      /\ \A t \in Streams \ {s} : call'[t] = call[t]
  BY CallGoes DEF GoesOn, Goto
<1>2. Ck(s)' = Ck(s) /\ CkWrite(s)' = CkWrite(s)
  BY <1>1 DEF Ck, CkWrite
<1>3. \A t \in Streams \ {s} : Local(t)' = Local(t)
  BY <1>1 DEF Local
<1> QED
  BY <1>1, <1>2, <1>3

(* The steps of open until it returns or has its process.                  *)
LEMMA OpeningKeeps ==
  ASSUME Shape, OwnNumber, OwnPipes, DescriptorsKept, NEW s \in Streams, Opening(s)
  PROVE  DescriptorsKept'
<1> DEFINE n == call[s].n
           std == Ends(n, call[s].mode \cap Standard)
<1>0. /\ CallsOK /\ {"idle", "fcntl", "pipes", "fork", "parent", "read", "wait"} \subseteq Pcs
      /\ Parent \in Processes /\ Parent \notin Children
      /\ pipes \in [Streams -> SUBSET AnyEnd] /\ files \in [Processes -> SUBSET AnyEnd]
  BY DEF Shape, Pcs, Processes, Parent, Children, PipesOK, FilesOK
<1>1. \A t \in Streams : Mine(t) \subseteq files[Parent]
  BY DEF DescriptorsKept, InUse, Mine
<1>2. call[s].pc \in Starting \cup After
  BY DEF Opening, Proceeds, CkExecPipe, SetCloseOnExec, CkExecFails, Pipes, PipesFail, Fork, ForkFails,
         InParent, ExecSucceeded, ExecReported, ExecFailed, OpenInterrupted, At, Starting, Before,
         After
<1>3. n \in Children /\ (call[s].pc \in {"ck_exec", "fcntl"} \cup After => Ck(s) = CkExec(n))
  BY <1>2 DEF OwnNumber, Ck
<1>4. /\ Ck(s) \subseteq CkExec(n) /\ CkWrite(s) \in CkExec(n)
      /\ \A e \in CkExec(n) : e[1] = n /\ e[2] = "ck_exec"
      /\ \A e \in std : e[1] = n
      /\ \A e \in pipes[s] : e[2] # "ck_exec"
      /\ call[s].pc \in Starting => \A e \in pipes[s] : e[1] # n
  <2>1. /\ \A e \in CkExec(n) : e[1] = n /\ e[2] = "ck_exec"
        /\ \A roles : \A e \in Ends(n, roles) : e[1] = n /\ e[2] \in roles
    BY <1>3, EndsOK
  <2>2. Ck(s) \subseteq CkExec(n) /\ CkWrite(s) \in CkExec(n)
    BY DEF Ck, CkWrite, CkExec, Ends
  <2>3. \A e \in pipes[s] : e[2] # "ck_exec"
    <3>1. \A m : \A e \in ParentSide(m) : e[2] # "ck_exec"
      BY DEF ParentSide
    <3> QED
      BY <3>1 DEF Shape, PipesOK
  <2>4. call[s].pc \in Starting => \A e \in pipes[s] : e[1] # n
    BY DEF OwnPipes
  <2> QED
    BY <2>1, <2>2, <2>3, <2>4
<1>5. \A t \in Streams \ {s} : \A e \in Mine(t) :
        /\ e \notin pipes[s] /\ e \notin CkExec(n)
        /\ call[s].pc \in Starting => e[1] # n
  BY <1>2, <1>4, ForeignEnds
<1> HIDE DEF n, std
<1>6. ASSUME NEW next \in Pcs, GoesOn(s, next), pipes' = pipes
      PROVE  /\ \A t \in Streams \ {s} : Mine(t)' = Mine(t)
             /\ Mine(s)' = pipes[s] \cup Local(s)'
             /\ call'[s].pc = next /\ Ck(s)' = Ck(s) /\ CkWrite(s)' = CkWrite(s)
             /\ call'[s].n = n /\ call'[s].mode = call[s].mode
  <2>1. \A t \in Streams \ {s} : call'[t] = call[t] /\ pipes'[t] = pipes[t]
    BY <1>0, <1>6, CkStays
  <2>2. \A t \in Streams \ {s} : Mine(t)' = Mine(t)
    BY <2>1, OthersMine
  <2>3. Mine(s)' = pipes[s] \cup Local(s)'
    BY <1>6 DEF Mine
  <2>4. /\ call'[s].pc = next /\ Ck(s)' = Ck(s) /\ CkWrite(s)' = CkWrite(s)
        /\ call'[s].n = n /\ call'[s].mode = call[s].mode
    BY <1>0, <1>6, CkStays DEF n
  <2> QED
    BY <2>2, <2>3, <2>4
<1>7. CASE CkExecPipe(s)
  <2>1. /\ call[s].pc = "ck_exec" /\ GoesOn(s, "fcntl") /\ pipes' = pipes /\ leaky' = leaky
        /\ files' = [files EXCEPT ![Parent] = files[Parent] \cup CkExec(n)]
    BY <1>7 DEF CkExecPipe, At, GoesOn, Moves, n
  <2>2. files'[Parent] = (files[Parent] \cup CkExec(n)) \ {}
    BY <1>0, <2>1
  <2>3. Local(s) = {} /\ Mine(s) = pipes[s]
    BY <2>1, LocalIs DEF Mine
  <2>4. Local(s)' = CkExec(n)
    BY <1>0, <1>3, <1>6, <2>1, LocalBecomes
  <2>5. \A t \in Streams \ {s} : Mine(t)' = Mine(t)
    BY <1>0, <1>6, <2>1
  <2>6. Mine(s)' = pipes[s] \cup CkExec(n)
    BY <1>0, <1>6, <2>1, <2>4
  <2>7. Changes(s, CkExec(n), {})
    BY <1>1, <2>1, <2>2, <2>3, <2>5, <2>6 DEF Changes
  <2> QED
    BY <2>7, ChangesKept
<1>8. CASE SetCloseOnExec(s) \/ Fork(s) \/ ExecReported(s)
  <2>1. PICK next \in {"pipes", "parent", "wait"} :
          /\ GoesOn(s, next) /\ pipes' = pipes /\ leaky' = leaky
          /\ next = "pipes" => call[s].pc = "fcntl"
          /\ next = "parent" => call[s].pc = "fork"
          /\ next = "wait" => call[s].pc = "read"
    <3>1. CASE SetCloseOnExec(s)
      BY <3>1 DEF SetCloseOnExec, At, GoesOn, Moves
    <3>2. CASE Fork(s)
      BY <3>2 DEF Fork, At, GoesOn, Moves
    <3>3. CASE ExecReported(s)
      BY <3>3 DEF ExecReported, At, GoesOn, Moves
    <3> QED
      BY <1>8, <3>1, <3>2, <3>3
  <2>2. files'[Parent] = (files[Parent] \cup {}) \ {}
    BY <1>0, <1>3, <1>8 DEF SetCloseOnExec, Fork, ExecReported, n
  <2>3. /\ \A t \in Streams \ {s} : Mine(t)' = Mine(t)
        /\ Mine(s)' = pipes[s] \cup Local(s)'
        /\ call'[s].pc = next /\ Ck(s)' = Ck(s) /\ CkWrite(s)' = CkWrite(s)
        /\ call'[s].n = n /\ call'[s].mode = call[s].mode
    BY <1>0, <1>6, <2>1
  <2>4. Local(s)' = Local(s)
    <3>1. CASE next = "pipes"
      BY <2>1, <2>3, <3>1, LocalIs, LocalBecomes
    <3>2. CASE next = "parent"
      BY <2>1, <2>3, <3>2, LocalIs, LocalBecomes DEF n
    <3>3. CASE next = "wait"
      BY <2>1, <2>3, <3>3, LocalIs, LocalBecomes DEF After
    <3> QED
      BY <3>1, <3>2, <3>3
  <2>5. Mine(s)' = Mine(s)
    BY <2>3, <2>4 DEF Mine
  <2>6. Changes(s, {}, {})
    BY <1>1, <2>1, <2>2, <2>3, <2>5 DEF Changes
  <2> QED
    BY <2>6, ChangesKept
<1>9. CASE Pipes(s)
  <2>1. /\ call[s].pc = "pipes" /\ GoesOn(s, "fork") /\ pipes' = pipes /\ leaky' = leaky
        /\ files' = [files EXCEPT ![Parent] = files[Parent] \cup std]
    BY <1>9 DEF Pipes, At, GoesOn, Moves, n, std
  <2>2. files'[Parent] = (files[Parent] \cup std) \ {}
    BY <1>0, <2>1
  <2>3. Local(s) = Ck(s)
    BY <2>1, LocalIs
  <2>4. Local(s)' = Ck(s) \cup std
    <3>1. /\ call'[s].pc = "fork" /\ Ck(s)' = Ck(s)
          /\ call'[s].n = n /\ call'[s].mode = call[s].mode
      BY <1>0, <1>6, <2>1
    <3> QED
      BY <3>1, LocalBecomes DEF std
  <2>5. \A t \in Streams \ {s} : Mine(t)' = Mine(t)
    BY <1>0, <1>6, <2>1
  <2>6. Mine(s)' = Mine(s) \cup std
    BY <1>0, <1>6, <2>1, <2>3, <2>4 DEF Mine
  <2>7. Changes(s, std, {})
    BY <1>1, <2>1, <2>2, <2>5, <2>6 DEF Changes
  <2> QED
    BY <2>7, ChangesKept
<1>10. ASSUME NEW fds, GoesOn(s, "idle"), pipes' = pipes, leaky' = leaky, CloseFds(fds),
              Local(s) \subseteq fds, fds \subseteq CkExec(n) \cup Ends(n, Standard),
              call[s].pc \in Starting \/ fds \subseteq CkExec(n)
       PROVE  DescriptorsKept'
  <2>1. files'[Parent] = (files[Parent] \cup {}) \ fds
    BY <1>0, <1>10 DEF CloseFds
  <2>2. \A e \in fds : e[1] = n
    <3>1. \A e \in Ends(n, Standard) : e[1] = n
      BY <1>3, EndsOK
    <3> QED
      BY <1>4, <1>10, <3>1
  <2>3. \A t \in Streams \ {s} : \A e \in Mine(t) : e \notin fds
    BY <1>5, <1>10, <2>2
  <2>4. \A e \in pipes[s] : e \notin fds
    BY <1>4, <1>10, <2>2
  <2>5. Local(s)' = {}
    BY <1>0, <1>6, <1>10, LocalBecomes
  <2>6. Mine(s)' = pipes[s] /\ \A t \in Streams \ {s} : Mine(t)' = Mine(t)
    BY <1>0, <1>6, <1>10, <2>5
  <2>7. Mine(s) = pipes[s] \cup Local(s)
    BY DEF Mine
  <2>8. Changes(s, {}, fds)
    BY <1>1, <1>10, <2>1, <2>3, <2>4, <2>6, <2>7 DEF Changes
  <2> QED
    BY <2>8, ChangesKept
<1>11. CASE CkExecFails(s) \/ PipesFail(s) \/ OpenInterrupted(s) \/ ExecSucceeded(s)
  <2>1. /\ GoesOn(s, "idle") /\ pipes' = pipes /\ leaky' = leaky /\ CloseFds(CkExec(n))
        /\ call[s].pc \in {"ck_exec", "fcntl", "pipes"} \cup After
    BY <1>11 DEF CkExecFails, PipesFail, OpenInterrupted, ExecSucceeded, Fails, At, GoesOn, Moves,
                 After, n
  <2>2. Local(s) \subseteq CkExec(n)
    BY <1>4, <2>1, LocalIs
  <2> QED
    BY <1>10, <2>1, <2>2
<1>12. CASE ForkFails(s)
  <2>1. /\ GoesOn(s, "idle") /\ pipes' = pipes /\ leaky' = leaky
        /\ CloseFds(Ends(n, Standard) \cup CkExec(n)) /\ call[s].pc = "fork"
    BY <1>12 DEF ForkFails, Fails, At, GoesOn, Moves, n
  <2>2. Local(s) = Ck(s) \cup std
    BY <2>1, LocalIs DEF n, std
  <2>3. std \subseteq Ends(n, Standard)
    BY DEF std, Ends
  <2>4. Local(s) \subseteq Ends(n, Standard) \cup CkExec(n) /\ call[s].pc \in Starting
    BY <1>4, <2>1, <2>2, <2>3 DEF Starting, Before
  <2> QED
    BY <1>10, <2>1, <2>4
<1>13. CASE ExecFailed(s)
  <2> DEFINE del == CkExec(n) \cup (pipes[s] \cap Writing)
  <2>1. /\ GoesOn(s, "idle") /\ leaky' = leaky /\ CloseFds(del) /\ call[s].pc = "wait"
        /\ pipes' = [pipes EXCEPT ![s] = pipes[s] \ Writing]
    BY <1>13 DEF ExecFailed, At, GoesOn, Moves, n
  <2>2. files'[Parent] = (files[Parent] \cup {}) \ del
    BY <1>0, <2>1 DEF CloseFds
  <2>3. \A t \in Streams \ {s} : call'[t] = call[t] /\ pipes'[t] = pipes[t]
    BY <1>0, <2>1, CkStays
  <2>4. \A t \in Streams \ {s} : Mine(t)' = Mine(t) /\ \A e \in Mine(t) : e \notin del
    BY <1>5, <2>3, OthersMine
  <2>5. call'[s].pc = "idle"
    BY <1>0, <2>1, CkStays
  <2>6. Mine(s)' = pipes[s] \ Writing
    BY <1>0, <2>1, <2>5, LocalBecomes DEF Mine
  <2>7. Local(s) \subseteq CkExec(n)
    BY <1>4, <2>1, LocalIs DEF After
  <2>8. Mine(s)' \subseteq files'[Parent]
    BY <1>1, <1>4, <2>2, <2>6 DEF Mine
  <2>9. (Mine(s) \cup {}) \ del \subseteq Mine(s)'
    BY <2>6, <2>7 DEF Mine
  <2> HIDE DEF del
  <2>10. Changes(s, {}, del)
    BY <2>1, <2>2, <2>4, <2>8, <2>9 DEF Changes
  <2> QED
    BY <2>10, ChangesKept
<1>14. CASE InParent(s)
  <2> DEFINE del == ChildSide(n) \cup {CkWrite(s)}
             kept == {e \in pipes[s] : e[2] \notin call[s].mode}
             new == {e \in ParentSide(n) : e[2] \in call[s].mode}
  <2>1. /\ call[s].pc = "parent" /\ leaky' = leaky /\ CloseFds(del)
        /\ pipes' = [pipes EXCEPT ![s] = kept \cup new]
    BY <1>14 DEF InParent, At, n, CkWrite
  <2>2. PICK next \in {"read", "idle"} :
          GoesOn(s, next) /\ (next = "idle" => ~call[s].argv)
    BY <1>14 DEF InParent, At, GoesOn, Moves
  <2>3. files'[Parent] = (files[Parent] \cup {}) \ del
    BY <1>0, <2>1 DEF CloseFds
  <2>4. \A t \in Streams \ {s} : call'[t] = call[t] /\ pipes'[t] = pipes[t]
    BY <1>0, <2>1, <2>2, CkStays
  <2>5. call[s].pc \in Starting
    BY <2>1 DEF Starting
  <2>6. \A e \in del : e[1] = n
    BY <1>3, <1>4, EndsOK
  <2>7. \A t \in Streams \ {s} : Mine(t)' = Mine(t) /\ \A e \in Mine(t) : e \notin del
    BY <1>5, <2>4, <2>5, <2>6, OthersMine
  <2>8. Local(s)' = Ck(s) \ {CkWrite(s)}
    <3>1. call'[s].pc = next /\ Ck(s)' = Ck(s) /\ CkWrite(s)' = CkWrite(s)
      BY <1>0, <2>2, CkStays
    <3>2. CASE next = "read"
      BY <3>1, <3>2, LocalBecomes DEF After
    <3>3. CASE next = "idle"
      <4>1. Ck(s) = {}
        BY <2>2, <3>3 DEF Ck
      <4> QED
        BY <3>1, <3>3, <4>1, LocalBecomes
    <3> QED
      BY <3>2, <3>3
  <2>9. Mine(s)' = kept \cup new \cup (Ck(s) \ {CkWrite(s)})
    BY <1>0, <2>1, <2>8 DEF Mine
  <2>10. Local(s) = Ck(s) \cup std
    BY <2>1, LocalIs DEF n, std
  <2>11. /\ new \subseteq std /\ \A e \in new : e \notin del
         /\ std \ del \subseteq new
         /\ \A e \in Ck(s) : e \notin ChildSide(n)
    <3>1. /\ new \subseteq std
          /\ \A e \in new : e \notin ChildSide(n) /\ e # CkWrite(s)
      BY DEF std, Ends, ParentSide, ChildSide, CkWrite, Standard, Sources
    <3>2. std \ ChildSide(n) \subseteq new
      BY DEF std, Ends, ParentSide, ChildSide, Standard, Sources
    <3>3. \A e \in ChildSide(n) : e[2] # "ck_exec"
      BY DEF ChildSide
    <3> QED
      BY <1>4, <3>1, <3>2, <3>3
  <2>12. \A e \in kept : e \notin del
    BY <1>4, <2>5, <2>6
  <2>13. Mine(s)' \subseteq files'[Parent]
    <3>1. kept \cup new \cup Ck(s) \subseteq Mine(s)
      BY <2>10, <2>11 DEF Mine
    <3> HIDE DEF kept, new
    <3>2. \A e \in kept \cup new \cup (Ck(s) \ {CkWrite(s)}) : e \notin del
      BY <2>11, <2>12
    <3> QED
      BY <1>1, <2>3, <2>9, <3>1, <3>2
  <2>14. leaky = {} => (Mine(s) \cup {}) \ del \subseteq Mine(s)'
    <3>1. leaky = {} => pipes[s] = {}
      BY <2>5 DEF OwnPipes
    <3> HIDE DEF kept, new
    <3> QED
      BY <2>9, <2>10, <2>11, <3>1 DEF Mine
  <2> HIDE DEF del
  <2>15. Changes(s, {}, del)
    BY <2>1, <2>3, <2>7, <2>13, <2>14 DEF Changes
  <2> QED
    BY <2>15, ChangesKept
<1> QED
  BY <1>7, <1>8, <1>9, <1>11, <1>12, <1>13, <1>14 DEF Opening, Proceeds
(* The other steps: what a stream closes is its own.                       *)
LEMMA DescriptorsStep ==
  ASSUME Shape, OwnNumber, OwnPipes, DescriptorsKept, [Next]_vars
  PROVE  DescriptorsKept'
<1>0. /\ CallsOK /\ {"idle", "gone"} \cup ResetTo \subseteq Pcs
      /\ Parent \in Processes /\ Parent \notin Children
      /\ pipes \in [Streams -> SUBSET AnyEnd] /\ files \in [Processes -> SUBSET AnyEnd]
  BY DEF Shape, Pcs, Processes, Parent, Children, PipesOK, FilesOK, ResetTo, Blocking
<1>1. \A t \in Streams : Mine(t) \subseteq files[Parent]
  BY DEF DescriptorsKept, InUse, Mine
<1>2. ASSUME files'[Parent] = files[Parent], \A t \in Streams : Mine(t)' = Mine(t),
             leaky' = {} => leaky = {}
      PROVE  DescriptorsKept'
  <2>1. InUse = UNION {Mine(t) : t \in Streams} /\ InUse' = UNION {Mine(t)' : t \in Streams}
    BY DEF InUse, Mine
  <2>2. InUse' = InUse
    BY <1>2, <2>1
  <2> QED
    BY <1>2, <2>2 DEF DescriptorsKept
<1>3. ASSUME files'[Parent] = files[Parent], UNCHANGED <<call, pipes>>, leaky' = leaky
      PROVE  DescriptorsKept'
  <2>1. \A t \in Streams : Mine(t)' = Mine(t)
    BY <1>3, OthersMine
  <2> QED
    BY <1>2, <1>3, <2>1
<1>4. ASSUME NEW s \in Streams, NEW fds, wait(s, fds) \/ ClosePipes(s, fds), leaky' = leaky,
             Local(s) = {}, Local(s)' = {},
             \A t \in Streams \ {s} : call'[t] = call[t]
      PROVE  DescriptorsKept'
  <2>1. PICK W : ClosePipes(s, W)
    BY <1>4 DEF wait
  <2> DEFINE del == pipes[s] \cap W
  <2>2. files'[Parent] = (files[Parent] \cup {}) \ del
    BY <1>0, <2>1 DEF ClosePipes
  <2>3. /\ pipes'[s] = pipes[s] \ W
        /\ \A t \in Streams \ {s} : pipes'[t] = pipes[t]
    BY <1>0, <2>1 DEF ClosePipes
  <2>4. \A t \in Streams \ {s} : Mine(t)' = Mine(t)
    BY <1>4, <2>3, OthersMine
  <2>5. \A t \in Streams \ {s} : \A e \in Mine(t) : e \notin del
    BY ForeignEnds
  <2>6. Mine(s) = pipes[s] /\ Mine(s)' = pipes[s] \ W
    BY <1>4, <2>3 DEF Mine
  <2>7. Changes(s, {}, del)
    BY <1>1, <1>4, <2>2, <2>4, <2>5, <2>6 DEF Changes
  <2> QED
    BY <2>7, ChangesKept
<1>5. ASSUME NEW s \in Streams, Reap(s) \/ peof(s) PROVE DescriptorsKept'
  <2>1. /\ UNCHANGED call /\ call[s].pc = "idle" /\ leaky' = leaky
        /\ wait(s, {}) \/ wait(s, Writing)
    BY <1>5 DEF Reap, peof, Idle
  <2>2. Local(s) = {} /\ Local(s)' = {}
    BY <2>1, LocalIs, LocalBecomes
  <2> QED
    BY <1>4, <2>1, <2>2
<1>6. ASSUME NEW s \in Streams,
             \/ WriteReturns(s)
             \/ \E in \in Blocking : WriteWaits(s, in)
             \/ \E next \in {"closing", "destroying"} : Close(s, next)
      PROVE  DescriptorsKept'
  <2>1. PICK next \in ResetTo : Resets(s, next)
    BY <1>6, WriteResets
  <2>2. /\ call'[s].pc = next /\ call[s].pc \in ResetTo
        /\ \A t \in Streams \ {s} : call'[t] = call[t]
    BY <1>0, <2>1, CallCloses DEF Resets, ResetTo
  <2>3. Local(s) = {} /\ Local(s)' = {}
    BY <2>2, LocalIs, LocalBecomes DEF ResetTo, Blocking
  <2>4. CASE \E in \in Blocking : WriteWaits(s, in)
    <3>1. UNCHANGED <<pipes, files, leaky>>
      BY <2>4 DEF WriteWaits
    <3>2. \A t \in Streams \ {s} : Mine(t)' = Mine(t)
      BY <2>2, <3>1, OthersMine
    <3>3. Mine(s)' = Mine(s)
      BY <2>3, <3>1 DEF Mine
    <3> QED
      BY <1>2, <3>1, <3>2, <3>3
  <2>5. CASE WriteReturns(s)
    <3>1. leaky' = leaky /\ \E fds : ClosePipes(s, fds)
      BY <2>5 DEF WriteReturns, Wrote
    <3> QED
      BY <1>4, <2>2, <2>3, <3>1
  <2>6. CASE \E in \in {"closing", "destroying"} : Close(s, in)
    <3>1. leaky' = leaky /\ wait(s, pipes[s])
      BY <2>6 DEF Close
    <3> QED
      BY <1>4, <2>2, <2>3, <3>1
  <2> QED
    BY <1>6, <2>4, <2>5, <2>6
<1>7. ASSUME NEW s \in Streams, CloseWaits(s) PROVE DescriptorsKept'
  <2>1. PICK next \in {"idle", "gone"} : GoesOn(s, next)
    <3>1. GoesOn(s, IF At(s, "closing") THEN "idle" ELSE "gone")
      BY <1>7 DEF CloseWaits, Closing, GoesOn, At, Moves
    <3> QED
      BY <3>1
  <2>2. call[s].pc \in {"closing", "destroying"} /\ leaky' = leaky /\ wait(s, {})
    BY <1>7 DEF CloseWaits, Closing, At
  <2>3. call'[s].pc = next /\ \A t \in Streams \ {s} : call'[t] = call[t]
    BY <1>0, <2>1, CkStays
  <2>4. Local(s) = {} /\ Local(s)' = {}
    BY <2>2, <2>3, LocalIs, LocalBecomes
  <2> QED
    BY <1>4, <2>2, <2>3, <2>4
<1>8. ASSUME NEW s \in Streams, kill(s) \/ killpg(s) PROVE DescriptorsKept'
  <2>1. ppid[s] \in Children
    BY <1>8 DEF kill, killpg, is_open, Shape, PpidOK, Children
  <2>2. files'[Parent] = files[Parent]
    BY <1>0, <1>8, <2>1 DEF kill, killpg, Killed
  <2>3. UNCHANGED <<call, pipes, leaky>>
    BY <1>8 DEF kill, killpg
  <2> QED
    BY <1>3, <2>2, <2>3
<1>9. ASSUME NEW s \in Streams, NEW mode \in Modes, NEW argv \in BOOLEAN, Open(s, mode, argv)
      PROVE  DescriptorsKept'
  <2>1. /\ call'[s].pc = (IF argv THEN "ck_exec" ELSE "pipes") /\ (call'[s].argv <=> argv)
        /\ \A t \in Streams \ {s} : call'[t] = call[t]
    BY <1>0, <1>9, CallBegins DEF Open
  <2>2. /\ UNCHANGED <<pipes, files>> /\ call[s].pc = "idle"
        /\ leaky' = {} => leaky = {}
    BY <1>9 DEF Open, Begin, Idle
  <2>3. Local(s) = {} /\ Local(s)' = {}
    <3>1. CASE argv
      BY <2>1, <2>2, <3>1, LocalIs, LocalBecomes
    <3>2. CASE ~argv
      <4>1. Ck(s)' = {}
        BY <2>1, <3>2 DEF Ck
      <4> QED
        BY <2>1, <2>2, <3>2, <4>1, LocalIs, LocalBecomes
    <3> QED
      BY <3>1, <3>2
  <2>4. Mine(s)' = Mine(s)
    BY <2>2, <2>3 DEF Mine
  <2>5. \A t \in Streams \ {s} : Mine(t)' = Mine(t)
    BY <2>1, <2>2, OthersMine
  <2> QED
    BY <1>2, <2>2, <2>4, <2>5
<1>10. ASSUME NEW s \in Streams, Using(s) PROVE DescriptorsKept'
  <2>1. CASE CallFails(s) \/ showmanyc(s)
    BY <1>3, <2>1 DEF CallFails, showmanyc
  <2> QED
    BY <1>5, <1>6, <1>8, <1>9, <1>10, <2>1 DEF Using, Blocking
<1>11. ASSUME NEW n \in Children, Exec(n) \/ ExecFails(n) \/ Exits(n) PROVE DescriptorsKept'
  <2>1. files'[Parent] = files[Parent]
    BY <1>0, <1>11 DEF Exec, ExecFails, Exits, Leaves
  <2> QED
    BY <1>3, <1>11, <2>1 DEF Exec, ExecFails, Exits, Leaves
<1>12. CASE UNCHANGED vars
  BY <1>3, <1>12 DEF vars
<1> QED
  BY <1>6, <1>7, <1>10, <1>11, <1>12, OpeningKeeps DEF Next

-----------------------------------------------------------------------------
(* What a step does to one process.                                        *)
LEMMA ChildStep ==
  ASSUME Shape, OwnNumber, [Next]_vars, NEW n \in Children
  PROVE  \/ child'[n] = child[n] /\ files'[n] = files[n]
         \/ \E s \in Streams : Fork(s) /\ call[s].n = n
         \/ \E s \in Streams : Idle(s) /\ ppid[s] = n /\ Killed(n)
         \/ /\ child[n].state = "zombie" /\ child' = [child EXCEPT ![n].state = "reaped"]
            /\ files'[n] = files[n]
         \/ Exec(n) \/ ExecFails(n) \/ Exits(n)
<1>0. /\ ChildrenOK /\ PpidOK /\ Parent \in Processes /\ Children \subseteq Processes
      /\ files \in [Processes -> SUBSET AnyEnd] /\ n # Parent /\ \A m \in Children : m > 0
  BY DEF Shape, Processes, Parent, Children, FilesOK
<1> DEFINE Same == child'[n] = child[n] /\ files'[n] = files[n]
           Reaped == /\ child[n].state = "zombie" /\ child' = [child EXCEPT ![n].state = "reaped"]
                     /\ files'[n] = files[n]
<1>1. ASSUME NEW s \in Streams, NEW fds, wait(s, fds) \/ ExecFailed(s) PROVE Same \/ Reaped
  <2>1. files'[n] = files[n]
    BY <1>0, <1>1 DEF wait, ExecFailed, ClosePipes, CloseFds
  <2>2. \/ UNCHANGED child
        \/ /\ ppid[s] \in Children /\ child[ppid[s]].state = "zombie"
           /\ child' = [child EXCEPT ![ppid[s]].state = "reaped"]
    BY <1>0, <1>1 DEF wait, ExecFailed, Exited, is_open, PpidOK
  <2>3. CASE ppid[s] = n
    BY <2>1, <2>2, <2>3
  <2>4. CASE ppid[s] # n
    BY <1>0, <2>1, <2>2, <2>4 DEF ChildrenOK
  <2> QED
    BY <2>3, <2>4
<1>2. ASSUME NEW m \in Children, m # n,
             \/ Killed(m) \/ Exec(m) \/ ExecFails(m) \/ Exits(m)
             \/ \E s \in Streams : Fork(s) /\ call[s].n = m
      PROVE  Same
  <2>1. files'[n] = files[n]
    BY <1>0, <1>2 DEF Killed, Exec, ExecFails, Exits, Leaves, Fork
  <2>2. child'[n] = child[n]
    BY <1>0, <1>2 DEF Killed, Exec, ExecFails, Exits, Leaves, Fork, ChildrenOK
  <2> QED
    BY <2>1, <2>2
<1>3. ASSUME UNCHANGED child, files'[n] = files[n] PROVE Same
  BY <1>3
<1> HIDE DEF Same, Reaped
<1>4. ASSUME NEW s \in Streams, Opening(s)
      PROVE  Same \/ Reaped \/ (Fork(s) /\ call[s].n = n)
  <2>1. CASE Fork(s)
    <3>1. call[s].n \in Children
      BY <2>1 DEF Fork, At, OwnNumber, Starting, Before
    <3> QED
      BY <1>2, <2>1, <3>1
  <2>2. CASE ~Fork(s) /\ ~ExecFailed(s)
    <3>1. UNCHANGED child
      BY <1>4, <2>2
      DEF Opening, Proceeds, CkExecPipe, SetCloseOnExec, CkExecFails, Pipes, PipesFail, ForkFails, InParent,
          ExecSucceeded, ExecReported, OpenInterrupted, Fails
    <3>2. files' = files \/ \E fs : files' = [files EXCEPT ![Parent] = fs]
      BY <1>4, <2>2
      DEF Opening, Proceeds, CkExecPipe, SetCloseOnExec, CkExecFails, Pipes, PipesFail, ForkFails, InParent,
          ExecSucceeded, ExecReported, OpenInterrupted, Fails, CloseFds
    <3>3. files'[n] = files[n]
      BY <1>0, <3>2
    <3> QED
      BY <1>3, <3>1, <3>3
  <2> QED
    BY <1>1, <2>1, <2>2
<1>5. ASSUME NEW s \in Streams, Using(s)
      PROVE  Same \/ Reaped \/ (Idle(s) /\ ppid[s] = n /\ Killed(n))
  <2>1. CASE Reap(s) \/ peof(s) \/ \E next \in {"closing", "destroying"} : Close(s, next)
    BY <1>1, <2>1 DEF Reap, peof, Close
  <2>2. CASE kill(s) \/ killpg(s)
    <3>1. ppid[s] \in Children /\ Idle(s)
      BY <1>0, <2>2 DEF kill, killpg, is_open, PpidOK
    <3>2. Killed(ppid[s]) \/ UNCHANGED <<child, files>>
      BY <2>2 DEF kill, killpg
    <3> QED
      BY <1>2, <1>3, <3>1, <3>2
  <2>3. CASE \/ CallFails(s) \/ showmanyc(s)
             \/ \E mode \in Modes, argv \in BOOLEAN : Open(s, mode, argv)
             \/ \E in \in Blocking : WriteWaits(s, in)
    BY <1>3, <2>3 DEF CallFails, showmanyc, Open, Begin, WriteWaits
  <2> QED
    BY <1>5, <2>1, <2>2, <2>3 DEF Using, Blocking
<1>6. ASSUME NEW s \in Streams, CloseWaits(s) \/ WriteReturns(s) PROVE Same \/ Reaped
  <2>1. CASE CloseWaits(s)
    BY <1>1, <2>1 DEF CloseWaits
  <2>2. CASE WriteReturns(s)
    <3>1. UNCHANGED child /\ \E fds : ClosePipes(s, fds)
      BY <2>2 DEF WriteReturns, Wrote
    <3>2. files'[n] = files[n]
      BY <1>0, <3>1 DEF ClosePipes
    <3> QED
      BY <1>3, <3>1, <3>2
  <2> QED
    BY <1>6, <2>1, <2>2
<1>7. ASSUME NEW m \in Children, Exec(m) \/ ExecFails(m) \/ Exits(m)
      PROVE  Same \/ Exec(n) \/ ExecFails(n) \/ Exits(n)
  BY <1>2, <1>7
<1>8. ASSUME UNCHANGED vars PROVE Same
  BY <1>3, <1>8 DEF vars
<1>9. \/ Same \/ Reaped
      \/ \E s \in Streams : Fork(s) /\ call[s].n = n
      \/ \E s \in Streams : Idle(s) /\ ppid[s] = n /\ Killed(n)
      \/ Exec(n) \/ ExecFails(n) \/ Exits(n)
  BY <1>4, <1>5, <1>6, <1>7, <1>8 DEF Next
<1> QED
  BY <1>9 DEF Same, Reaped

(* What exec did is known from the moment the child has gone on.           *)
LEMMA LeavesHow ==
  ASSUME ChildrenOK, NEW n \in Children
  PROVE  /\ Exec(n) => /\ child[n].state = "forked" /\ child'[n].state = "running"
                       /\ child'[n].ran /\ (child'[n].wrote <=> child[n].wrote)
         /\ ExecFails(n) =>
              /\ child[n].state = "forked" /\ child'[n].state = "zombie"
              /\ child'[n].wrote <=> <<n, "ck_exec", "WR">> \in files[n]
              /\ child'[n].ran <=> child[n].ran
         /\ Exits(n) => /\ child[n].state = "running" /\ child'[n].state = "zombie"
                        /\ ~child'[n].wrote /\ (child'[n].ran <=> child[n].ran)
         /\ Killed(n) => /\ child[n].state \in {"forked", "running"} /\ child'[n].state = "zombie"
                         /\ child'[n].wrote <=> child[n].wrote
                         /\ child'[n].ran <=> child[n].ran
<1>2. ASSUME NEW wrote \in BOOLEAN, Leaves(n, wrote)
      PROVE  /\ child'[n].state = "zombie" /\ (child'[n].wrote <=> wrote)
             /\ child'[n].ran <=> child[n].ran
  BY <1>2, ChildLeaves DEF Leaves
<1>3. ExecFails(n) =>
        /\ child[n].state = "forked" /\ child'[n].state = "zombie"
        /\ child'[n].wrote <=> <<n, "ck_exec", "WR">> \in files[n]
        /\ child'[n].ran <=> child[n].ran
  <2> DEFINE b == <<n, "ck_exec", "WR">> \in files[n]
  <2>1. b \in BOOLEAN
    OBVIOUS
  <2>2. ExecFails(n) => child[n].state = "forked" /\ Leaves(n, b)
    BY DEF ExecFails
  <2> HIDE DEF b
  <2>3. ExecFails(n) => /\ child[n].state = "forked" /\ child'[n].state = "zombie"
                        /\ child'[n].wrote <=> b
                        /\ child'[n].ran <=> child[n].ran
    BY <1>2, <2>1, <2>2
  <2> QED
    BY <2>3 DEF b
<1>4. Exits(n) => /\ child[n].state = "running" /\ child'[n].state = "zombie"
                  /\ ~child'[n].wrote /\ (child'[n].ran <=> child[n].ran)
  BY <1>2 DEF Exits
<1>5. Killed(n) => /\ child[n].state \in {"forked", "running"} /\ child'[n].state = "zombie"
                   /\ child'[n].wrote <=> child[n].wrote
                   /\ child'[n].ran <=> child[n].ran
  <2>1. "zombie" \in States
    BY DEF States
  <2> QED
    BY <2>1, ChildGoes DEF Killed
<1>6. Exec(n) => /\ child[n].state = "forked" /\ child'[n].state = "running"
                 /\ child'[n].ran /\ (child'[n].wrote <=> child[n].wrote)
  BY ChildRuns DEF Exec
<1> QED
  BY <1>3, <1>4, <1>5, <1>6

LEMMA ForksHow ==
  ASSUME Shape, OwnNumber, NEW s \in Streams, Fork(s)
  PROVE  LET n == call[s].n
         IN /\ n \in Children /\ child'[n].state = "forked" /\ call[s].pc = "fork"
            /\ child'[n].wrote <=> child[n].wrote
            /\ child'[n].ran <=> child[n].ran
            /\ files'[n] = files[Parent]
<1> DEFINE n == call[s].n
<1>1. /\ n \in Children /\ call[s].pc = "fork"
      /\ child' = [child EXCEPT ![n] = [@ EXCEPT !.state = "forked",
                                                 !.newpg = "newpg" \in call[s].mode]]
  BY DEF Fork, At, OwnNumber, Starting, Before
<1>2. ("newpg" \in call[s].mode) \in BOOLEAN
  OBVIOUS
<1>3. files'[n] = files[Parent]
  BY <1>1 DEF Fork, Shape, FilesOK, Processes
<1> HIDE DEF n
<1>4. /\ child'[n].state = "forked"
      /\ child'[n].wrote <=> child[n].wrote
      /\ child'[n].ran <=> child[n].ran
  BY <1>1, <1>2, ChildForks DEF Shape
<1> QED
  BY <1>1, <1>3, <1>4 DEF n

LEMMA RanOrWroteStep ==
  ASSUME Shape, OwnNumber, Stage, RanOrWrote, [Next]_vars
  PROVE  RanOrWrote'
<1> SUFFICES ASSUME NEW n \in Children
             PROVE  /\ child'[n].state \in {"none", "forked"} =>
                         ~child'[n].wrote /\ ~child'[n].ran
                    /\ child'[n].state = "running" => child'[n].ran
                    /\ child'[n].wrote => ~child'[n].ran
  BY DEF RanOrWrote
<1>0. ChildrenOK
  BY DEF Shape
<1>1. CASE child'[n] = child[n]
  BY <1>1 DEF RanOrWrote
<1>2. CASE \E s \in Streams : Fork(s) /\ call[s].n = n
  <2>1. PICK s \in Streams : Fork(s) /\ call[s].n = n
    BY <1>2
  <2>2. /\ child'[n].state = "forked" /\ call[s].pc = "fork"
        /\ child'[n].wrote <=> child[n].wrote
        /\ child'[n].ran <=> child[n].ran
    BY <2>1, ForksHow
  <2>3. child[n].state = "none"
    BY <2>1, <2>2 DEF Stage, Before
  <2> QED
    BY <2>2, <2>3 DEF RanOrWrote
<1>3. CASE Killed(n)
  BY <1>0, <1>3, LeavesHow DEF RanOrWrote
<1>4. CASE child[n].state = "zombie" /\ child' = [child EXCEPT ![n].state = "reaped"]
  <2>1. "reaped" \in States
    BY DEF States
  <2>2. /\ child'[n].state = "reaped"
        /\ child'[n].wrote <=> child[n].wrote
        /\ child'[n].ran <=> child[n].ran
    BY <1>0, <1>4, <2>1, ChildGoes
  <2> QED
    BY <2>2 DEF RanOrWrote
<1>5. CASE Exec(n) \/ ExecFails(n) \/ Exits(n)
  BY <1>0, <1>5, LeavesHow DEF RanOrWrote
<1> QED
  BY <1>1, <1>2, <1>3, <1>4, <1>5, ChildStep

(* No other stream can kill a process whose open still reads.              *)
LEMMA ToldStays ==
  ASSUME Shape, OwnNumber, Stage, RanOrWrote, [Next]_vars, NEW n \in Children,
         child[n].state # "none", \A s \in Streams : Idle(s) => ppid[s] # n
  PROVE  (Told(n) => Told(n)') /\ (child[n].wrote => child'[n].wrote)
<1>0. ChildrenOK
  BY DEF Shape
<1>1. CASE child'[n] = child[n] /\ files'[n] = files[n]
  BY <1>1 DEF Told
<1>2. ~ \E s \in Streams : Fork(s) /\ call[s].n = n
  BY DEF Fork, At, Stage, Before
<1>4. CASE child[n].state = "zombie" /\ child' = [child EXCEPT ![n].state = "reaped"]
  <2>1. "reaped" \in States
    BY DEF States
  <2>2. /\ child'[n].state = "reaped"
        /\ child'[n].wrote <=> child[n].wrote
        /\ child'[n].ran <=> child[n].ran
    BY <1>0, <1>4, <2>1, ChildGoes
  <2> QED
    BY <1>4, <2>2 DEF Told
<1>5. CASE Exec(n)
  BY <1>0, <1>5, LeavesHow DEF Told
<1>6. CASE ExecFails(n)
  BY <1>0, <1>6, LeavesHow DEF Told, RanOrWrote
<1>7. CASE Exits(n)
  BY <1>0, <1>7, LeavesHow DEF Told, RanOrWrote
<1> QED
  BY <1>1, <1>2, <1>4, <1>5, <1>6, <1>7, ChildStep

(* Only its own thread changes where a call is.                            *)
LEMMA ActorOnly ==
  ASSUME CallsOK, [Next]_vars, NEW t \in Streams
  PROVE  call'[t] = call[t] \/ Using(t) \/ Opening(t) \/ WriteReturns(t) \/ CloseWaits(t)
<1>0. ASSUME NEW s \in Streams, NEW next \in ResetTo, Resets(s, next)
      PROVE  call'[t] = call[t] \/ s = t
  <2>1. ResetTo \subseteq Pcs
    BY DEF ResetTo, Blocking, Pcs
  <2> QED
    BY <1>0, <2>1, CallCloses DEF Resets
<1>1. ASSUME NEW s \in Streams, Using(s) PROVE call'[t] = call[t] \/ s = t
  <2>1. CASE \E mode \in Modes, argv \in BOOLEAN : Open(s, mode, argv)
    BY <2>1, CallBegins DEF Open
  <2>2. CASE \/ \E in \in Blocking : WriteWaits(s, in)
             \/ \E next \in {"closing", "destroying"} : Close(s, next)
    BY <1>0, <2>2, WriteResets
  <2>3. CASE UNCHANGED call
    BY <2>3
  <2> QED
    BY <1>1, <2>1, <2>2, <2>3 DEF Using, Blocking, Reap, peof, CallFails, showmanyc, kill, killpg
<1>2. ASSUME NEW s \in Streams, Opening(s) \/ CloseWaits(s) PROVE call'[t] = call[t] \/ s = t
  <2>1. \E pc : call' = [call EXCEPT ![s].pc = pc]
    BY <1>2
    DEF Opening, Proceeds, CkExecPipe, SetCloseOnExec, CkExecFails, Pipes, PipesFail, Fork, ForkFails,
        InParent, ExecSucceeded, ExecReported, ExecFailed, OpenInterrupted, Fails, CloseWaits, Goto
  <2> QED
    BY <2>1 DEF CallsOK
<1>3. ASSUME NEW n \in Children, Exec(n) \/ ExecFails(n) \/ Exits(n) PROVE call'[t] = call[t]
  BY <1>3 DEF Exec, ExecFails, Exits, Leaves
<1>4. CASE UNCHANGED vars
  BY <1>4 DEF vars
<1> QED
  BY <1>0, <1>1, <1>2, <1>3, <1>4, WriteResets DEF Next

LEMMA OutcomeStep ==
  ASSUME Shape, OwnNumber, Stage, Owned, DescriptorsKept, RanOrWrote, Outcome, [Next]_vars
  PROVE  Outcome'
<1> SUFFICES ASSUME NEW t \in Streams
             PROVE  /\ call'[t].pc \in {"parent", "read"} /\ call'[t].argv => ToldTo(t)'
                    /\ call'[t].pc = "wait" => child'[call'[t].n].wrote
  BY DEF Outcome
<1>0. /\ CallsOK /\ ChildrenOK
      /\ {"idle", "fcntl", "pipes", "parent", "fork", "read", "wait", "gone"} \subseteq Pcs
      /\ ResetTo \subseteq Pcs
  BY DEF Shape, Pcs, ResetTo, Blocking
(* A stream that was there before.                                         *)
<1>1. ASSUME call'[t].n = call[t].n,
             call'[t].pc = "wait" => call[t].pc = "wait",
             call'[t].pc \in {"parent", "read"} /\ call'[t].argv =>
               call[t].pc \in {"parent", "read"} /\ call[t].argv
      PROVE  /\ call'[t].pc \in {"parent", "read"} /\ call'[t].argv => ToldTo(t)'
             /\ call'[t].pc = "wait" => child'[call'[t].n].wrote
  <2>1. CASE call[t].pc \in {"parent", "read", "wait"}
    <3>1. PICK n \in Children : n = call[t].n
      BY <2>1 DEF OwnNumber, Starting, After
    <3>2. Owns(t, n)
      BY <2>1, <3>1 DEF Owns, At, Stage, After
    <3>3. child[n].state # "none"
      BY <3>2 DEF Owned
    <3>4. \A s \in Streams : Idle(s) => ppid[s] # n
      BY <2>1, <3>2 DEF Owned, Owns, Idle
    <3>5. (Told(n) => Told(n)') /\ (child[n].wrote => child'[n].wrote)
      BY <3>3, <3>4, ToldStays
    <3>6. (ToldTo(t) <=> Told(n)) /\ (ToldTo(t)' <=> Told(n)')
      BY <1>1, <3>1 DEF ToldTo, Told
    <3>7. ASSUME call'[t].pc \in {"parent", "read"}, call'[t].argv PROVE ToldTo(t)'
      <4>1. ToldTo(t)
        BY <1>1, <3>7 DEF Outcome
      <4> QED
        BY <3>5, <3>6, <4>1
    <3>8. ASSUME call'[t].pc = "wait" PROVE child'[call'[t].n].wrote
      <4>1. child[n].wrote
        BY <1>1, <3>1, <3>8 DEF Outcome
      <4> QED
        BY <1>1, <3>1, <3>5, <4>1
    <3> QED
      BY <3>7, <3>8
  <2>2. CASE call[t].pc \notin {"parent", "read", "wait"}
    BY <1>1, <2>2
  <2> QED
    BY <2>1, <2>2
<1>2. ASSUME call'[t].pc \notin {"parent", "read", "wait"}
      PROVE  /\ call'[t].pc \in {"parent", "read"} /\ call'[t].argv => ToldTo(t)'
             /\ call'[t].pc = "wait" => child'[call'[t].n].wrote
  BY <1>2
<1>3. CASE call'[t] = call[t]
  BY <1>1, <1>3
<1>4. ASSUME NEW next \in ResetTo, Resets(t, next)
       PROVE  /\ call'[t].pc \in {"parent", "read"} /\ call'[t].argv => ToldTo(t)'
              /\ call'[t].pc = "wait" => child'[call'[t].n].wrote
  <2>1. call'[t].pc = next
    BY <1>0, <1>4, CallCloses DEF Resets
  <2> QED
    BY <1>2, <1>4, <2>1 DEF ResetTo, Blocking
<1>5. CASE Using(t)
  <2>1. CASE \E mode \in Modes, argv \in BOOLEAN : Open(t, mode, argv)
    <3>1. call'[t].pc \in {"ck_exec", "pipes"}
      BY <1>0, <2>1, CallBegins DEF Open
    <3> QED
      BY <1>2, <3>1
  <2>2. CASE \/ \E in \in Blocking : WriteWaits(t, in)
             \/ \E next \in {"closing", "destroying"} : Close(t, next)
    BY <1>4, <2>2, WriteResets
  <2>3. CASE UNCHANGED call
    BY <1>3, <2>3
  <2> QED
    BY <1>5, <2>1, <2>2, <2>3 DEF Using, Blocking, Reap, peof, CallFails, showmanyc, kill, killpg
<1>6. ASSUME NEW next \in {"idle", "fcntl", "pipes", "fork", "gone"}, Goto(t, next)
      PROVE  /\ call'[t].pc \in {"parent", "read"} /\ call'[t].argv => ToldTo(t)'
             /\ call'[t].pc = "wait" => child'[call'[t].n].wrote
  <2>1. call'[t].pc = next
    BY <1>0, <1>6 DEF Goto, CallsOK
  <2> QED
    BY <1>2, <2>1
<1>7. CASE CloseWaits(t)
  BY <1>6, <1>7 DEF CloseWaits
<1>8. CASE Fork(t)
  <2>1. /\ call'[t].pc = "parent" /\ call'[t].n = call[t].n
        /\ call'[t].argv <=> call[t].argv
    BY <1>0, <1>8, CallGoes DEF Fork, Goto
  <2>2. PICK n \in Children : /\ n = call[t].n /\ child'[n].state = "forked"
                             /\ call[t].pc = "fork" /\ files'[n] = files[Parent]
    BY <1>8, ForksHow
  <2>3. ASSUME call'[t].argv PROVE ToldTo(t)'
    <3>1. CkWrite(t) \in Ck(t)
      BY <2>1, <2>3 DEF Ck, CkWrite, CkExec, Ends
    <3>2. CkWrite(t) \in files[Parent]
      <4>1. CkWrite(t) \in Local(t)
        BY <2>2, <3>1, LocalIs
      <4>2. Local(t) \subseteq files[Parent]
        BY DEF DescriptorsKept, InUse
      <4> QED
        BY <4>1, <4>2
    <3>3. <<n, "ck_exec", "WR">> \in files'[n]
      BY <2>2, <3>2 DEF CkWrite
    <3>4. Told(n)'
      BY <2>2, <3>3 DEF Told
    <3> QED
      BY <2>1, <2>2, <3>4 DEF ToldTo, Told
  <2> QED
    BY <2>1, <2>3
<1>9. CASE InParent(t)
  <2>1. PICK next \in {"read", "idle"} : Goto(t, next)
    BY <1>9 DEF InParent
  <2>2. /\ call'[t].pc = next /\ call'[t].n = call[t].n
        /\ call'[t].argv <=> call[t].argv
    BY <1>0, <2>1, CallGoes DEF Goto
  <2>3. call[t].pc = "parent"
    BY <1>9 DEF InParent, At
  <2> QED
    BY <1>1, <2>2, <2>3
<1>10. CASE ExecReported(t)
  <2>1. /\ call'[t].pc = "wait" /\ call'[t].n = call[t].n
    BY <1>0, <1>10, CallGoes DEF ExecReported, Goto
  <2>2. child'[call'[t].n].wrote
    BY <1>10, <2>1 DEF ExecReported
  <2> QED
    BY <2>1, <2>2
<1>11. CASE Opening(t)
  BY <1>6, <1>8, <1>9, <1>10, <1>11
  DEF Opening, Proceeds, CkExecPipe, SetCloseOnExec, CkExecFails, Pipes, PipesFail, ForkFails,
      ExecSucceeded, ExecFailed, OpenInterrupted, Fails
<1> QED
  BY <1>0, <1>3, <1>5, <1>7, <1>11, <1>4, ActorOnly, WriteResets

(* A stream that is being closed has neither pipes nor an error.           *)
LEMMA CloseBegins ==
  ASSUME CallsOK, [Next]_vars, NEW t \in Streams, Closing(t)'
  PROVE  \/ \E next \in {"closing", "destroying"} : Close(t, next) \/ Wrote(t, pipes[t], next)
         \/ call'[t] = call[t]
<1>1. ASSUME NEW next \in {"idle", "fcntl", "pipes", "fork", "gone", "parent", "read", "wait"},
             Goto(t, next)
      PROVE  FALSE
  <2>1. call'[t].pc = next
    BY <1>1 DEF Goto, CallsOK
  <2> QED
    BY <2>1 DEF Closing, At
<1>2. ~Opening(t)
  BY <1>1
  DEF Opening, Proceeds, CkExecPipe, SetCloseOnExec, CkExecFails, Pipes, PipesFail, Fork, ForkFails,
      InParent, ExecSucceeded, ExecReported, ExecFailed, OpenInterrupted, Fails
<1>3. ~CloseWaits(t)
  BY <1>1 DEF CloseWaits
<1>4. ~ \E mode \in Modes, argv \in BOOLEAN : Open(t, mode, argv)
  <2> SUFFICES ASSUME NEW mode \in Modes, NEW argv \in BOOLEAN, Open(t, mode, argv) PROVE FALSE
    OBVIOUS
  <2>1. call'[t].pc \in {"ck_exec", "pipes"}
    BY CallBegins DEF Open
  <2> QED
    BY <2>1 DEF Closing, At
<1>5. ASSUME NEW next \in {"idle"} \cup Blocking,
             call' = [call EXCEPT ![t] = [NoCall EXCEPT !.pc = next]]
      PROVE  FALSE
  <2>1. call'[t].pc = next
    BY <1>5, CallCloses DEF Pcs, Blocking
  <2> QED
    BY <1>5, <2>1 DEF Closing, At, Blocking
<1>6. CASE Using(t)
  <2>1. ~ \E in \in Blocking : WriteWaits(t, in)
    BY <1>5 DEF WriteWaits
  <2> QED
    BY <1>4, <1>6, <2>1 DEF Using, Blocking, Reap, peof, CallFails, showmanyc, kill, killpg
<1>7. CASE WriteReturns(t)
  <2>1. PICK fds, next : /\ Wrote(t, fds, next)
                         /\ \/ next = "idle"
                            \/ next \in {"closing", "destroying"} /\ fds = pipes[t]
    BY <1>7, WriteEnds
  <2>2. next # "idle"
    BY <1>5, <2>1 DEF Wrote
  <2> QED
    BY <2>1, <2>2
<1> QED
  BY <1>2, <1>3, <1>6, <1>7, ActorOnly

LEMMA ClosingStep ==
  ASSUME Shape, ClosingClean, [Next]_vars
  PROVE  ClosingClean'
<1> SUFFICES ASSUME NEW t \in Streams, Closing(t)' PROVE pipes'[t] = {} /\ t \notin error'
  BY DEF ClosingClean
<1>0. CallsOK /\ pipes \in [Streams -> SUBSET AnyEnd]
  BY DEF Shape, PipesOK
<1>1. ASSUME NEW next \in {"closing", "destroying"}, Close(t, next) \/ Wrote(t, pipes[t], next)
      PROVE  pipes'[t] = {} /\ t \notin error'
  <2>1. PICK W : pipes[t] \subseteq W /\ pipes' = [pipes EXCEPT ![t] = pipes[t] \ W]
    BY <1>1 DEF Close, Wrote, wait, ClosePipes
  <2>2. error' = error \ {t}
    BY <1>1 DEF Close, Wrote
  <2> QED
    BY <1>0, <2>1, <2>2
<1>2. CASE call'[t] = call[t]
  <2>1. Closing(t) /\ pipes[t] = {} /\ t \notin error
    BY <1>2 DEF Closing, At, ClosingClean
  <2>2. ~InParent(t)
    BY <2>1 DEF InParent, Closing, At
  <2>3. pipes'[t] = {}
    <3>1. CASE \E s \in Streams : InParent(s)
      BY <1>0, <2>1, <2>2, <3>1 DEF InParent
    <3>2. CASE ~ \E s \in Streams : InParent(s)
      BY <2>1, <3>2, PipesStep
    <3> QED
      BY <3>1, <3>2
  <2>4. t \notin error'
    <3>1. ~Opening(t)
      BY <2>1
      DEF Opening, Proceeds, CkExecPipe, SetCloseOnExec, CkExecFails, Pipes, PipesFail, Fork, ForkFails,
          InParent, ExecSucceeded, ExecReported, ExecFailed, OpenInterrupted, At, Closing
    <3>2. ~Using(t)
      BY <2>1 DEF Using, WriteWaits, Open, Begin, Reap, peof, CallFails, showmanyc, kill, killpg,
                  Close, Idle, Closing, At
    <3>3. ASSUME NEW s \in Streams, Using(s) \/ Opening(s) \/ WriteReturns(s)
          PROVE  error' \subseteq error \cup {s}
      BY <3>3
      DEF Using, Opening, Proceeds, WriteWaits, WriteReturns, Wrote, Open, Begin, Reap, peof, CallFails, showmanyc, kill, killpg,
          Close, CkExecPipe, SetCloseOnExec, CkExecFails, Pipes, PipesFail, Fork, ForkFails,
          InParent, ExecSucceeded, ExecReported, ExecFailed, OpenInterrupted, Fails
    <3>4. ASSUME NEW s \in Streams, CloseWaits(s) PROVE error' = error
      BY <3>4 DEF CloseWaits
    <3>5. ASSUME NEW n \in Children, Exec(n) \/ ExecFails(n) \/ Exits(n) PROVE error' = error
      BY <3>5 DEF Exec, ExecFails, Exits, Leaves
    <3>6. ~WriteReturns(t)
      BY <2>1 DEF WriteReturns, Closing, At
    <3>7. CASE UNCHANGED vars
      BY <2>1, <3>7 DEF vars
    <3> QED
      BY <2>1, <3>1, <3>2, <3>3, <3>4, <3>5, <3>6, <3>7 DEF Next
  <2> QED
    BY <2>3, <2>4
<1> QED
  BY <1>0, <1>1, <1>2, CloseBegins

-----------------------------------------------------------------------------
LEMMA InvInit == Init => PstreamInv
<1> SUFFICES ASSUME Init PROVE PstreamInv
  OBVIOUS
<1>1. Shape
  <2>1. NoCall \in CallRecord /\ opens \in 0 .. MaxOpens
    <3>1. 0 \in 0 .. MaxOpens /\ {} \in Mode /\ "idle" \in Pcs
      BY PstreamAssumption DEF Mode, Pcs
    <3> QED
      BY <3>1 DEF NoCall, CallRecord, Init
  <2>2. NoChild \in ChildRecord
    BY DEF NoChild, ChildRecord, States
  <2>3. CallsOK /\ ChildrenOK
    BY <2>1, <2>2 DEF CallsOK, ChildrenOK, Init
  <2>4. PpidOK /\ PipesOK /\ FilesOK /\ SetsOK
    BY DEF Init, PpidOK, PipesOK, FilesOK, SetsOK
  <2> QED
    BY <2>3, <2>4 DEF Shape
<1>2. \A s \in Streams : call[s].pc = "idle" /\ call[s].n = 0 /\ ppid[s] = -1 /\ pipes[s] = {}
  BY DEF Init, NoCall
<1>3. \A n \in Children : child[n].state = "none" /\ ~child[n].wrote /\ ~child[n].ran
  BY DEF Init, NoChild
<1>4. OwnNumber /\ Stage
  BY <1>2, <1>3 DEF Init, OwnNumber, Stage, Starting, Before, After
<1>5. Owned
  <2>1. \A s \in Streams, n \in Children : ~Owns(s, n)
    BY <1>2 DEF Owns, At, Children
  <2> QED
    BY <1>3, <2>1 DEF Owned
<1>6. OwnPipes /\ FlagsOK
  BY <1>2 DEF OwnPipes, FlagsOK, Init
<1>7. DescriptorsKept
  <2>1. \A s \in Streams : Local(s) = {}
    BY <1>2, LocalIs
  <2>2. InUse = {}
    BY <1>2, <2>1 DEF InUse
  <2>3. files[Parent] = {}
    BY DEF Init, Processes
  <2> QED
    BY <2>2, <2>3 DEF DescriptorsKept
<1>8. RanOrWrote
  BY <1>3 DEF RanOrWrote
<1>9. Outcome /\ ClosingClean
  BY <1>2 DEF Outcome, ClosingClean, Closing, At
<1> QED
  BY <1>1, <1>4, <1>5, <1>6, <1>7, <1>8, <1>9 DEF PstreamInv

LEMMA InvStep == PstreamInv /\ [Next]_vars => PstreamInv'
<1> SUFFICES ASSUME PstreamInv, [Next]_vars PROVE PstreamInv'
  OBVIOUS
<1>1. /\ Shape /\ OwnNumber /\ Stage /\ Owned /\ OwnPipes /\ FlagsOK /\ DescriptorsKept
      /\ RanOrWrote /\ Outcome /\ ClosingClean
  BY DEF PstreamInv
<1>2. CallsOK' /\ OwnNumber'
  BY <1>1, CallsStep
<1>3. ChildrenOK' /\ PpidOK'
  BY <1>1, ChildrenStep
<1>4. Stage' /\ Owned'
  BY <1>1, OwnedStep
<1>5. PipesOK' /\ OwnPipes' /\ SetsOK'
  BY <1>1, OwnPipesStep
<1>6. FilesOK' /\ FlagsOK'
  BY <1>1, FlagsStep
<1>7. DescriptorsKept'
  BY <1>1, DescriptorsStep
<1>8. RanOrWrote'
  BY <1>1, RanOrWroteStep
<1>9. Outcome'
  BY <1>1, OutcomeStep
<1>10. ClosingClean'
  BY <1>1, ClosingStep
<1> QED
  BY <1>2, <1>3, <1>4, <1>5, <1>6, <1>7, <1>8, <1>9, <1>10 DEF PstreamInv, Shape

(* The invariant all results of this module rest on.                       *)
THEOREM StreamsConsistent == Spec => []PstreamInv
  BY InvInit, InvStep, PTL DEF Spec

(* Every variable has the values TypeOK lists, and a descriptor is only    *)
(* marked to be closed on exec while it is open.                           *)
THEOREM TypeCorrect == Spec => []TypeOK
<1>1. PstreamInv => TypeOK
  <2> SUFFICES ASSUME PstreamInv PROVE TypeOK
    OBVIOUS
  <2>1. Shape /\ FlagsOK
    BY DEF PstreamInv
  <2>2. pipes \in [Streams -> SUBSET UNION {ParentSide(n) : n \in Children}]
    <3>1. \A e \in AnyEnd : e[1] \in Children
      BY DEF AnyEnd
    <3>2. \A s \in Streams : pipes[s] \subseteq UNION {ParentSide(n) : n \in Children}
      BY <2>1, <3>1 DEF Shape, PipesOK
    <3> QED
      BY <2>1, <3>2 DEF Shape, PipesOK
  <2>3. \A s \in Streams : call[s].pc \in Pcs
    BY <2>1 DEF Shape, CallsOK, CallRecord
  <2>4. \A n \in Children : child[n].state \in States
    BY <2>1 DEF Shape, ChildrenOK, ChildRecord
  <2>5. /\ ppid \in [Streams -> {-1, 0} \cup Children] /\ opens \in 0 .. MaxOpens
        /\ error \subseteq Streams /\ leaky \subseteq Streams
    BY <2>1 DEF Shape, PpidOK, CallsOK, SetsOK
  <2>6. \A p \in Processes : onExec[p] \subseteq files[p]
    BY <2>1 DEF FlagsOK
  <2> QED
    BY <2>2, <2>3, <2>4, <2>5, <2>6 DEF TypeOK, Pcs, States
<1> QED
  BY <1>1, StreamsConsistent, PTL

(* On every path through open, peof, wait and close the program closes     *)
(* what it opened, and only that, and without a second open before a close *)
(* it loses no descriptor.                                                 *)
THEOREM NoDescriptorLost == Spec => []DescriptorsKept
<1>1. PstreamInv => DescriptorsKept
  BY DEF PstreamInv
<1> QED
  BY <1>1, StreamsConsistent, PTL

(* Every started process belongs to exactly one stream until its status    *)
(* was collected, and to none after that.                                  *)
THEOREM EveryChildOwned == Spec => []ChildrenOwned
<1>1. PstreamInv => ChildrenOwned
  BY DEF PstreamInv, Owned, ChildrenOwned
<1> QED
  BY <1>1, StreamsConsistent, PTL

(* When close returns the stream has no process, no pipes and no error.    *)
THEOREM CloseRenews == Spec => ClosedIsFresh
<1>1. ASSUME PstreamInv, [Next]_vars, NEW s \in Streams, Closing(s), ~Closing(s)'
      PROVE  ppid'[s] <= 0 /\ pipes'[s] = {} /\ s \notin error'
  <2>1. /\ CallsOK /\ ppid \in [Streams -> {-1, 0} \cup Children]
        /\ pipes \in [Streams -> SUBSET AnyEnd] /\ pipes[s] = {} /\ s \notin error
    BY <1>1 DEF PstreamInv, Shape, PpidOK, PipesOK, ClosingClean
  <2>2. CloseWaits(s)
    <3>1. ~Opening(s)
      BY <1>1
      DEF Opening, Proceeds, CkExecPipe, SetCloseOnExec, CkExecFails, Pipes, PipesFail, Fork, ForkFails,
          InParent, ExecSucceeded, ExecReported, ExecFailed, OpenInterrupted, At, Closing
    <3>2. ~Using(s)
      BY <1>1 DEF Using, WriteWaits, Open, Begin, Reap, peof, CallFails, showmanyc, kill, killpg,
                  Close, Idle, Closing, At
    <3>3. call'[s] # call[s] /\ ~WriteReturns(s)
      BY <1>1 DEF Closing, At, WriteReturns
    <3> QED
      BY <1>1, <2>1, <3>1, <3>2, <3>3, ActorOnly
  <2>3. /\ is_open(s) => Exited(s)
        /\ ppid' = IF Exited(s) THEN [ppid EXCEPT ![s] = 0] ELSE ppid
        /\ error' = error
        /\ \E W : pipes' = [pipes EXCEPT ![s] = pipes[s] \ W]
    BY <2>2 DEF CloseWaits, wait, ClosePipes
  <2>4. ppid'[s] <= 0
    BY <2>1, <2>3 DEF is_open, Children
  <2> QED
    BY <2>1, <2>3, <2>4
<1>2. PstreamInv /\ [Next]_vars =>
        [\A s \in Streams : Closing(s) /\ ~Closing(s)' =>
           ppid'[s] <= 0 /\ pipes'[s] = {} /\ s \notin error']_vars
  BY <1>1
<1> QED
  BY <1>2, StreamsConsistent, PTL DEF Spec, ClosedIsFresh

(* When open of a file returns without having been interrupted, is_open    *)
(* tells whether the file is executed.                                     *)
THEOREM OpenKnowsExec == Spec => OpenTellsExec
<1>1. ASSUME PstreamInv, [Next]_vars, NEW s \in Streams, call[s].pc \in {"read", "wait"}, Idle(s)',
             ~OpenInterrupted(s)
      PROVE  ppid'[s] > 0 <=> child[call[s].n].ran
  <2> DEFINE n == call[s].n
  <2>1. /\ CallsOK /\ ppid \in [Streams -> {-1, 0} \cup Children] /\ RanOrWrote
        /\ call[s].argv /\ n \in Children /\ ppid[s] = n
    <3>1. CallsOK /\ ppid \in [Streams -> {-1, 0} \cup Children] /\ RanOrWrote
      BY <1>1 DEF PstreamInv, Shape, PpidOK
    <3>2. call[s].argv
      BY <1>1 DEF PstreamInv, OwnNumber, After
    <3>3. n \in Children /\ ppid[s] = n
      BY <1>1 DEF PstreamInv, OwnNumber, Stage, After
    <3> QED
      BY <3>1, <3>2, <3>3
  <2>2. n \in Nat /\ n > 0
    BY <2>1 DEF Children
  <2>3. ExecSucceeded(s) \/ ExecFailed(s)
    <3>1. ~Using(s) /\ ~CloseWaits(s) /\ ~WriteReturns(s)
      BY <1>1 DEF Using, WriteWaits, Open, Begin, Reap, peof, CallFails, showmanyc, kill, killpg,
                  Close, Idle, CloseWaits, WriteReturns, Closing, At
    <3>2. call'[s] # call[s]
      BY <1>1 DEF Idle
    <3>3. Opening(s)
      BY <1>1, <2>1, <3>1, <3>2, ActorOnly
    <3>4. ~ExecReported(s)
      <4> SUFFICES ASSUME ExecReported(s) PROVE FALSE
        OBVIOUS
      <4>1. "wait" \in Pcs
        BY DEF Pcs
      <4>2. call'[s].pc = "wait"
        BY <2>1, <4>1, CallGoes DEF ExecReported, Goto
      <4> QED
        BY <1>1, <4>2 DEF Idle
    <3> QED
      BY <1>1, <3>3, <3>4
      DEF Opening, Proceeds, CkExecPipe, SetCloseOnExec, CkExecFails, Pipes, PipesFail, Fork, ForkFails,
          InParent, At
  <2>4. CASE ExecSucceeded(s)
    <3>1. /\ call[s].pc = "read" /\ ppid' = ppid /\ ~child[n].wrote
          /\ \A p \in Processes : <<n, "ck_exec", "WR">> \notin files[p]
      BY <2>4 DEF ExecSucceeded, At
    <3>2. Told(n)
      BY <1>1, <2>1, <3>1 DEF PstreamInv, Outcome, ToldTo
    <3>3. child[n].ran
      BY <2>1, <3>1, <3>2 DEF Told, Processes
    <3> QED
      BY <2>1, <2>2, <3>1, <3>3
  <2>5. CASE ExecFailed(s)
    <3>1. call[s].pc = "wait" /\ ppid' = [ppid EXCEPT ![s] = 0]
      BY <2>5 DEF ExecFailed, At
    <3>2. child[n].wrote
      BY <1>1, <3>1 DEF PstreamInv, Outcome
    <3>3. ~child[n].ran
      BY <2>1, <3>2 DEF RanOrWrote
    <3> QED
      BY <2>1, <3>1, <3>3
  <2> QED
    BY <2>3, <2>4, <2>5
<1>2. PstreamInv /\ [Next]_vars =>
        [\A s \in Streams :
           call[s].pc \in {"read", "wait"} /\ Idle(s)' /\ ~OpenInterrupted(s)
             => (ppid'[s] > 0 <=> child[call[s].n].ran)]_vars
  BY <1>1
<1> QED
  BY <1>2, StreamsConsistent, PTL DEF Spec, OpenTellsExec
=============================================================================
