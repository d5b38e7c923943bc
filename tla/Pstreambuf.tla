----------------------------- MODULE Pstreambuf -----------------------------
(***************************************************************************)
(* Processes and descriptors of pstream.h: how the buffers of streams      *)
(* (basic_pstreambuf) start processes, keep the pipes to them, and wait    *)
(* for them.  Their memory and the characters that pass through it are in  *)
(* PstreamData.                                                            *)
(*                                                                         *)
(* Every stream is used by one thread of this program, and one thread may  *)
(* fork between any two steps of another.  The n-th process that is        *)
(* started has the name n; an end of one of its pipes is a triple of       *)
(* process, purpose and side.                                              *)
(***************************************************************************)
EXTENDS Integers, FiniteSets

CONSTANTS
  Streams,   \* the stream objects
  Modes,     \* the modes open is called with
  MaxOpens   \* bound: how many processes are started

Sources == {"pstdout", "pstderr"}
Standard == {"pstdin"} \cup Sources

ASSUME PstreamAssumption ==
  /\ Modes \subseteq SUBSET (Standard \cup {"newpg"})
  /\ MaxOpens \in Nat

VARIABLES
  ppid,     \* of every stream: ppid_, -1 when it has never been open
  pipes,    \* wpipe_ and rpipe_: the ends it keeps
  error,    \* is error_ set?
  call,     \* where its thread is in open or close, or in a write
  opens,    \* how many processes were to be started
  child,    \* what became of each of them
  files,    \* the pipe ends each process has open
  onExec,   \* those of them with FD_CLOEXEC
  leaky     \* history: the streams that were opened again before they were closed

vars == <<ppid, pipes, error, call, opens, child, files, onExec, leaky>>

-----------------------------------------------------------------------------
Parent == 0
Children == 1 .. MaxOpens
Processes == {Parent} \cup Children

Ends(n, roles) == {n} \X roles \X {"RD", "WR"}
CkExec(n) == Ends(n, {"ck_exec"})

(* What the child uses of its pipes; the other side is this program's.     *)
ChildSide(n) == {<<n, "pstdin", "RD">>, <<n, "pstdout", "WR">>, <<n, "pstderr", "WR">>}
ParentSide(n) == {<<n, "pstdin", "WR">>, <<n, "pstdout", "RD">>, <<n, "pstderr", "RD">>}

Writing == {e \in UNION {ParentSide(n) : n \in Children} : e[2] = "pstdin"}

NoCall == [pc |-> "idle", n |-> 0, mode |-> {}, argv |-> FALSE]
NoChild == [state |-> "none", newpg |-> FALSE, leader |-> FALSE, wrote |-> FALSE, ran |-> FALSE,
            stays |-> FALSE]

is_open(s) == ppid[s] > 0
Idle(s) == call[s].pc = "idle"
At(s, pc) == call[s].pc = pc
Goto(s, pc) == call' = [call EXCEPT ![s].pc = pc]

(* Would waitpid find the stream's process exited?                         *)
Exited(s) == is_open(s) /\ child[ppid[s]].state = "zombie"

(* The program closes these descriptors.                                   *)
CloseFds(fds) ==
  /\ files' = [files EXCEPT ![Parent] = @ \ fds]
  /\ onExec' = [onExec EXCEPT ![Parent] = @ \ fds]

(* The stream closes these of its pipes.                                   *)
ClosePipes(s, fds) ==
  /\ pipes' = [pipes EXCEPT ![s] = @ \ fds]
  /\ files' = [files EXCEPT ![Parent] = @ \ (pipes[s] \cap fds)]

(* What wait() does about process and pipe when it is asked without        *)
(* waiting, by exited() and sync(), or finds the process exited: ppid_ is  *)
(* 0 from then on, and the write pipe closed.                              *)
KeepsPid(s, fds) ==
  /\ ppid' = ppid
  /\ child' = IF Exited(s) THEN [child EXCEPT ![ppid[s]].state = "reaped"] ELSE child
  /\ ClosePipes(s, IF Exited(s) THEN fds \cup Writing ELSE fds)

wait(s, fds) ==
  /\ ppid' = IF Exited(s) THEN [ppid EXCEPT ![s] = 0] ELSE ppid
  /\ child' = IF Exited(s) THEN [child EXCEPT ![ppid[s]].state = "reaped"] ELSE child
  /\ ClosePipes(s, IF Exited(s) THEN fds \cup Writing ELSE fds)

-----------------------------------------------------------------------------
(* open: an open stream refuses; otherwise with argv the pipe on which the *)
(* child reports that exec failed comes first, then those of fork().       *)

Begin(s, mode, argv) ==
  /\ Idle(s) /\ opens < MaxOpens
  /\ opens' = opens + 1
  /\ call' = [call EXCEPT ![s] = [pc |-> IF argv THEN "ck_exec" ELSE "pipes", n |-> opens + 1,
                                  mode |-> mode, argv |-> argv]]
  /\ leaky' = IF pipes[s] = {} THEN leaky ELSE leaky \cup {s}
  /\ UNCHANGED <<ppid, pipes, error, child, files, onExec>>

Open(s, mode, argv) == ~is_open(s) /\ Begin(s, mode, argv)

(* open returns NULL with error_ set, having closed these.                 *)
Fails(s, fds) ==
  /\ error' = error \cup {s}
  /\ CloseFds(fds)
  /\ Goto(s, "idle")
  /\ UNCHANGED <<ppid, pipes, opens, child, leaky>>

CkExecPipe(s) ==
  /\ At(s, "ck_exec")
  /\ files' = [files EXCEPT ![Parent] = @ \cup CkExec(call[s].n)]
  /\ Goto(s, "fcntl")
  /\ UNCHANGED <<ppid, pipes, error, opens, child, onExec, leaky>>

FlagsTooEarly(s) ==
  /\ At(s, "ck_exec")
  /\ onExec' = [onExec EXCEPT ![Parent] = @ \cup CkExec(call[s].n)]
  /\ Goto(s, "pipes")
  /\ UNCHANGED <<ppid, pipes, error, opens, child, files, leaky>>

(* The flag is set when another thread may already have forked.            *)
SetCloseOnExec(s) ==
  /\ At(s, "fcntl")
  /\ onExec' = [onExec EXCEPT ![Parent] = @ \cup CkExec(call[s].n)]
  /\ Goto(s, "pipes")
  /\ UNCHANGED <<ppid, pipes, error, opens, child, files, leaky>>

CkExecFails(s) ==
  /\ At(s, "ck_exec") \/ At(s, "fcntl")
  /\ Fails(s, CkExec(call[s].n))

(* fork() makes no pipe if an error is left over from before.              *)
Pipes(s) ==
  /\ At(s, "pipes") /\ s \notin error
  /\ files' = [files EXCEPT ![Parent] = @ \cup Ends(call[s].n, call[s].mode \cap Standard)]
  /\ Goto(s, "fork")
  /\ UNCHANGED <<ppid, pipes, error, opens, child, onExec, leaky>>

PipesFail(s) == At(s, "pipes") /\ Fails(s, CkExec(call[s].n))

Fork(s) ==
  /\ At(s, "fork")
  /\ child' = [child EXCEPT ![call[s].n] = [@ EXCEPT !.state = "forked",
                                                     !.newpg = "newpg" \in call[s].mode]]
  /\ files' = [files EXCEPT ![call[s].n] = files[Parent]]
  /\ onExec' = [onExec EXCEPT ![call[s].n] = onExec[Parent]]
  /\ Goto(s, "parent")
  /\ UNCHANGED <<ppid, pipes, error, opens, leaky>>

LeavesPipes(s) == At(s, "fork") /\ Fails(s, CkExec(call[s].n))

ForkFails(s) ==
  /\ At(s, "fork")
  /\ Fails(s, Ends(call[s].n, Standard) \cup CkExec(call[s].n))

(* The parent's side of the pipes is kept, in the place of whatever was    *)
(* there, and the child's closed.  With a shell that is all.               *)
InParent(s) ==
  /\ At(s, "parent")
  /\ LET c == call[s]
     IN /\ ppid' = [ppid EXCEPT ![s] = c.n]
        /\ pipes' = [pipes EXCEPT ![s] = {e \in @ : e[2] \notin c.mode}
                                           \cup {e \in ParentSide(c.n) : e[2] \in c.mode}]
        /\ CloseFds(ChildSide(c.n) \cup {<<c.n, "ck_exec", "WR">>})
        /\ Goto(s, IF c.argv THEN "read" ELSE "idle")
  /\ UNCHANGED <<error, opens, child, leaky>>

(* The read from ck_exec ends with what the child wrote, with end of file  *)
(* when nobody can write to it any more, or with a signal.                 *)
ExecSucceeded(s) ==
  /\ At(s, "read") /\ ~child[call[s].n].wrote
  /\ \A p \in Processes : <<call[s].n, "ck_exec", "WR">> \notin files[p]
  /\ CloseFds(CkExec(call[s].n))
  /\ Goto(s, "idle")
  /\ UNCHANGED <<ppid, pipes, error, opens, child, leaky>>

(* The error is in error_; wait() collects the child's status.             *)
ExecReported(s) ==
  /\ At(s, "read") /\ child[call[s].n].wrote
  /\ error' = error \cup {s}
  /\ Goto(s, "wait")
  /\ UNCHANGED <<ppid, pipes, opens, child, files, onExec, leaky>>

ExecFailed(s) ==
  /\ At(s, "wait") /\ Exited(s)
  /\ ppid' = [ppid EXCEPT ![s] = 0]
  /\ child' = [child EXCEPT ![ppid[s]].state = "reaped"]
  /\ pipes' = [pipes EXCEPT ![s] = @ \ Writing]
  /\ CloseFds(CkExec(call[s].n) \cup (pipes[s] \cap Writing))
  /\ Goto(s, "idle")
  /\ UNCHANGED <<error, opens, leaky>>

(* A signal ends the read, or the wait() after it.                         *)
OpenInterrupted(s) ==
  /\ At(s, "read") \/ At(s, "wait")
  /\ Fails(s, CkExec(call[s].n))

-----------------------------------------------------------------------------
(* The other calls of a stream that is not being opened or closed.  What   *)
(* waitpid finds no child for is left out: the program does not ignore     *)
(* SIGCHLD, and only its streams collect its children.                     *)

(* exited() and sync(), when the process has exited.                       *)
Reap(s) ==
  /\ Idle(s) /\ Exited(s)
  /\ wait(s, {})
  /\ UNCHANGED <<error, call, opens, onExec, leaky>>

peof(s) ==
  /\ Idle(s) /\ pipes[s] \cap Writing # {}
  /\ wait(s, Writing)
  /\ UNCHANGED <<error, call, opens, onExec, leaky>>

(* What was put into the buffer has to be written first: by overflow and   *)
(* sync, and by peof, close and the destructor, which begin with a sync.   *)
(* A sync writes only while the process runs.                              *)
WriteWaits(s, in) ==
  /\ Idle(s) /\ pipes[s] \cap Writing # {}
  /\ in # "sync" => ~Exited(s)
  /\ call' = [call EXCEPT ![s] = [NoCall EXCEPT !.pc = in]]
  /\ UNCHANGED <<ppid, pipes, error, opens, child, files, onExec, leaky>>

Writes(s) == call[s].pc \in {"sync", "peof", "close", "destroy"}

(* The write ends, well or not, and the call goes on.  It may wait for as  *)
(* long as somebody could read what it writes.                             *)
Wrote(s, fds, next) ==
  /\ ClosePipes(s, fds)
  /\ error' \in IF next = "idle" THEN {error, error \cup {s}} ELSE {error \ {s}}
  /\ call' = [call EXCEPT ![s] = [NoCall EXCEPT !.pc = next]]
  /\ UNCHANGED <<ppid, opens, child, onExec, leaky>>

WriteReturns(s) ==
  \/ At(s, "sync") /\ Wrote(s, {}, "idle")
  \/ At(s, "peof") /\ Wrote(s, Writing, "idle")
  \/ At(s, "close") /\ Wrote(s, pipes[s], "closing")
  \/ At(s, "destroy") /\ Wrote(s, pipes[s], "destroying")

HasReader(s) ==
  \E e \in pipes[s] \cap Writing : \E p \in Processes : <<e[1], "pstdin", "RD">> \in files[p]

(* A read, write or kill fails and leaves its error behind; what is read   *)
(* of a pipe that is still open may also fail when the process is gone.    *)
CallFails(s) ==
  /\ Idle(s) /\ (is_open(s) \/ pipes[s] # {})
  /\ error' = error \cup {s}
  /\ UNCHANGED <<ppid, pipes, call, opens, child, files, onExec, leaky>>

(* in_avail forgets the error before it reads without waiting.             *)
showmanyc(s) ==
  /\ Idle(s) /\ pipes[s] \ Writing # {}
  /\ error' = error \ {s}
  /\ UNCHANGED <<ppid, pipes, call, opens, child, files, onExec, leaky>>

Killed(n) ==
  /\ child[n].state \in {"forked", "running"}
  /\ child' = [child EXCEPT ![n].state = "zombie"]
  /\ files' = [files EXCEPT ![n] = {}]
  /\ onExec' = [onExec EXCEPT ![n] = {}]

kill(s) ==
  /\ Idle(s) /\ is_open(s) /\ Killed(ppid[s])
  /\ UNCHANGED <<ppid, pipes, error, call, opens, leaky>>

(* killpg spares the group of this program, which the child is in until it *)
(* has made one of its own.                                                *)
killpg(s) ==
  /\ Idle(s) /\ is_open(s)
  /\ IF child[ppid[s]].leader
     THEN Killed(ppid[s]) /\ UNCHANGED error
     ELSE error' = error \cup {s} /\ UNCHANGED <<child, files, onExec>>
  /\ UNCHANGED <<ppid, pipes, call, opens, leaky>>

ClosePipesLast(s, next) ==
  /\ Idle(s)
  /\ wait(s, {})
  /\ error' = error \ {s}
  /\ call' = [call EXCEPT ![s] = [NoCall EXCEPT !.pc = next]]
  /\ UNCHANGED <<opens, onExec, leaky>>

(* close() with nothing to write, up to its waitpid, which begins without  *)
(* an error; destruction is a close too.                                   *)
Close(s, next) ==
  /\ Idle(s)
  /\ wait(s, pipes[s])
  /\ error' = error \ {s}
  /\ call' = [call EXCEPT ![s] = [NoCall EXCEPT !.pc = next]]
  /\ UNCHANGED <<opens, onExec, leaky>>

Closing(s) == At(s, "closing") \/ At(s, "destroying")

(* The loop around waitpid: a signal only makes it wait again.             *)
GivesUp(s) ==
  /\ Closing(s)
  /\ wait(s, {})
  /\ Goto(s, IF At(s, "closing") THEN "idle" ELSE "gone")
  /\ UNCHANGED <<error, opens, onExec, leaky>>

CloseWaits(s) ==
  /\ Closing(s) /\ (is_open(s) => Exited(s))
  /\ wait(s, {})
  /\ Goto(s, IF At(s, "closing") THEN "idle" ELSE "gone")
  /\ UNCHANGED <<error, opens, onExec, leaky>>

-----------------------------------------------------------------------------
(* The child between fork and exec: it puts its side of the pipes in the   *)
(* place of its standard streams.  The program may be one that stays when  *)
(* its pipes are dead, as bot.py does.                                     *)

Exec(n) ==
  /\ child[n].state = "forked"
  /\ \E stays \in BOOLEAN :
       child' = [child EXCEPT ![n] = [@ EXCEPT !.state = "running", !.leader = @ \/ child[n].newpg,
                                               !.ran = TRUE, !.stays = stays]]
  /\ files' = [files EXCEPT ![n] = @ \ (ParentSide(n) \cup onExec[n])]
  /\ onExec' = [onExec EXCEPT ![n] = {}]
  /\ UNCHANGED <<ppid, pipes, error, call, opens, leaky>>

Leaves(n, wrote) ==
  /\ child' = [child EXCEPT ![n].state = "zombie", ![n].wrote = wrote]
  /\ files' = [files EXCEPT ![n] = {}]
  /\ onExec' = [onExec EXCEPT ![n] = {}]
  /\ UNCHANGED <<ppid, pipes, error, call, opens, leaky>>

FailsSilently(n) == child[n].state = "forked" /\ Leaves(n, FALSE)

(* exec failed: the error goes into the pipe, if the child has one.        *)
ExecFails(n) ==
  /\ child[n].state = "forked"
  /\ Leaves(n, <<n, "ck_exec", "WR">> \in files[n])

(* A program may end at any time.                                          *)
Exits(n) == child[n].state = "running" /\ Leaves(n, FALSE)

(* All its pipes are dead: it reads end of file or is stopped by SIGPIPE,  *)
(* and most programs end then.                                             *)
CutOff(n) == \A p \in Processes \ {n} : files[p] \cap ParentSide(n) = {}

-----------------------------------------------------------------------------
Init ==
  /\ ppid = [s \in Streams |-> -1]
  /\ pipes = [s \in Streams |-> {}]
  /\ error = {}
  /\ call = [s \in Streams |-> NoCall]
  /\ opens = 0
  /\ child = [n \in Children |-> NoChild]
  /\ files = [p \in Processes |-> {}]
  /\ onExec = [p \in Processes |-> {}]
  /\ leaky = {}

Proceeds(s) ==
  \/ CkExecPipe(s) \/ SetCloseOnExec(s) \/ CkExecFails(s) \/ Pipes(s) \/ PipesFail(s)
  \/ Fork(s) \/ ForkFails(s) \/ InParent(s)
  \/ ExecSucceeded(s) \/ ExecReported(s) \/ ExecFailed(s)

Opening(s) == Proceeds(s) \/ OpenInterrupted(s)

Using(s) ==
  \/ \E mode \in Modes, argv \in BOOLEAN : Open(s, mode, argv)
  \/ Reap(s) \/ peof(s) \/ CallFails(s) \/ showmanyc(s) \/ kill(s) \/ killpg(s)
  \/ \E in \in {"sync", "peof", "close", "destroy"} : WriteWaits(s, in)
  \/ \E next \in {"closing", "destroying"} : Close(s, next)

Next ==
  \/ \E s \in Streams : Using(s) \/ Opening(s) \/ WriteReturns(s) \/ CloseWaits(s)
  \/ \E n \in Children : Exec(n) \/ ExecFails(n) \/ Exits(n)

Spec == Init /\ [][Next]_vars

(* Threads go on, without a signal if need be, a forked child comes to its *)
(* exec, and a program whose pipes are all dead ends, unless it is one     *)
(* that stays.                                                             *)
FairSpec ==
  /\ Spec
  /\ \A s \in Streams : /\ WF_vars(Proceeds(s)) /\ WF_vars(CloseWaits(s))
                         /\ WF_vars(~HasReader(s) /\ WriteReturns(s))
  /\ \A n \in Children : /\ WF_vars(Exec(n) \/ ExecFails(n))
                          /\ WF_vars(CutOff(n) /\ ~child[n].stays /\ Exits(n))

-----------------------------------------------------------------------------
TypeOK ==
  /\ ppid \in [Streams -> {-1, 0} \cup Children]
  /\ pipes \in [Streams -> SUBSET UNION {ParentSide(n) : n \in Children}]
  /\ error \subseteq Streams /\ leaky \subseteq Streams
  /\ \A s \in Streams :
       call[s].pc \in {"idle", "ck_exec", "fcntl", "pipes", "fork", "parent", "read", "wait",
                       "sync", "peof", "close", "destroy", "closing", "destroying", "gone"}
  /\ opens \in 0 .. MaxOpens
  /\ \A n \in Children : child[n].state \in {"none", "forked", "running", "zombie", "reaped"}
  /\ \A p \in Processes : onExec[p] \subseteq files[p]

(* What the call a stream is in has open besides the stream's pipes.       *)
Local(s) ==
  LET c == call[s]
      ck == IF c.argv THEN CkExec(c.n) ELSE {}
  IN CASE c.pc = "fcntl" \/ c.pc = "pipes" -> ck
       [] c.pc = "fork" \/ c.pc = "parent" -> ck \cup Ends(c.n, c.mode \cap Standard)
       [] c.pc = "read" \/ c.pc = "wait" -> ck \ {<<c.n, "ck_exec", "WR">>}
       [] OTHER -> {}

InUse == UNION {pipes[s] \cup Local(s) : s \in Streams}

(* On every path through open, failed or not, and through peof, wait and   *)
(* close the program closes what it opened, and only that, and loses no    *)
(* descriptor, as long as no stream is opened again before it was closed.  *)
DescriptorsKept ==
  /\ InUse \subseteq files[Parent]
  /\ leaky = {} => files[Parent] = InUse

(* Every process that was started belongs to one stream until its exit     *)
(* status was collected, so that none stays a zombie, and no longer, so    *)
(* that kill never meets a process of another program.                     *)
Owns(s, n) == ppid[s] = n \/ (At(s, "parent") /\ call[s].n = n)

ChildrenOwned ==
  \A n \in Children :
    /\ child[n].state \in {"forked", "running", "zombie"} => \E s \in Streams : Owns(s, n)
    /\ \A s \in Streams : Owns(s, n) =>
         /\ child[n].state # "reaped"
         /\ \A t \in Streams \ {s} : ~Owns(t, n)

(* After close() a stream is as good as new, whatever happened before: it  *)
(* has no process, pipes or error, which would keep it from being opened.  *)
ClosedIsFresh ==
  [][\A s \in Streams : Closing(s) /\ ~Closing(s)' =>
       ppid'[s] <= 0 /\ pipes'[s] = {} /\ s \notin error']_vars

(* When open() of a file returns without having been interrupted, is_open  *)
(* tells whether the file is executed, however the child and other threads *)
(* are scheduled.  An interrupted open tells nothing, nor does one whose   *)
(* child is killed from outside before its exec, which is left out.        *)
OpenTellsExec ==
  [][\A s \in Streams :
       call[s].pc \in {"read", "wait"} /\ Idle(s)' /\ ~OpenInterrupted(s)
         => (ppid'[s] > 0 <=> child[call[s].n].ran)]_vars

(* A call that never returns waits for ever for one of these: a write, for *)
(* a process that could read it; a close, for its process, which stays or  *)
(* which another stream's child keeps alive, having inherited the          *)
(* program's end of a pipe; an open, for nothing but a child of another    *)
(* stream that inherited its ck_exec.                                      *)
Inherited(n, ends) == \E m \in Children \ {n} : files[m] \cap ends # {}

Waits(s) == Writes(s) \/ Closing(s) \/ At(s, "read") \/ At(s, "wait")

WaitsFor(s) ==
  \/ Writes(s) /\ HasReader(s)
  \/ Closing(s) /\ is_open(s)
       /\ (child[ppid[s]].stays \/ Inherited(ppid[s], ParentSide(ppid[s])))
  \/ At(s, "read") /\ Inherited(call[s].n, {<<call[s].n, "ck_exec", "WR">>})

HangsForAProcess == \A s \in Streams : <>[]Waits(s) => <>[]WaitsFor(s)
=============================================================================
