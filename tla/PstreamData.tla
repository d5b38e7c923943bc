----------------------------- MODULE PstreamData -----------------------------
(***************************************************************************)
(* Memory and characters of one stream of pstream.h, used by one thread:   *)
(* the buffers of basic_pstreambuf, its put area, its two get areas of     *)
(* which one is active, and the pipes to a process that reads characters   *)
(* and writes some of its own.  How processes start and end, and what      *)
(* several streams do to each other, is in Pstreambuf.                     *)
(*                                                                         *)
(* The characters of the program are numbered; the i-th that the n-th      *)
(* process writes to a source is <<n, source, i>>.  A get area is what can *)
(* be put back and what can be extracted, with the array it points into:   *)
(* the one made for a source when the n-th process was started.  SIGPIPE   *)
(* is taken to be ignored, and the writes of a buffer are short enough for *)
(* a pipe to take them whole.  Whether the stream is good is left out: a   *)
(* program may clear its state or use its rdbuf whenever it likes, so the  *)
(* calls below are made whatever failed before.                            *)
(***************************************************************************)
EXTENDS Integers, SequencesExt

CONSTANTS
  Classes,   \* the classes of streams looked at
  Requests,  \* for each class: the modes open is called with
  BufSz,     \* bufsz
  PbSz,      \* pbsz
  PipeSize,  \* characters a pipe holds
  MaxOpens,  \* bound, for each class: how many processes are started
  MaxPut,    \* bound, for each class: characters the program writes
  MaxSaid    \* bound, for each class: characters a process writes without being asked

Sources == {"pstdout", "pstderr"}

ASSUME DataAssumption ==
  /\ Classes \subseteq {"ipstream", "opstream", "pstream"}
  /\ {BufSz, PbSz, PipeSize} \subseteq Nat
  /\ PbSz < BufSz /\ BufSz <= PipeSize
  /\ \A c \in Classes : /\ Requests[c] \subseteq SUBSET (Sources \cup {"pstdin"})
                        /\ {MaxOpens[c], MaxPut[c], MaxSaid[c]} \subseteq Nat

VARIABLES
  class,     \* the class of the stream
  opens,     \* how many processes were started
  ppid,      \* ppid_: its process, -1 before the first, 0 when it was waited for
  wpipe,     \* is wpipe_ open?
  rpipe,     \* of each source: the process rpipe_ leads to, 0 when closed
  wbuffer,   \* what waits in wbuffer_, or NoBuffer
  rbuffer,   \* of each source: the process whose start made rbuffer_, 0 when NULL
  rsrc,      \* rsrc_
  area,      \* the active get area
  rbufstate, \* rbufstate_: the other get area
  call,      \* the call that is going on
  todo,      \* characters xsputn still has to store
  put,       \* the last character stored
  stdin,     \* the pipe to the process
  taken,     \* the last character the process has taken out of it
  out,       \* of each process and source, the pipe from it
  said,      \* of each source: how many characters the process wrote
  ended,     \* the processes that have ended
  owes,      \* where the process has to write before it reads again
  got,       \* history: of each source, characters extracted and not put back
  run,       \* history: of each source, the last characters extracted, up to PbSz of
             \* them, not put back and with no failed read since
  stale,     \* history: was a process started while rbufstate_ held an area?
  opened     \* history: how the last open went: "whole", or "cut" short by a signal,
             \* or "cut_over", that is, over what an earlier process had left

conn == <<class, opens, ppid, wpipe, rpipe>>
memory == <<wbuffer, rbuffer, rsrc, area, rbufstate>>
caller == <<call, todo, put>>
process == <<taken, said, ended, owes>>
history == <<got, run, stale, opened>>
vars == <<conn, memory, caller, stdin, out, process, history>>

-----------------------------------------------------------------------------
NoBuffer == <<0>>
NoArea == [src |-> "none", n |-> 0, back |-> <<>>, ahead |-> <<>>]
Fresh(src) == [NoArea EXCEPT !.src = src, !.n = opens + 1]

is_open == ppid > 0
Exited == is_open /\ ppid \in ended
Full(pipe) == Len(pipe) = PipeSize
LastOf(s, k) == SubSeq(s, Len(s) - k + 1, Len(s))
Lowest(a, b) == IF a < b THEN a ELSE b

(* ipstream reads from a source at least, opstream always writes.          *)
ModeOf(mode) ==
  CASE class = "ipstream" /\ mode \cap Sources = {} -> mode \cup {"pstdout"}
    [] class = "opstream" -> mode \cup {"pstdin"}
    [] OTHER -> mode

-----------------------------------------------------------------------------
(* Opening.  The pipes are set, the process runs.                          *)
Started(mode) ==
  /\ opens' = opens + 1 /\ ppid' = opens + 1
  /\ wpipe' = ("pstdin" \in mode)
  /\ rpipe' = [src \in Sources |-> IF src \in mode THEN opens + 1 ELSE rpipe[src]]
  /\ stdin' = <<>> /\ taken' = put /\ owes' = "nothing"
  /\ said' = [src \in Sources |-> 0]
  /\ got' = [src \in Sources |-> 0] /\ run' = [src \in Sources |-> 0]
  /\ stale' = (stale \/ rbufstate # NoArea)
  /\ UNCHANGED <<class, out, ended, caller>>

create_buffers(mode) ==
  /\ wbuffer' = IF "pstdin" \in mode THEN <<>> ELSE wbuffer
  /\ rbuffer' = [src \in Sources |-> IF src \in mode THEN opens + 1 ELSE rbuffer[src]]
  /\ rsrc' = IF "pstdout" \in mode THEN "pstdout"
             ELSE IF "pstderr" \in mode THEN "pstderr" ELSE rsrc
  /\ area' = IF mode \cap Sources = {} THEN area ELSE Fresh(rsrc')
  /\ UNCHANGED rbufstate

Open(mode) ==
  /\ call = "idle" /\ ~is_open /\ opens < MaxOpens[class]
  /\ Started(ModeOf(mode))
  /\ create_buffers(ModeOf(mode))
  /\ opened' = "whole"

(* A signal while open waits to hear of exec: the process runs, and the    *)
(* stream has its pipes and no buffers for them, but what it had before.   *)
(* An open that fails with pipe or fork, or of a stream that is open,      *)
(* changes nothing here.                                                   *)
LeftOver ==
  rbufstate # NoArea \/ area # NoArea \/ \E src \in Sources : rbuffer[src] # 0

BuffersAnyway(mode) ==
  /\ call = "idle" /\ ~is_open /\ opens < MaxOpens[class]
  /\ Started(ModeOf(mode)) /\ create_buffers(ModeOf(mode))
  /\ opened' = IF LeftOver THEN "cut_over" ELSE "cut"

OpenInterrupted(mode) ==
  /\ call = "idle" /\ ~is_open /\ opens < MaxOpens[class]
  /\ Started(ModeOf(mode))
  /\ opened' = IF LeftOver THEN "cut_over" ELSE "cut"
  /\ UNCHANGED memory

-----------------------------------------------------------------------------
(* Writing.                                                                *)
Room == IF wbuffer = NoBuffer THEN 0 ELSE BufSz - Len(wbuffer)
ToWrite == wbuffer # NoBuffer /\ wbuffer # <<>> /\ wpipe /\ ~Exited

(* empty_buffer succeeds: write() waits until the pipe takes it all.       *)
empty_buffer ==
  /\ ToWrite /\ Len(stdin) + Len(wbuffer) <= PipeSize
  /\ stdin' = stdin \o wbuffer

(* xsputn of k characters; overflow is that of one.                        *)
xsputn(k) ==
  \/ call = "idle" /\ k \in 1 .. BufSz + 1 /\ put + k <= MaxPut[class]
  \/ call = "put" /\ k = todo

Store(k) ==
  /\ xsputn(k) /\ Room > 0
  /\ LET some == Lowest(Room, k)
     IN /\ wbuffer' = wbuffer \o [i \in 1 .. some |-> put + i]
        /\ put' = put + some
        /\ todo' = k - some
        /\ call' = IF some = k THEN "idle" ELSE "put"
  /\ UNCHANGED <<conn, rbuffer, rsrc, area, rbufstate, stdin, out, process, history>>

WritesAndKeeps(k) ==
  /\ xsputn(k) /\ Room = 0
  /\ empty_buffer
  /\ call' = "put" /\ todo' = k
  /\ UNCHANGED <<conn, memory, put, out, process, history>>

PutWrites(k) ==
  /\ xsputn(k) /\ Room = 0
  /\ empty_buffer /\ wbuffer' = <<>>
  /\ call' = "put" /\ todo' = k
  /\ UNCHANGED <<conn, rbuffer, rsrc, area, rbufstate, put, out, process, history>>

(* There is nothing to write or nobody to read it, or a signal interrupts  *)
(* it: the buffer stays as it was.                                         *)
PutRetries(k) ==
  /\ xsputn(k) /\ Room = 0
  /\ call' = "put" /\ todo' = k
  /\ UNCHANGED <<conn, memory, put, stdin, out, process, history>>

PutFails(k) ==
  /\ xsputn(k) /\ Room = 0
  /\ call' = "idle" /\ todo' = 0
  /\ UNCHANGED <<conn, memory, put, stdin, out, process, history>>

-----------------------------------------------------------------------------
(* sync, and peof and close, which begin with it.  What the sync leaves of *)
(* process, pipe and buffer is what they go on with.                       *)
Ended(p, w, b) ==
  /\ ppid' = p /\ wpipe' = w /\ wbuffer' = b
  /\ UNCHANGED <<rpipe, rbuffer, area, ended>>

(* close drops the active area, not the other one.  The process, cut off,  *)
(* ends, and close has waited for it.                                      *)
KeepsArea ==
  /\ wbuffer' = NoBuffer /\ rbuffer' = [src \in Sources |-> 0]
  /\ wpipe' = FALSE /\ rpipe' = [src \in Sources |-> 0]
  /\ ppid' = IF is_open THEN 0 ELSE ppid
  /\ ended' = 1 .. opens
  /\ UNCHANGED area

close ==
  /\ wbuffer' = NoBuffer /\ rbuffer' = [src \in Sources |-> 0]
  /\ area' = NoArea
  /\ wpipe' = FALSE /\ rpipe' = [src \in Sources |-> 0]
  /\ ppid' = IF is_open THEN 0 ELSE ppid
  /\ ended' = 1 .. opens

SyncedBy(c, p, w, b) ==
  /\ call \in {"idle", c} /\ call' = "idle"
  /\ CASE c = "sync" -> Ended(p, w, b)
       [] c = "peof" -> Ended(p, FALSE, NoBuffer)
       [] c = "close" -> close
  /\ UNCHANGED <<class, opens, rsrc, rbufstate, todo, put, out, taken, said, owes, history>>

SyncExited(c) == Exited /\ SyncedBy(c, 0, FALSE, NoBuffer) /\ UNCHANGED stdin

SyncWrites(c) == empty_buffer /\ SyncedBy(c, ppid, wpipe, <<>>)

SyncFails(c) == SyncedBy(c, ppid, wpipe, wbuffer) /\ UNCHANGED stdin

(* The write of a put or a sync waits for room in the pipe.                *)
WriteWaits(c, k) ==
  /\ call = "idle" /\ call' = c /\ todo' = k
  /\ ToWrite /\ Len(stdin) + Len(wbuffer) > PipeSize
  /\ UNCHANGED <<conn, memory, put, stdin, out, process, history>>

(* exited(), when it has.                                                  *)
Reap ==
  /\ call = "idle" /\ Exited
  /\ ppid' = 0 /\ wpipe' = FALSE /\ wbuffer' = NoBuffer
  /\ UNCHANGED <<class, opens, rpipe, rbuffer, rsrc, area, rbufstate, caller,
                 stdin, out, process, history>>

-----------------------------------------------------------------------------
(* Reading.                                                                *)
ReadsEnd == rpipe[rsrc]                       \* rpipe()
Unread == IF ReadsEnd = 0 THEN <<>> ELSE out[ReadsEnd][rsrc]
AtEnd == Unread = <<>> /\ (ReadsEnd = 0 \/ ReadsEnd \in ended)

(* A character is in the area; the caller takes it.                        *)
sbumpc ==
  /\ call = "idle" /\ area.ahead # <<>>
  /\ area' = [area EXCEPT !.back = Append(@, Head(area.ahead)), !.ahead = Tail(@)]
  /\ got' = [got EXCEPT ![rsrc] = @ + 1]
  /\ run' = [run EXCEPT ![rsrc] = Lowest(@ + 1, PbSz)]
  /\ UNCHANGED <<conn, wbuffer, rbuffer, rsrc, rbufstate, caller, stdin, out, process, stale, opened>>

(* sungetc: pbackfail fails at the beginning of the area.                  *)
pbackfail ==
  /\ call = "idle" /\ area.back # <<>>
  /\ area' = [area EXCEPT !.back = Front(@), !.ahead = <<Last(area.back)>> \o @]
  /\ got' = [got EXCEPT ![rsrc] = @ - 1]
  /\ run' = [run EXCEPT ![rsrc] = @ - 1]
  /\ UNCHANGED <<conn, wbuffer, rbuffer, rsrc, rbufstate, caller, stdin, out, process, stale, opened>>

underflow == call = "get" \/ (call = "idle" /\ area.ahead = <<>>)

ReadWaits ==
  /\ call = "idle" /\ underflow
  /\ Unread = <<>> /\ ~AtEnd
  /\ call' = "get"
  /\ UNCHANGED <<conn, memory, todo, put, stdin, out, process, history>>

(* What was read follows up to PbSz characters that can be put back.       *)
ForgetsOne(chars) ==
  /\ area' = [src |-> rsrc, n |-> rbuffer[rsrc], ahead |-> chars,
              back |-> LastOf(area.back, Lowest(Len(area.back), PbSz - 1))]
  /\ UNCHANGED run

Filled(chars) ==
  /\ area' = [src |-> rsrc, n |-> rbuffer[rsrc], ahead |-> chars,
              back |-> LastOf(area.back, Lowest(Len(area.back), PbSz))]
  /\ UNCHANGED run

NotFilled == area' = NoArea /\ run' = [run EXCEPT ![rsrc] = 0]

(* Without an array to read into, read fails and the pipe is as it was.    *)
fill_buffer ==
  /\ Unread # <<>> /\ rbuffer[rsrc] # 0
  /\ LET k == Lowest(Len(Unread), BufSz - PbSz)
     IN /\ Filled(SubSeq(Unread, 1, k))
        /\ out' = [out EXCEPT ![ReadsEnd][rsrc] = SubSeq(@, k + 1, Len(@))]

Fill ==
  /\ underflow
  /\ fill_buffer
  /\ call' = "idle"
  /\ UNCHANGED <<conn, wbuffer, rbuffer, rsrc, rbufstate, todo, put, stdin, process, got, stale, opened>>

(* End of file, no array, or a signal.                                     *)
FillFails ==
  /\ underflow
  /\ NotFilled
  /\ call' = "idle"
  /\ UNCHANGED <<conn, wbuffer, rbuffer, rsrc, rbufstate, todo, put, stdin, out, process, got, stale, opened>>

(* in_avail, which does not wait: nothing to read is no end of file.       *)
showmanyc ==
  /\ call = "idle" /\ area.ahead = <<>>
  /\ \/ fill_buffer
     \/ Unread = <<>> /\ ~AtEnd /\ Filled(<<>>) /\ UNCHANGED out
     \/ (AtEnd \/ (Unread # <<>> /\ rbuffer[rsrc] = 0)) /\ NotFilled /\ UNCHANGED out
  /\ UNCHANGED <<conn, wbuffer, rbuffer, rsrc, rbufstate, caller, stdin, process, got, stale, opened>>

(* read_err, out() and err(): the areas change places.                     *)
LeavesArea(src) ==
  /\ call = "idle"
  /\ rpipe[src] # 0 /\ rsrc # src
  /\ rsrc' = src /\ area' = rbufstate
  /\ UNCHANGED <<conn, wbuffer, rbuffer, rbufstate, caller, stdin, out, process, history>>

read_err(src) ==
  /\ call = "idle"
  /\ rpipe[src] # 0 /\ rsrc # src
  /\ rsrc' = src /\ area' = rbufstate /\ rbufstate' = area
  /\ UNCHANGED <<conn, wbuffer, rbuffer, caller, stdin, out, process, history>>

-----------------------------------------------------------------------------
(* The process: it takes a character and owes one to a source before it    *)
(* takes the next, and it may write of its own accord.  What it writes to  *)
(* a source without a pipe goes elsewhere.                                 *)
Runs == opens > 0 /\ opens \notin ended
Piped(src) == rpipe[src] = opens

Says(src) ==
  /\ ~Full(out[opens][src])
  /\ said' = [said EXCEPT ![src] = @ + 1]
  /\ out' = [out EXCEPT ![opens][src] = Append(@, <<opens, src, said[src] + 1>>)]
  /\ UNCHANGED <<conn, memory, caller, stdin, history>>

Takes ==
  /\ Runs /\ owes = "nothing" /\ stdin # <<>>
  /\ stdin' = Tail(stdin) /\ taken' = Head(stdin)
  /\ owes' \in {src \in Sources : Piped(src)} \cup {"nothing"}
  /\ UNCHANGED <<conn, memory, caller, out, said, ended, history>>

Answers == Runs /\ owes # "nothing" /\ Says(owes) /\ owes' = "nothing" /\ UNCHANGED <<taken, ended>>

Speaks(src) ==
  /\ Runs /\ owes = "nothing" /\ Piped(src)
  /\ said["pstdout"] + said["pstderr"] < MaxSaid[class]
  /\ Says(src)
  /\ UNCHANGED <<taken, ended, owes>>

Ends ==
  /\ Runs
  /\ ended' = ended \cup {opens}
  /\ UNCHANGED <<conn, memory, caller, stdin, out, taken, said, owes, history>>

NoInput == owes = "nothing" /\ stdin = <<>> /\ ~wpipe

-----------------------------------------------------------------------------
Init ==
  /\ class \in Classes /\ opens = 0 /\ ppid = -1
  /\ wpipe = FALSE /\ rpipe = [src \in Sources |-> 0]
  /\ wbuffer = NoBuffer /\ rbuffer = [src \in Sources |-> 0]
  /\ rsrc = "pstdout" /\ area = NoArea /\ rbufstate = NoArea
  /\ call = "idle" /\ todo = 0 /\ put = 0
  /\ stdin = <<>> /\ taken = 0
  /\ out = [n \in 1 .. MaxOpens[class] |-> [src \in Sources |-> <<>>]]
  /\ said = [src \in Sources |-> 0] /\ ended = {} /\ owes = "nothing"
  /\ got = [src \in Sources |-> 0] /\ run = [src \in Sources |-> 0]
  /\ stale = FALSE /\ opened = "whole"

Amounts == 1 .. BufSz + 1
Syncs == IF class = "ipstream" THEN {"close"} ELSE {"sync", "peof", "close"}
Writes == class # "ipstream"
Reads == class # "opstream"

Connecting ==
  \/ \E mode \in Requests[class] : Open(mode) \/ OpenInterrupted(mode)
  \/ Reap

(* Steps of calls that need not wait, and that no signal cuts short.       *)
Writing ==
  \/ Writes /\ \E k \in Amounts : Store(k) \/ PutWrites(k) \/ (~ToWrite /\ PutFails(k))
  \/ \E c \in Syncs : SyncExited(c) \/ SyncWrites(c) \/ (~ToWrite /\ SyncFails(c))

NothingToGet == AtEnd \/ (Unread # <<>> /\ rbuffer[rsrc] = 0)
Reading == Reads /\ (Fill \/ (NothingToGet /\ FillFails))

Waiting ==
  \/ Writes /\ \E k \in Amounts : Room = 0 /\ put + k <= MaxPut[class] /\ WriteWaits("put", k)
  \/ \E c \in Syncs : WriteWaits(c, 0)
  \/ Reads /\ ReadWaits

Interrupted ==
  \/ Writes /\ ToWrite /\ \E k \in Amounts : PutFails(k)
  \/ ToWrite /\ \E c \in Syncs : SyncFails(c)
  \/ Reads /\ ~NothingToGet /\ FillFails

Getting == Reads /\ (sbumpc \/ pbackfail \/ showmanyc \/ \E src \in Sources : read_err(src))

Process == Takes \/ Answers \/ Ends \/ \E src \in Sources : Speaks(src)

Next == Connecting \/ Writing \/ Reading \/ Waiting \/ Interrupted \/ Getting \/ Process

Spec == Init /\ [][Next]_vars

(* A call that has begun goes on; a process deals with what it gets and    *)
(* ends when it can get nothing more.                                      *)
FairSpec ==
  /\ Spec
  /\ WF_vars(call # "idle" /\ (Writing \/ Reading))
  /\ WF_vars(Takes \/ Answers) /\ WF_vars(NoInput /\ Ends)

-----------------------------------------------------------------------------
From(first, last) == [i \in 1 .. (last - first + 1) |-> first + i - 1]

(* While its pipe is open the process finds the characters of the program  *)
(* in order, each once: those it took, those in the pipe and those in the  *)
(* buffer follow each other without a gap.                                 *)
WrittenInOrder ==
  wpipe /\ wbuffer # NoBuffer => stdin \o wbuffer = From(taken + 1, put)

(* Characters of the present process are extracted in the order it wrote   *)
(* them to the source asked for, however often the source is switched,     *)
(* reads fail and characters are put back: what can be put back, what can  *)
(* be extracted and what is in the pipe follow each other.                 *)
ReadInOrderOf(src) ==
  LET a == IF rsrc = src THEN area ELSE rbufstate
      all == a.back \o a.ahead \o out[opens][src]
  IN /\ got[src] + Len(a.ahead) + Len(out[opens][src]) = said[src]
     /\ \A i \in DOMAIN all : all[i] = <<opens, src, said[src] - Len(all) + i>>

Sound == is_open /\ opened # "cut_over"
ReadInOrder == Sound /\ ~stale => \A src \in Sources : Piped(src) => ReadInOrderOf(src)

(* What is extracted next comes from the source asked for, of the present  *)
(* process.                                                                *)
ComesFromSource ==
  Sound /\ Piped(rsrc) /\ area.ahead # <<>>
    => Head(area.ahead)[1] = opens /\ Head(area.ahead)[2] = rsrc

(* Unless the stream was opened again after its source had been switched,  *)
(* the get areas never point into an array that was deleted, nor past the  *)
(* end of one.                                                             *)
Live(a) ==
  \/ a.back \o a.ahead = <<>>
  \/ rbuffer[a.src] = a.n /\ Len(a.back) + Len(a.ahead) <= BufSz

AreaIsLive == ~stale => /\ Live(area) /\ area.src \in {rsrc, "none"}
                        /\ rbufstate.src # rsrc /\ (is_open => Live(rbufstate))

(* As many of the last characters extracted as PbSz can be put back, when  *)
(* no read has failed since they were.                                     *)
PutbackKept ==
  Sound /\ ~stale => Len(area.back) >= run[rsrc]

(* A stream that was opened is ready for what its class offers: an         *)
(* ipstream has a source with a buffer, an opstream a buffer for as long   *)
(* as it has a pipe.  One whose open a signal cut short takes nothing and, *)
(* unless something was left over, gives nothing until it is closed,       *)
(* whatever is asked of it and whatever its process writes.                *)
Ready ==
  /\ class = "ipstream" => \E src \in Sources : Piped(src) /\ rbuffer[src] = opens
  /\ Piped(rsrc) => rbuffer[rsrc] = opens
  /\ wpipe <=> wbuffer # NoBuffer

Takings == stdin # <<>> \/ taken # put
Givings == area.ahead # <<>> \/ \E src \in Sources : got[src] # 0

ReadyOrMute ==
  is_open => IF opened = "whole" THEN Ready
             ELSE ~Takings /\ (opened = "cut" => ~Givings)

(* A call that never returns waits for a process that waits for the        *)
(* program: to write more or flush it, to read what its pipes are full of. *)
ProcessWaits ==
  \/ owes = "nothing" /\ stdin = <<>> /\ wpipe
  \/ owes # "nothing" /\ Full(out[opens][owes])

OnlyWaitsForWaiting == <>[](call # "idle") => <>[]ProcessWaits
=============================================================================
