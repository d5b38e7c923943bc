-------------------------- MODULE PstreamDataProofs --------------------------
(***************************************************************************)
(* Theorems about PstreamData, for all sizes of buffers and pipes, all     *)
(* requests and any number of processes and characters.                    *)
(***************************************************************************)
EXTENDS PstreamData, SequenceTheorems, TLAPS

-----------------------------------------------------------------------------
(* Shapes.                                                                 *)
Char == Nat \X Sources \X Int
Chars == Seq(Char)
AreaRecord == [src : Sources \cup {"none"}, n : Nat, back : Chars, ahead : Chars]

NumbersOK ==
  /\ class \in Classes /\ opens \in 0 .. MaxOpens[class]
  /\ rpipe \in [Sources -> 0 .. opens] /\ rbuffer \in [Sources -> Nat]
  /\ said \in [Sources -> Nat] /\ got \in [Sources -> Int] /\ run \in [Sources -> Int]
  /\ is_open => opens > 0
OwesOK == owes \in Sources \cup {"nothing"}
WordsOK == wbuffer \in Seq(Nat) /\ stdin \in Seq(Nat) /\ put \in Nat /\ taken \in Nat
AreasOK == rsrc \in Sources /\ area \in AreaRecord /\ rbufstate \in AreaRecord
OutOK == out \in [1 .. MaxOpens[class] -> [Sources -> Chars]]

-----------------------------------------------------------------------------
(* Only a stream that is open has a pipe to write to, and only one with a  *)
(* pipe has a buffer for it.                                               *)
BufferHasPipe ==
  /\ wbuffer # NoBuffer => wpipe
  /\ wpipe => is_open

(* Sequences of consecutive numbers, and of consecutive characters.        *)
Follows(s, k) == \A i \in 1 .. Len(s) : s[i] = k + i
Counts(s, n, src, k) == \A i \in 1 .. Len(s) : s[i] = <<n, src, k + i>>

(* What the process took, what is in the pipe and what is in the buffer.   *)
Flows ==
  wbuffer # NoBuffer =>
    /\ Follows(stdin, taken) /\ Follows(wbuffer, taken + Len(stdin))
    /\ put = taken + Len(stdin) + Len(wbuffer)

(* The area of a source.                                                   *)
AreaOf(src) == IF rsrc = src THEN area ELSE rbufstate

EmptyOnNone == \A a \in {area, rbufstate} : a.src = "none" => a.back = <<>> /\ a.ahead = <<>>

(* What was not switched away from a closed stream is alive.               *)
Alive ==
  ~stale => /\ Live(area) /\ area.src \in {rsrc, "none"}
            /\ rbufstate.src # rsrc
            /\ Live(rbufstate) \/ (~is_open /\ \A src \in Sources : rpipe[src] = 0)

(* A read that waits has nothing left to give.                             *)
GetsEmpty == call = "get" => area.ahead = <<>>

(* How much can be put back.                                               *)
Kept ==
  /\ \A src \in Sources : run[src] <= PbSz
  /\ is_open => \A src \in Sources : Len(AreaOf(src).back) >= run[src]

(* Pipes of processes that do not exist yet are empty.                     *)
OutEmpty == \A n \in 1 .. MaxOpens[class], src \in Sources : n > opens => out[n][src] = <<>>

(* Extracted, to be extracted, and to be read.                             *)
OrderOf(src) ==
  LET a == AreaOf(src)
      pipe == out[opens][src]
  IN /\ Counts(a.back, opens, src, got[src] - Len(a.back))
     /\ Counts(a.ahead, opens, src, got[src])
     /\ Counts(pipe, opens, src, got[src] + Len(a.ahead))
     /\ said[src] = got[src] + Len(a.ahead) + Len(pipe)

Ordered == Sound /\ ~stale => \A src \in Sources : Piped(src) => OrderOf(src)

(* What a stream has whose open came to its end: arrays for its sources,   *)
(* and a buffer for its pipe.                                              *)
SourcesReady ==
  is_open /\ opened = "whole" =>
    /\ class = "ipstream" => \E src \in Sources : Piped(src)
    /\ \A src \in Sources : Piped(src) => rbuffer[src] = opens

PipeHasBuffer == opened = "whole" /\ wpipe => wbuffer # NoBuffer

(* And what one does without whose open was cut short.                     *)
NotTaken ==
  is_open /\ opened # "whole" => wbuffer = NoBuffer /\ stdin = <<>> /\ taken = put

NotGiven ==
  is_open /\ opened = "cut" =>
    /\ \A src \in Sources : rbuffer[src] = 0 /\ got[src] = 0
    /\ \A a \in {area, rbufstate} : a.back = <<>> /\ a.ahead = <<>>

ReadInv ==
  /\ NumbersOK /\ AreasOK /\ OutOK
  /\ EmptyOnNone /\ Alive /\ GetsEmpty /\ Kept
  /\ OutEmpty /\ Ordered /\ SourcesReady /\ NotGiven

DataInv ==
  /\ ReadInv /\ OwesOK
  /\ WordsOK /\ BufferHasPipe /\ Flows /\ PipeHasBuffer /\ NotTaken

-----------------------------------------------------------------------------
(* Sequences.                                                              *)
LEMMA Parts ==
  ASSUME NEW S, NEW s \in Seq(S), NEW a \in Nat \ {0}, NEW b \in Nat, a <= b + 1, b <= Len(s)
  PROVE  /\ SubSeq(s, a, b) \in Seq(S) /\ Len(SubSeq(s, a, b)) = b - a + 1
         /\ \A i \in 1 .. Len(SubSeq(s, a, b)) : SubSeq(s, a, b)[i] = s[a + i - 1]
<1>1. \A i \in a .. b : s[i] \in S
  BY ElementOfSeq
<1>2. Len(s) \in Nat
  BY LenProperties
<1>3. /\ SubSeq(s, a, b) \in Seq(S) /\ Len(SubSeq(s, a, b)) = IF a <= b THEN b - a + 1 ELSE 0
      /\ \A i \in 1 .. b - a + 1 : SubSeq(s, a, b)[i] = s[a + i - 1]
  BY <1>1, SubSeqProperties
<1> QED BY <1>3

LEMMA PartCounts ==
  ASSUME NEW s \in Chars, NEW a \in Nat \ {0}, NEW b \in Nat, a <= b + 1, b <= Len(s),
         NEW n, NEW src, NEW k \in Int, Counts(s, n, src, k)
  PROVE  Counts(SubSeq(s, a, b), n, src, k + a - 1)
<1>1. Len(s) \in Nat
  BY LenProperties DEF Chars
<1>2. /\ Len(SubSeq(s, a, b)) = b - a + 1
      /\ \A i \in 1 .. Len(SubSeq(s, a, b)) : SubSeq(s, a, b)[i] = s[a + i - 1]
  BY Parts DEF Chars
<1>3. \A i \in 1 .. Len(s) : s[i] = <<n, src, k + i>>
  BY DEF Counts
<1>4. ASSUME NEW i \in 1 .. Len(SubSeq(s, a, b))
      PROVE  SubSeq(s, a, b)[i] = <<n, src, (k + a - 1) + i>>
  <2>1. a + i - 1 \in 1 .. Len(s) /\ k + (a + i - 1) = (k + a - 1) + i
    BY <1>1, <1>2
  <2> QED BY <2>1, <1>2, <1>3
<1> QED BY <1>4 DEF Counts

(* What is put back, and what is left of the part that can be.             *)
LEMMA LastCounts ==
  ASSUME NEW s \in Chars, NEW j \in Nat, j <= Len(s)
  PROVE  /\ LastOf(s, j) \in Chars /\ Len(LastOf(s, j)) = j
         /\ \A n, src : \A k \in Int :
              Counts(s, n, src, k) => Counts(LastOf(s, j), n, src, k + Len(s) - j)
<1> DEFINE a == Len(s) - j + 1
<1>1. Len(s) \in Nat
  BY LenProperties DEF Chars
<1>2. a \in Nat \ {0} /\ a <= Len(s) + 1 /\ Len(s) - a + 1 = j
  BY <1>1
<1>3. LastOf(s, j) = SubSeq(s, a, Len(s))
  BY DEF LastOf
<1> HIDE DEF a
<1>4. LastOf(s, j) \in Chars /\ Len(LastOf(s, j)) = j
  BY <1>1, <1>2, <1>3, Parts DEF Chars
<1>5. ASSUME NEW n, NEW src, NEW k \in Int, Counts(s, n, src, k)
      PROVE  Counts(LastOf(s, j), n, src, k + Len(s) - j)
  <2>1. Counts(LastOf(s, j), n, src, k + a - 1)
    BY <1>1, <1>2, <1>3, <1>5, PartCounts
  <2>2. k + a - 1 = k + Len(s) - j
    BY <1>1 DEF a
  <2> QED BY <2>1, <2>2
<1> QED BY <1>4, <1>5

LEMMA AppendCounts ==
  ASSUME NEW s \in Chars, NEW c \in Char
  PROVE  /\ Append(s, c) \in Chars /\ Len(Append(s, c)) = Len(s) + 1
         /\ \A n, src : \A k \in Int :
              Counts(s, n, src, k) /\ c = <<n, src, k + Len(s) + 1>>
                => Counts(Append(s, c), n, src, k)
<1>1. Len(s) \in Nat
  BY LenProperties DEF Chars
<1>2. /\ Append(s, c) \in Chars /\ Len(Append(s, c)) = Len(s) + 1
      /\ \A i \in 1 .. Len(s) : Append(s, c)[i] = s[i]
      /\ Append(s, c)[Len(s) + 1] = c
  BY AppendProperties DEF Chars
<1>3. ASSUME NEW n, NEW src, NEW k \in Int, Counts(s, n, src, k), c = <<n, src, k + Len(s) + 1>>
      PROVE  Counts(Append(s, c), n, src, k)
  <2> SUFFICES ASSUME NEW i \in 1 .. Len(s) + 1
               PROVE  Append(s, c)[i] = <<n, src, k + i>>
    BY <1>2 DEF Counts
  <2>1. CASE i = Len(s) + 1
    BY <1>1, <1>2, <1>3, <2>1
  <2>2. CASE i # Len(s) + 1
    <3>1. i \in 1 .. Len(s)
      BY <1>1, <2>2
    <3> QED BY <1>2, <1>3, <3>1 DEF Counts
  <2> QED BY <2>1, <2>2
<1> QED BY <1>2, <1>3

LEMMA ConsCounts ==
  ASSUME NEW s \in Chars, NEW c \in Char
  PROVE  /\ <<c>> \o s \in Chars /\ Len(<<c>> \o s) = Len(s) + 1
         /\ \A n, src : \A k \in Int :
              Counts(s, n, src, k) /\ c = <<n, src, k>>
                => Counts(<<c>> \o s, n, src, k - 1)
<1>1. Len(s) \in Nat
  BY LenProperties DEF Chars
<1>2. <<c>> \in Seq(Char) /\ Len(<<c>>) = 1 /\ <<c>>[1] = c
  OBVIOUS
<1>3. /\ <<c>> \o s \in Chars /\ Len(<<c>> \o s) = 1 + Len(s)
      /\ \A i \in 1 .. 1 + Len(s) : (<<c>> \o s)[i] = IF i <= 1 THEN <<c>>[i] ELSE s[i - 1]
  BY <1>2, ConcatProperties DEF Chars
<1>4. ASSUME NEW n, NEW src, NEW k \in Int, Counts(s, n, src, k), c = <<n, src, k>>
      PROVE  Counts(<<c>> \o s, n, src, k - 1)
  <2> SUFFICES ASSUME NEW i \in 1 .. 1 + Len(s)
               PROVE  (<<c>> \o s)[i] = <<n, src, k - 1 + i>>
    BY <1>3 DEF Counts
  <2>1. CASE i = 1
    <3>1. (<<c>> \o s)[i] = c
      BY <1>1, <1>2, <1>3, <2>1
    <3>2. k - 1 + i = k
      BY <2>1
    <3> QED BY <3>1, <3>2, <1>4
  <2>2. CASE i # 1
    <3>1. i - 1 \in 1 .. Len(s) /\ ~(i <= 1) /\ k + (i - 1) = k - 1 + i
      BY <1>1, <2>2
    <3>2. (<<c>> \o s)[i] = s[i - 1]
      BY <1>3, <3>1
    <3> QED BY <1>4, <3>1, <3>2 DEF Counts
  <2> QED BY <2>1, <2>2
<1> QED BY <1>1, <1>3, <1>4

LEMMA HeadTailCounts ==
  ASSUME NEW s \in Chars, s # <<>>
  PROVE  /\ Head(s) \in Char /\ Tail(s) \in Chars /\ Len(Tail(s)) = Len(s) - 1
         /\ \A n, src : \A k \in Int :
              Counts(s, n, src, k)
                => Head(s) = <<n, src, k + 1>> /\ Counts(Tail(s), n, src, k + 1)
<1>1. Len(s) \in Nat \ {0}
  BY EmptySeq DEF Chars
<1>2. /\ Head(s) \in Char /\ Tail(s) \in Chars /\ Len(Tail(s)) = Len(s) - 1
      /\ \A i \in 1 .. Len(Tail(s)) : Tail(s)[i] = s[i + 1]
  BY HeadTailProperties DEF Chars
<1>3. Head(s) = s[1]
  BY DEF Chars
<1>4. ASSUME NEW n, NEW src, NEW k \in Int, Counts(s, n, src, k)
      PROVE  Head(s) = <<n, src, k + 1>> /\ Counts(Tail(s), n, src, k + 1)
  <2>1. Head(s) = <<n, src, k + 1>>
    BY <1>1, <1>3, <1>4 DEF Counts
  <2> SUFFICES ASSUME NEW i \in 1 .. Len(Tail(s))
               PROVE  Tail(s)[i] = <<n, src, k + 1 + i>>
    BY <2>1 DEF Counts
  <2>2. i + 1 \in 1 .. Len(s) /\ k + (i + 1) = k + 1 + i
    BY <1>1, <1>2
  <2> QED BY <1>2, <1>4, <2>2 DEF Counts
<1> QED BY <1>2, <1>4

LEMMA FrontLastCounts ==
  ASSUME NEW s \in Chars, s # <<>>
  PROVE  /\ Last(s) \in Char /\ Front(s) \in Chars /\ Len(Front(s)) = Len(s) - 1
         /\ \A n, src : \A k \in Int :
              Counts(s, n, src, k)
                => Last(s) = <<n, src, k + Len(s)>> /\ Counts(Front(s), n, src, k)
<1>1. Len(s) \in Nat \ {0}
  BY EmptySeq DEF Chars
<1>2. Last(s) = s[Len(s)] /\ Front(s) = SubSeq(s, 1, Len(s) - 1)
  BY DEF Last, Front
<1>3. Last(s) \in Char
  BY <1>1, <1>2, ElementOfSeq DEF Chars
<1> DEFINE b == Len(s) - 1
<1>4. b \in Nat /\ 1 <= b + 1 /\ b <= Len(s) /\ b - 1 + 1 = b
  BY <1>1
<1> HIDE DEF b
<1>5. SubSeq(s, 1, b) \in Chars /\ Len(SubSeq(s, 1, b)) = b
  BY <1>4, Parts DEF Chars
<1>6. ASSUME NEW n, NEW src, NEW k \in Int, Counts(s, n, src, k)
      PROVE  Last(s) = <<n, src, k + Len(s)>> /\ Counts(SubSeq(s, 1, b), n, src, k)
  <2>1. Last(s) = <<n, src, k + Len(s)>>
    BY <1>1, <1>2, <1>6 DEF Counts
  <2>2. Counts(SubSeq(s, 1, b), n, src, k + 1 - 1)
    BY <1>4, <1>6, PartCounts
  <2>3. k + 1 - 1 = k
    OBVIOUS
  <2> QED BY <2>1, <2>2, <2>3
<1>7. Front(s) = SubSeq(s, 1, b)
  BY <1>2 DEF b
<1> QED BY <1>3, <1>5, <1>6, <1>7 DEF b

-----------------------------------------------------------------------------
(* Writing: what a step does to the put area and to the pipe.              *)
Opens ==
  /\ is_open' /\ stdin' = <<>> /\ taken' = put /\ put' = put
  /\ \/ wbuffer' = <<>> /\ wpipe' /\ opened' = "whole"
     \/ wbuffer' = NoBuffer /\ (opened' = "whole" => ~wpipe')

CutsOff ==
  /\ wbuffer' = NoBuffer /\ ~wpipe' /\ (is_open' => is_open)
  /\ stdin' = stdin \/ (wbuffer # NoBuffer /\ stdin' = stdin \o wbuffer)
  /\ UNCHANGED <<put, taken, opened>>

Flushes ==
  /\ wbuffer # NoBuffer
  /\ stdin' = stdin \o wbuffer /\ wbuffer' = <<>>
  /\ UNCHANGED <<ppid, wpipe, put, taken, opened>>

Adds(some) ==
  /\ wbuffer # NoBuffer
  /\ wbuffer' = wbuffer \o [i \in 1 .. some |-> put + i] /\ put' = put + some
  /\ UNCHANGED <<ppid, wpipe, stdin, taken, opened>>

TakesOne ==
  /\ stdin # <<>>
  /\ stdin' = Tail(stdin) /\ taken' = Head(stdin)
  /\ UNCHANGED <<conn, wbuffer, put, opened>>

WritesNothing ==
  /\ UNCHANGED <<wbuffer, stdin, put, taken, ppid, wpipe, opened>>

WriteStep ==
  \/ Opens \/ CutsOff \/ Flushes \/ TakesOne \/ WritesNothing
  \/ \E some \in Nat \ {0} : Adds(some)

LEMMA OpenWrites ==
  ASSUME NumbersOK, BufferHasPipe, NEW mode, Open(mode) \/ OpenInterrupted(mode)
  PROVE  Opens
<1>1. is_open' /\ stdin' = <<>> /\ taken' = put /\ put' = put /\ wbuffer = NoBuffer
  BY DEF Open, OpenInterrupted, Started, NumbersOK, BufferHasPipe, is_open, caller
<1>2. CASE Open(mode)
  <2> DEFINE m == ModeOf(mode)
  <2>1. Started(m) /\ create_buffers(m) /\ opened' = "whole"
    BY <1>2 DEF Open
  <2> HIDE DEF m
  <2>2. CASE "pstdin" \in m
    BY <1>1, <2>1, <2>2 DEF Opens, Started, create_buffers
  <2>3. CASE "pstdin" \notin m
    BY <1>1, <2>1, <2>3 DEF Opens, Started, create_buffers
  <2> QED BY <2>2, <2>3
<1>3. CASE OpenInterrupted(mode)
  <2>1. opened' # "whole" /\ wbuffer' = wbuffer
    BY <1>3 DEF OpenInterrupted, memory
  <2> QED BY <1>1, <2>1 DEF Opens
<1> QED BY <1>2, <1>3

LEMMA PutWritesStep ==
  ASSUME DataAssumption, WordsOK, NEW k \in Amounts, Store(k) \/ PutWrites(k) \/ PutFails(k)
  PROVE  WriteStep
<1>1. CASE Store(k)
  <2> DEFINE some == Lowest(Room, k)
  <2>1. k \in Nat \ {0} /\ BufSz \in Nat
    BY DEF Amounts, DataAssumption
  <2>2. wbuffer # NoBuffer /\ Room \in Int /\ Room > 0
    BY <1>1, <2>1 DEF Store, Room, WordsOK
  <2>3. some \in Nat \ {0}
    BY <2>1, <2>2 DEF Lowest
  <2>4. Adds(some)
    BY <1>1, <2>2 DEF Store, Adds, conn, process, history
  <2> QED BY <2>3, <2>4 DEF WriteStep
<1>2. CASE PutWrites(k)
  <2>1. Flushes
    BY <1>2 DEF PutWrites, empty_buffer, ToWrite, Flushes, conn, process, history
  <2> QED BY <2>1 DEF WriteStep
<1>3. CASE PutFails(k)
  <2>1. WritesNothing
    BY <1>3 DEF PutFails, WritesNothing, conn, memory, process, history
  <2> QED BY <2>1 DEF WriteStep
<1> QED BY <1>1, <1>2, <1>3

LEMMA SyncWritesStep ==
  ASSUME NEW c \in Syncs, SyncExited(c) \/ SyncWrites(c) \/ SyncFails(c)
  PROVE  WriteStep
<1> USE DEF SyncedBy, Ended, close, history
<1>1. c \in {"sync", "peof", "close"}
  BY DEF Syncs
<1>2. CASE SyncExited(c)
  <2>1. CutsOff
    BY <1>1, <1>2 DEF SyncExited, CutsOff, Exited, is_open
  <2> QED BY <2>1 DEF WriteStep
<1>3. CASE SyncWrites(c)
  <2>1. wbuffer # NoBuffer /\ stdin' = stdin \o wbuffer
    BY <1>3 DEF SyncWrites, empty_buffer, ToWrite
  <2>2. CASE c = "sync"
    <3>1. Flushes
      BY <1>3, <2>1, <2>2 DEF SyncWrites, Flushes
    <3> QED BY <3>1 DEF WriteStep
  <2>3. CASE c # "sync"
    <3>1. CutsOff
      BY <1>1, <1>3, <2>1, <2>3 DEF SyncWrites, CutsOff, is_open
    <3> QED BY <3>1 DEF WriteStep
  <2> QED BY <2>2, <2>3
<1>4. CASE SyncFails(c)
  <2>1. CASE c = "sync"
    <3>1. WritesNothing
      BY <1>4, <2>1 DEF SyncFails, WritesNothing
    <3> QED BY <3>1 DEF WriteStep
  <2>2. CASE c # "sync"
    <3>1. CutsOff
      BY <1>1, <1>4, <2>2 DEF SyncFails, CutsOff, is_open
    <3> QED BY <3>1 DEF WriteStep
  <2> QED BY <2>1, <2>2
<1> QED BY <1>2, <1>3, <1>4

LEMMA WriteSteps ==
  ASSUME DataAssumption, NumbersOK, WordsOK, BufferHasPipe, [Next]_vars
  PROVE  WriteStep
<1> USE DEF conn, memory, caller, process, history
<1>1. CASE Connecting
  <2>1. ASSUME NEW mode, Open(mode) \/ OpenInterrupted(mode) PROVE WriteStep
    BY <2>1, OpenWrites DEF WriteStep
  <2>2. ASSUME Reap PROVE WriteStep
    BY <2>2 DEF Reap, WriteStep, CutsOff, is_open
  <2> QED BY <1>1, <2>1, <2>2 DEF Connecting
<1>2. CASE Writing
  BY <1>2, PutWritesStep, SyncWritesStep DEF Writing
<1>3. ASSUME NEW c, NEW k, WriteWaits(c, k) PROVE WriteStep
  BY <1>3 DEF WriteWaits, WriteStep, WritesNothing
<1>4. CASE Takes
  BY <1>4 DEF Takes, WriteStep, TakesOne
<1>5. ASSUME NEW src, Says(src), UNCHANGED taken PROVE WriteStep
  BY <1>5 DEF Says, WriteStep, WritesNothing
<1>6. CASE Ends
  BY <1>6 DEF Ends, WriteStep, WritesNothing
<1>7. ASSUME ReadWaits \/ Fill \/ FillFails \/ showmanyc PROVE WriteStep
  BY <1>7 DEF ReadWaits, Fill, FillFails, showmanyc, WriteStep, WritesNothing
<1>8. ASSUME sbumpc \/ pbackfail PROVE WriteStep
  BY <1>8 DEF sbumpc, pbackfail, WriteStep, WritesNothing
<1>9. ASSUME NEW src, read_err(src) PROVE WriteStep
  BY <1>9 DEF read_err, WriteStep, WritesNothing
<1>10. CASE UNCHANGED vars
  BY <1>10 DEF vars, WriteStep, WritesNothing
<1>11. CASE Reading
  BY <1>7, <1>11 DEF Reading
<1>12. CASE Waiting
  BY <1>3, <1>7, <1>12 DEF Waiting
<1>13. CASE Interrupted
  BY <1>7, <1>13, PutWritesStep, SyncWritesStep DEF Interrupted
<1>14. CASE Getting
  BY <1>7, <1>8, <1>9, <1>14 DEF Getting
<1>15. CASE Process
  BY <1>4, <1>5, <1>6, <1>15 DEF Process, Answers, Speaks
<1> QED BY <1>1, <1>2, <1>10, <1>11, <1>12, <1>13, <1>14, <1>15 DEF Next

-----------------------------------------------------------------------------
(* The characters of the program.                                          *)
LEMMA ConcatFollows ==
  ASSUME NEW s \in Seq(Nat), NEW t \in Seq(Nat), NEW k \in Nat, Follows(s, k), Follows(t, k + Len(s))
  PROVE  Follows(s \o t, k)
<1>1. Len(s) \in Nat /\ Len(t) \in Nat
  BY LenProperties
<1>2. /\ Len(s \o t) = Len(s) + Len(t)
      /\ \A i \in 1 .. Len(s) + Len(t) : (s \o t)[i] = IF i <= Len(s) THEN s[i] ELSE t[i - Len(s)]
  BY ConcatProperties
<1> SUFFICES ASSUME NEW i \in 1 .. Len(s) + Len(t)
             PROVE  (s \o t)[i] = k + i
  BY <1>2 DEF Follows
<1>3. CASE i <= Len(s)
  <2>1. i \in 1 .. Len(s)
    BY <1>1, <1>3
  <2> QED BY <1>2, <1>3, <2>1 DEF Follows
<1>4. CASE ~(i <= Len(s))
  <2>1. i - Len(s) \in 1 .. Len(t) /\ (k + Len(s)) + (i - Len(s)) = k + i
    BY <1>1, <1>4
  <2> QED BY <1>2, <1>4, <2>1 DEF Follows
<1> QED BY <1>3, <1>4

LEMMA NewWords ==
  ASSUME WordsOK, NEW some \in Nat \ {0}
  PROVE  LET new == [i \in 1 .. some |-> put + i]
         IN new \in Seq(Nat) /\ Len(new) = some /\ Follows(new, put)
<1> DEFINE new == [i \in 1 .. some |-> put + i]
<1>1. \A i \in 1 .. some : put + i \in Nat
  BY DEF WordsOK
<1>2. new \in Seq(Nat)
  BY <1>1, IsASeq
<1>3. DOMAIN new = 1 .. some /\ \A i \in 1 .. some : new[i] = put + i
  OBVIOUS
<1>4. DOMAIN new = 1 .. Len(new) /\ Len(new) \in Nat
  BY <1>2, LenProperties
<1> HIDE DEF new
<1>5. Len(new) = some
  BY <1>3, <1>4
<1>6. Follows(new, put)
  BY <1>3, <1>5 DEF Follows
<1> QED BY <1>2, <1>5, <1>6 DEF new

(* A buffer that was stored into is one: the first of its words is not 0.  *)
LEMMA StoredIsBuffer ==
  ASSUME WordsOK, Flows, NEW some \in Nat \ {0}, Adds(some)
  PROVE  /\ wbuffer' \in Seq(Nat) /\ wbuffer' # NoBuffer
         /\ Len(wbuffer') = Len(wbuffer) + some
         /\ Follows(wbuffer', taken + Len(stdin))
<1> DEFINE new == [i \in 1 .. some |-> put + i]
           first == taken + Len(stdin)
<1>1. new \in Seq(Nat) /\ Len(new) = some /\ Follows(new, put) /\ wbuffer' = wbuffer \o new
  BY NewWords DEF Adds
<1> HIDE DEF new
<1>2. wbuffer \in Seq(Nat) /\ Len(wbuffer) \in Nat /\ first \in Nat
  BY LenProperties DEF WordsOK
<1>3. Follows(wbuffer, first) /\ put = first + Len(wbuffer)
  BY DEF Flows, Adds
<1> HIDE DEF first
<1>4. wbuffer' \in Seq(Nat) /\ Len(wbuffer') = Len(wbuffer) + some
  BY <1>1, <1>2, ConcatProperties
<1>5. Follows(wbuffer', first)
  BY <1>1, <1>2, <1>3, ConcatFollows
<1>6. wbuffer'[1] = first + 1
  BY <1>2, <1>4, <1>5 DEF Follows
<1>7. wbuffer' # NoBuffer
  BY <1>2, <1>6 DEF NoBuffer
<1> QED BY <1>4, <1>5, <1>7 DEF first

LEMMA WritingKeeps ==
  ASSUME WordsOK, BufferHasPipe, Flows, WriteStep
  PROVE  WordsOK' /\ BufferHasPipe' /\ Flows'
<1>0. /\ stdin \in Seq(Nat) /\ wbuffer \in Seq(Nat) /\ put \in Nat /\ taken \in Nat
      /\ Len(stdin) \in Nat /\ Len(wbuffer) \in Nat
  BY LenProperties DEF WordsOK
<1>1. <<>> \in Seq(Nat) /\ Len(<<>>) = 0 /\ NoBuffer \in Seq(Nat) /\ NoBuffer # <<>>
  BY DEF NoBuffer
<1>2. stdin \o wbuffer \in Seq(Nat) /\ Len(stdin \o wbuffer) = Len(stdin) + Len(wbuffer)
  BY <1>0, ConcatProperties
<1>3. CASE Opens
  <2>1. WordsOK'
    BY <1>0, <1>1, <1>3 DEF Opens, WordsOK
  <2>2. BufferHasPipe'
    BY <1>3 DEF Opens, BufferHasPipe
  <2>3. CASE wbuffer' = NoBuffer
    BY <2>1, <2>2, <2>3 DEF Flows
  <2>4. CASE wbuffer' = <<>>
    <3>1. Follows(stdin', taken') /\ Follows(wbuffer', taken' + Len(stdin'))
      BY <1>1, <1>3, <2>4 DEF Opens, Follows
    <3>2. put' = taken' + Len(stdin') + Len(wbuffer')
      BY <1>0, <1>1, <1>3, <2>4 DEF Opens
    <3> QED BY <2>1, <2>2, <3>1, <3>2 DEF Flows
  <2> QED BY <1>3, <2>3, <2>4 DEF Opens
<1>4. CASE CutsOff
  BY <1>0, <1>1, <1>2, <1>4 DEF CutsOff, WordsOK, BufferHasPipe, Flows
<1>5. CASE Flushes
  <2>1. WordsOK'
    BY <1>0, <1>1, <1>2, <1>5 DEF Flushes, WordsOK
  <2>2. BufferHasPipe'
    BY <1>5 DEF Flushes, BufferHasPipe, is_open
  <2>3. Follows(stdin, taken) /\ Follows(wbuffer, taken + Len(stdin))
        /\ put = taken + Len(stdin) + Len(wbuffer)
    BY <1>5 DEF Flushes, Flows
  <2>4. Follows(stdin', taken')
    BY <1>0, <1>5, <2>3, ConcatFollows DEF Flushes
  <2>5. Follows(wbuffer', taken' + Len(stdin'))
    BY <1>1, <1>5 DEF Flushes, Follows
  <2>6. put' = taken' + Len(stdin') + Len(wbuffer')
    BY <1>0, <1>1, <1>2, <1>5, <2>3 DEF Flushes
  <2> QED BY <2>1, <2>2, <2>4, <2>5, <2>6 DEF Flows
<1>6. CASE TakesOne
  <2>1. Len(stdin) \in Nat \ {0} /\ Head(stdin) = stdin[1]
    BY <1>0, <1>6, EmptySeq DEF TakesOne
  <2>2. /\ Head(stdin) \in Nat /\ Tail(stdin) \in Seq(Nat) /\ Len(Tail(stdin)) = Len(stdin) - 1
        /\ \A i \in 1 .. Len(Tail(stdin)) : Tail(stdin)[i] = stdin[i + 1]
    BY <1>0, <1>6, HeadTailProperties DEF TakesOne
  <2>3. WordsOK'
    BY <1>0, <1>6, <2>2 DEF TakesOne, WordsOK
  <2>4. BufferHasPipe'
    BY <1>6 DEF TakesOne, BufferHasPipe, conn, is_open
  <2>5. CASE wbuffer = NoBuffer
    BY <1>6, <2>3, <2>4, <2>5 DEF TakesOne, Flows
  <2>6. CASE wbuffer # NoBuffer
    <3>1. Follows(stdin, taken) /\ Follows(wbuffer, taken + Len(stdin))
          /\ put = taken + Len(stdin) + Len(wbuffer)
      BY <2>6 DEF Flows
    <3>2. taken' = taken + 1 /\ taken' + Len(stdin') = taken + Len(stdin)
      BY <1>0, <1>6, <2>1, <2>2, <3>1 DEF TakesOne, Follows
    <3>3. Follows(Tail(stdin), taken + 1)
      <4> SUFFICES ASSUME NEW i \in 1 .. Len(Tail(stdin)) PROVE Tail(stdin)[i] = taken + 1 + i
        BY DEF Follows
      <4>1. i + 1 \in 1 .. Len(stdin) /\ taken + (i + 1) = taken + 1 + i
        BY <1>0, <2>1, <2>2
      <4> QED BY <2>2, <3>1, <4>1 DEF Follows
    <3>4. stdin' = Tail(stdin) /\ wbuffer' = wbuffer /\ put' = put
      BY <1>6 DEF TakesOne
    <3>5. Follows(stdin', taken') /\ Follows(wbuffer', taken' + Len(stdin'))
          /\ put' = taken' + Len(stdin') + Len(wbuffer')
      BY <3>1, <3>2, <3>3, <3>4
    <3> QED BY <2>3, <2>4, <3>5 DEF Flows
  <2> QED BY <2>5, <2>6
<1>7. CASE WritesNothing
  BY <1>7 DEF WritesNothing, WordsOK, BufferHasPipe, Flows, is_open
<1>8. ASSUME NEW some \in Nat \ {0}, Adds(some) PROVE WordsOK' /\ BufferHasPipe' /\ Flows'
  <2>1. /\ wbuffer' \in Seq(Nat) /\ Len(wbuffer') = Len(wbuffer) + some
        /\ Follows(wbuffer', taken + Len(stdin))
    BY <1>8, StoredIsBuffer
  <2>2. put' = put + some /\ stdin' = stdin /\ taken' = taken
    BY <1>8 DEF Adds
  <2>3. BufferHasPipe'
    BY <1>8 DEF Adds, BufferHasPipe, is_open
  <2>4. Follows(stdin, taken) /\ put = taken + Len(stdin) + Len(wbuffer)
    BY <1>8 DEF Flows, Adds
  <2>5. put' = taken' + Len(stdin') + Len(wbuffer')
    BY <1>0, <2>1, <2>2, <2>4
  <2> QED BY <1>0, <2>1, <2>2, <2>3, <2>4, <2>5 DEF WordsOK, Flows
<1> QED BY <1>3, <1>4, <1>5, <1>6, <1>7, <1>8 DEF WriteStep

LEMMA WritingKeepsBuffer ==
  ASSUME WordsOK, BufferHasPipe, Flows, PipeHasBuffer, NotTaken, WriteStep
  PROVE  PipeHasBuffer' /\ NotTaken'
<1>1. <<>> # NoBuffer
  BY DEF NoBuffer
<1> USE DEF PipeHasBuffer, NotTaken
<1>2. CASE Opens
  BY <1>1, <1>2 DEF Opens
<1>3. CASE CutsOff
  BY <1>3 DEF CutsOff
<1>4. CASE Flushes
  BY <1>1, <1>4 DEF Flushes, is_open
<1>5. CASE TakesOne
  BY <1>5 DEF TakesOne, conn, is_open
<1>6. CASE WritesNothing
  BY <1>6 DEF WritesNothing, is_open
<1>7. ASSUME NEW some \in Nat \ {0}, Adds(some) PROVE PipeHasBuffer' /\ NotTaken'
  BY <1>7, StoredIsBuffer DEF Adds, is_open
<1> QED BY <1>2, <1>3, <1>4, <1>5, <1>6, <1>7 DEF WriteStep

-----------------------------------------------------------------------------
(* Reading: what a step does to the areas, their arrays and the pipes from *)
(* the process.  Begins opens the stream, CutsReading closes it.           *)
Modes == SUBSET (Sources \cup {"pstdin"})
areas == <<rsrc, area, rbufstate>>
reading == <<class, opens, rpipe, rbuffer, rsrc, area, rbufstate, out, said, got, run, stale,
             opened>>

Begins(mode) ==
  /\ ~is_open /\ opens < MaxOpens[class] /\ call' = "idle"
  /\ class = "ipstream" => mode \cap Sources # {}
  /\ Started(mode)
  /\ \/ create_buffers(mode) /\ opened' = "whole"
     \/ UNCHANGED memory /\ opened' = IF LeftOver THEN "cut_over" ELSE "cut"

CutsReading ==
  /\ ~is_open' /\ call' = "idle" /\ area' = NoArea
  /\ rpipe' = [src \in Sources |-> 0] /\ rbuffer' = [src \in Sources |-> 0]
  /\ UNCHANGED <<class, opens, rsrc, rbufstate, out, said, history>>

(* The stream stays as it is, but for the areas and what was read.         *)
Connected == UNCHANGED <<conn, rbuffer, rsrc, rbufstate, said, stale, opened>> /\ call' = "idle"

Fills == underflow /\ fill_buffer /\ Connected /\ UNCHANGED got
Empties == underflow /\ NotFilled /\ Connected /\ UNCHANGED <<out, got>>
Peeks == area.ahead = <<>> /\ Filled(<<>>) /\ Connected /\ UNCHANGED <<out, got>>

Extracts ==
  /\ area.ahead # <<>>
  /\ area' = [area EXCEPT !.back = Append(@, Head(area.ahead)), !.ahead = Tail(@)]
  /\ got' = [got EXCEPT ![rsrc] = @ + 1]
  /\ run' = [run EXCEPT ![rsrc] = Lowest(@ + 1, PbSz)]
  /\ Connected /\ UNCHANGED out

PutsBack ==
  /\ area.back # <<>>
  /\ area' = [area EXCEPT !.back = Front(@), !.ahead = <<Last(area.back)>> \o @]
  /\ got' = [got EXCEPT ![rsrc] = @ - 1]
  /\ run' = [run EXCEPT ![rsrc] = @ - 1]
  /\ Connected /\ UNCHANGED out

Switches(src) ==
  /\ rpipe[src] # 0 /\ rsrc # src
  /\ rsrc' = src /\ area' = rbufstate /\ rbufstate' = area
  /\ call' = "idle"
  /\ UNCHANGED <<conn, rbuffer, out, said, history>>

Hears(src) ==
  /\ opens > 0
  /\ said' = [said EXCEPT ![src] = @ + 1]
  /\ out' = [out EXCEPT ![opens][src] = Append(@, <<opens, src, said[src] + 1>>)]
  /\ UNCHANGED <<conn, call, rbuffer, areas, history>>

ReadsNothing ==
  /\ UNCHANGED reading
  /\ is_open' => is_open
  /\ call' = "get" => call = "get" \/ area.ahead = <<>>

ReadStep ==
  \/ \E mode \in Modes : Begins(mode)
  \/ CutsReading \/ Fills \/ Empties \/ Peeks \/ Extracts \/ PutsBack
  \/ \E src \in Sources : Switches(src) \/ Hears(src)
  \/ ReadsNothing

LEMMA OpenReads ==
  ASSUME DataAssumption, NumbersOK, NEW mode \in Requests[class],
         Open(mode) \/ OpenInterrupted(mode)
  PROVE  ReadStep
<1> DEFINE m == ModeOf(mode)
<1>1. mode \in Modes
  BY DEF DataAssumption, NumbersOK, Modes
<1>2. m \in Modes /\ (class = "ipstream" => m \cap Sources # {})
  BY <1>1 DEF ModeOf, Modes, Sources
<1>3. Started(m) /\ ~is_open /\ opens < MaxOpens[class] /\ call = "idle"
  BY DEF Open, OpenInterrupted
<1>4. \/ create_buffers(m) /\ opened' = "whole"
      \/ UNCHANGED memory /\ opened' = IF LeftOver THEN "cut_over" ELSE "cut"
  BY DEF Open, OpenInterrupted
<1> HIDE DEF m
<1>5. call' = "idle"
  BY <1>3 DEF Started, caller
<1>6. Begins(m)
  BY <1>2, <1>3, <1>4, <1>5 DEF Begins
<1> QED BY <1>2, <1>6 DEF ReadStep

LEMMA SyncReads ==
  ASSUME NEW c \in Syncs, SyncExited(c) \/ SyncWrites(c) \/ SyncFails(c), NumbersOK
  PROVE  ReadStep
<1>1. c \in {"sync", "peof", "close"}
  BY DEF Syncs
<1>2. PICK p, w, b : SyncedBy(c, p, w, b) /\ (p = 0 \/ p = ppid)
  BY DEF SyncExited, SyncWrites, SyncFails
<1>3. call' = "idle" /\ UNCHANGED <<class, opens, rsrc, rbufstate, out, said, history>>
  BY <1>2 DEF SyncedBy
<1>4. CASE c = "close"
  <2>1. close
    BY <1>2, <1>4 DEF SyncedBy
  <2>2. ~is_open'
    <3>1. ppid' = IF is_open THEN 0 ELSE ppid
      BY <2>1 DEF close
    <3> QED BY <3>1 DEF is_open, NumbersOK
  <2>3. CutsReading
    BY <1>3, <2>1, <2>2 DEF CutsReading, close
  <2> QED BY <2>3 DEF ReadStep
<1>5. CASE c # "close"
  <2>1. \E q, v, a : Ended(q, v, a) /\ q = p
    BY <1>1, <1>2, <1>5 DEF SyncedBy
  <2>2. UNCHANGED <<rpipe, rbuffer, area>> /\ ppid' = p
    BY <2>1 DEF Ended
  <2>3. is_open' => is_open
    BY <1>2, <2>2 DEF is_open
  <2>4. ReadsNothing
    BY <1>3, <2>2, <2>3 DEF ReadsNothing, reading, history
  <2> QED BY <2>4 DEF ReadStep
<1> QED BY <1>4, <1>5

LEMMA Quiet ==
  ASSUME UNCHANGED <<conn, memory, out, said, history>>,
         call' = "get" => call = "get" \/ area.ahead = <<>>
  PROVE  ReadStep
<1>1. UNCHANGED reading /\ ppid' = ppid
  BY DEF reading, conn, memory, history
<1>2. is_open' => is_open
  BY <1>1 DEF is_open
<1> QED BY <1>1, <1>2 DEF ReadsNothing, ReadStep

LEMMA PutReads ==
  ASSUME NEW k, Store(k) \/ PutWrites(k) \/ PutFails(k)
  PROVE  ReadStep
<1>1. UNCHANGED <<conn, rbuffer, rsrc, area, rbufstate, out, said, history>>
  BY DEF Store, PutWrites, PutFails, memory, process
<1>2. call' # "get"
  BY DEF Store, PutWrites, PutFails
<1>3. UNCHANGED reading /\ ppid' = ppid
  BY <1>1 DEF reading, conn, history
<1>4. is_open' => is_open
  BY <1>3 DEF is_open
<1> QED BY <1>2, <1>3, <1>4 DEF ReadsNothing, ReadStep

LEMMA GetReads ==
  ASSUME Fill \/ FillFails \/ showmanyc \/ sbumpc \/ pbackfail
  PROVE  ReadStep
<1> USE DEF Connected, conn, process, caller
<1>1. CASE Fill
  <2>1. Fills
    BY <1>1 DEF Fill, Fills
  <2> QED BY <2>1 DEF ReadStep
<1>2. CASE FillFails
  <2>1. Empties
    BY <1>2 DEF FillFails, Empties
  <2> QED BY <2>1 DEF ReadStep
<1>3. CASE showmanyc
  <2>1. underflow /\ area.ahead = <<>> /\ Connected /\ UNCHANGED got
    BY <1>3 DEF showmanyc, underflow
  <2>2. \/ fill_buffer \/ (Filled(<<>>) /\ UNCHANGED out) \/ (NotFilled /\ UNCHANGED out)
    BY <1>3 DEF showmanyc
  <2>3. Fills \/ Peeks \/ Empties
    BY <2>1, <2>2 DEF Fills, Peeks, Empties
  <2> QED BY <2>3 DEF ReadStep
<1>4. CASE sbumpc
  <2>1. Extracts
    BY <1>4 DEF sbumpc, Extracts
  <2> QED BY <2>1 DEF ReadStep
<1>5. CASE pbackfail
  <2>1. PutsBack
    BY <1>5 DEF pbackfail, PutsBack
  <2> QED BY <2>1 DEF ReadStep
<1> QED BY <1>1, <1>2, <1>3, <1>4, <1>5

LEMMA ReadSteps ==
  ASSUME DataAssumption, NumbersOK, OwesOK, [Next]_vars
  PROVE  ReadStep
<1>1. CASE Connecting
  <2>1. ASSUME Reap PROVE ReadStep
    <3>1. ppid' = 0 /\ call' = call /\ UNCHANGED reading
      BY <2>1 DEF Reap, reading, history, caller, process
    <3>2. ~is_open'
      BY <3>1 DEF is_open
    <3> QED BY <3>1, <3>2 DEF ReadStep, ReadsNothing
  <2> QED BY <1>1, <2>1, OpenReads DEF Connecting
<1>2. CASE Writing
  BY <1>2, PutReads, SyncReads DEF Writing
<1>3. ASSUME NEW c \in Syncs \cup {"put"}, NEW k, WriteWaits(c, k) PROVE ReadStep
  <2>1. call' # "get"
    BY <1>3 DEF WriteWaits, Syncs
  <2> QED BY <1>3, <2>1, Quiet DEF WriteWaits, process
<1>4. ASSUME Takes \/ Ends PROVE ReadStep
  BY <1>4, Quiet DEF Takes, Ends, caller
<1>5. ASSUME NEW src \in Sources, Runs, Says(src) PROVE ReadStep
  <2>1. Hears(src)
    BY <1>5 DEF Runs, Says, Hears, memory, caller, areas
  <2> QED BY <2>1 DEF ReadStep
<1>6. ASSUME ReadWaits PROVE ReadStep
  BY <1>6, Quiet DEF ReadWaits, underflow, process
<1>7. ASSUME NEW src \in Sources, read_err(src) PROVE ReadStep
  <2>1. Switches(src)
    BY <1>7 DEF read_err, Switches, process, caller
  <2> QED BY <2>1 DEF ReadStep
<1>8. CASE UNCHANGED vars
  BY <1>8, Quiet DEF vars, process, caller
<1>9. CASE Reading
  BY <1>9, GetReads DEF Reading
<1>10. CASE Waiting
  BY <1>3, <1>6, <1>10 DEF Waiting
<1>11. CASE Interrupted
  BY <1>11, GetReads, PutReads, SyncReads DEF Interrupted
<1>12. CASE Getting
  BY <1>7, <1>12, GetReads DEF Getting
<1>13. CASE Process
  <2>1. ASSUME Answers PROVE ReadStep
    <3>1. owes \in Sources /\ Runs /\ Says(owes)
      BY <2>1 DEF Answers, OwesOK
    <3> QED BY <3>1, <1>5
  <2>2. ASSUME NEW src \in Sources, Speaks(src) PROVE ReadStep
    BY <2>2, <1>5 DEF Speaks
  <2> QED BY <1>4, <1>13, <2>1, <2>2 DEF Process
<1> QED BY <1>1, <1>2, <1>8, <1>9, <1>10, <1>11, <1>12, <1>13 DEF Next

-----------------------------------------------------------------------------
(* An area with nothing in it.                                             *)
LEMMA Empty ==
  /\ NoArea \in AreaRecord /\ NoArea.src = "none" /\ NoArea.back = <<>> /\ NoArea.ahead = <<>>
  /\ <<>> \in Chars /\ Len(<<>>) = 0 /\ <<>> \o <<>> = <<>>
  /\ \A n, src, k : Counts(<<>>, n, src, k)
<1>1. <<>> \in Chars /\ Len(<<>>) = 0
  BY DEF Chars
<1>2. <<>> \o <<>> = <<>>
  BY <1>1, ConcatEmptySeq DEF Chars
<1>3. \A n, src, k : Counts(<<>>, n, src, k)
  BY <1>1 DEF Counts
<1> QED BY <1>1, <1>2, <1>3 DEF NoArea, AreaRecord

LEMMA FreshIs ==
  ASSUME NumbersOK, NEW src \in Sources
  PROVE  /\ Fresh(src) \in AreaRecord
         /\ Fresh(src).src = src /\ Fresh(src).n = opens + 1
         /\ Fresh(src).back = <<>> /\ Fresh(src).ahead = <<>>
<1>1. NoArea \in AreaRecord /\ opens + 1 \in Nat /\ Fresh(src) = [NoArea EXCEPT !.src = src, !.n = opens + 1]
  BY Empty DEF NumbersOK, Fresh
<1> QED BY <1>1, Empty DEF AreaRecord

(* Both areas are of some source, and there are two of them.               *)
LEMMA AreaOfIs ==
  ASSUME AreasOK
  PROVE  \A src \in Sources : AreaOf(src) \in AreaRecord
BY DEF AreasOK, AreaOf

LEMMA BeginsKeeps ==
  ASSUME DataAssumption, ReadInv, NEW mode \in Modes, Begins(mode)
  PROVE  ReadInv'
<1> USE DEF Begins
<1>1. /\ opens \in Nat /\ opens' = opens + 1 /\ MaxOpens[class] \in Nat /\ class' = class
      /\ opens' \in 0 .. MaxOpens[class] /\ out' = out
  <2>1. class \in Classes /\ opens \in 0 .. MaxOpens[class] /\ opens < MaxOpens[class]
    BY DEF ReadInv, NumbersOK
  <2>2. MaxOpens[class] \in Nat
    BY <2>1 DEF DataAssumption
  <2>3. opens' = opens + 1 /\ class' = class /\ out' = out
    BY DEF Started
  <2> QED BY <2>1, <2>2, <2>3
<1>2. \A src \in Sources : rpipe'[src] = IF src \in mode THEN opens + 1 ELSE rpipe[src]
  BY DEF Started
<1>3. \A src \in Sources : rpipe'[src] = opens + 1 <=> src \in mode
  BY <1>1, <1>2 DEF ReadInv, NumbersOK
<1>4. \A src \in Sources : said'[src] = 0 /\ got'[src] = 0 /\ run'[src] = 0
  BY DEF Started
<1>5. ~stale' => ~stale /\ rbufstate = NoArea
  BY DEF Started
<1>6. rsrc \in Sources /\ area \in AreaRecord /\ rbufstate \in AreaRecord
  BY DEF ReadInv, AreasOK
<1>7. rbuffer' \in [Sources -> Nat]
  <2>1. CASE create_buffers(mode)
    BY <1>1, <2>1 DEF create_buffers, ReadInv, NumbersOK
  <2>2. CASE UNCHANGED memory
    BY <2>2 DEF memory, ReadInv, NumbersOK
  <2> QED BY <2>1, <2>2
<1>8. NumbersOK'
  <2>1. rpipe' \in [Sources -> 0 .. opens + 1]
    BY <1>1, <1>2 DEF Started, ReadInv, NumbersOK
  <2>2. said' \in [Sources -> Nat] /\ got' \in [Sources -> Int] /\ run' \in [Sources -> Int]
    BY DEF Started
  <2>3. opens' > 0
    BY <1>1
  <2> QED BY <1>1, <1>7, <2>1, <2>2, <2>3 DEF ReadInv, NumbersOK
<1>9. OutOK' /\ OutEmpty'
  BY <1>1 DEF ReadInv, OutOK, OutEmpty
<1>10. GetsEmpty'
  BY DEF GetsEmpty
<1>11. rbufstate' = rbufstate
  BY DEF create_buffers, memory
(* The active area is the one before, of which the arrays are, or fresh.   *)
<1>12. \/ /\ create_buffers(mode) /\ mode \cap Sources # {}
          /\ rsrc' \in Sources \cap mode /\ area' = Fresh(rsrc')
       \/ /\ UNCHANGED <<rsrc, area, rbuffer>>
          /\ create_buffers(mode) => mode \cap Sources = {}
  <2>1. CASE create_buffers(mode)
    <3>1. CASE mode \cap Sources # {}
      BY <2>1, <3>1 DEF create_buffers, Sources
    <3>2. CASE mode \cap Sources = {}
      <4>1. area' = area /\ rsrc' = rsrc
        BY <2>1, <3>2 DEF create_buffers, Sources
      <4>2. rbuffer' = [src \in Sources |-> rbuffer[src]]
        BY <2>1, <3>2 DEF create_buffers
      <4>3. rbuffer' = rbuffer
        BY <4>2 DEF ReadInv, NumbersOK
      <4> QED BY <3>2, <4>1, <4>3
    <3> QED BY <3>1, <3>2
  <2>2. CASE ~create_buffers(mode)
    BY <2>2 DEF memory
  <2> QED BY <2>1, <2>2
<1>13. AreasOK'
  <2>1. CASE rsrc' \in Sources /\ area' = Fresh(rsrc')
    BY <1>6, <1>11, <2>1, FreshIs DEF ReadInv, AreasOK
  <2>2. CASE UNCHANGED <<rsrc, area>>
    BY <1>6, <1>11, <2>2 DEF AreasOK
  <2> QED BY <1>12, <2>1, <2>2
<1>14. EmptyOnNone'
  <2>1. CASE rsrc' \in Sources /\ area' = Fresh(rsrc')
    BY <1>11, <2>1, FreshIs DEF ReadInv, EmptyOnNone
  <2>2. CASE UNCHANGED area
    BY <1>11, <2>2 DEF ReadInv, EmptyOnNone
  <2> QED BY <1>12, <2>1, <2>2
<1>15. Alive'
  <2> SUFFICES ASSUME ~stale'
               PROVE  /\ Live(area)' /\ area'.src \in {rsrc', "none"}
                      /\ rbufstate'.src # rsrc' /\ Live(rbufstate)'
    BY DEF Alive
  <2>1. rbufstate' = NoArea /\ ~stale
    BY <1>5, <1>11
  <2>2. Live(rbufstate)' /\ rbufstate'.src # rsrc'
    BY <1>13, <2>1, Empty DEF Live, AreasOK, Sources
  <2>3. CASE rsrc' \in Sources /\ area' = Fresh(rsrc')
    <3>1. area'.back \o area'.ahead = <<>> /\ area'.src = rsrc'
      BY <2>3, Empty, FreshIs DEF ReadInv
    <3> QED BY <2>2, <3>1 DEF Live
  <2>4. CASE UNCHANGED <<rsrc, area, rbuffer>>
    BY <2>1, <2>2, <2>4 DEF ReadInv, Alive, Live
  <2> QED BY <1>12, <2>3, <2>4
<1>16. Kept'
  <2>1. AreasOK' /\ \A src \in Sources : run'[src] = 0 /\ PbSz \in Nat
    BY <1>4, <1>13 DEF DataAssumption
  <2>2. ASSUME NEW src \in Sources PROVE Len(AreaOf(src)'.back) >= 0
    <3>1. AreaOf(src)' \in AreaRecord
      BY <2>1 DEF AreaOf, AreasOK
    <3>2. AreaOf(src)'.back \in Seq(Char)
      BY <3>1 DEF AreaRecord, Chars
    <3>3. Len(AreaOf(src)'.back) \in Nat
      BY <3>2, LenProperties
    <3> QED BY <3>3
  <2> QED BY <2>1, <2>2 DEF Kept
<1>17. Ordered'
  <2> SUFFICES ASSUME Sound', ~stale', NEW src \in Sources, Piped(src)'
               PROVE  OrderOf(src)'
    BY DEF Ordered
  <2>1. rbufstate' = NoArea /\ (area' = NoArea \/ (rsrc' \in Sources /\ area' = Fresh(rsrc')))
    <3>1. CASE create_buffers(mode)
      <4>1. src \in mode
        BY <1>1, <1>3 DEF Piped
      <4> QED BY <1>5, <1>11, <1>12, <3>1, <4>1
    <3>2. CASE UNCHANGED memory /\ opened' = IF LeftOver THEN "cut_over" ELSE "cut"
      BY <1>11, <3>2 DEF Sound, LeftOver, memory
    <3> QED BY <3>1, <3>2
  <2>2. area'.back = <<>> /\ area'.ahead = <<>>
    BY <2>1, Empty, FreshIs DEF ReadInv
  <2>3. AreaOf(src)'.back = <<>> /\ AreaOf(src)'.ahead = <<>>
    BY <2>1, <2>2, Empty DEF AreaOf
  <2>4. out[opens + 1][src] = <<>>
    BY <1>1 DEF ReadInv, OutEmpty
  <2> QED BY <1>1, <1>4, <2>3, <2>4, Empty DEF OrderOf
<1>18. SourcesReady'
  <2> SUFFICES ASSUME opened' = "whole"
               PROVE  /\ class' = "ipstream" => \E src \in Sources : Piped(src)'
                      /\ \A src \in Sources : Piped(src)' => rbuffer'[src] = opens'
    BY DEF SourcesReady
  <2>1. \A src \in Sources : rbuffer'[src] = IF src \in mode THEN opens + 1 ELSE rbuffer[src]
    BY DEF create_buffers
  <2> QED BY <1>1, <1>3, <2>1 DEF Piped
<1>19. NotGiven'
  <2> SUFFICES ASSUME opened' = "cut"
               PROVE  /\ \A src \in Sources : rbuffer'[src] = 0 /\ got'[src] = 0
                      /\ \A a \in {area', rbufstate'} : a.back = <<>> /\ a.ahead = <<>>
    BY DEF NotGiven
  <2>1. UNCHANGED memory /\ ~LeftOver
    OBVIOUS
  <2> QED BY <1>4, <2>1, Empty DEF LeftOver, memory
<1> QED BY <1>8, <1>9, <1>10, <1>13, <1>14, <1>15, <1>16, <1>17, <1>18, <1>19 DEF ReadInv

LEMMA CutsKeeps ==
  ASSUME ReadInv, CutsReading
  PROVE  ReadInv'
<1> USE DEF CutsReading
<1>1. NumbersOK' /\ OutOK' /\ OutEmpty'
  BY DEF ReadInv, NumbersOK, OutOK, OutEmpty, history
<1>2. AreasOK' /\ EmptyOnNone'
  BY Empty DEF ReadInv, AreasOK, EmptyOnNone
<1>3. GetsEmpty'
  BY DEF GetsEmpty
<1>4. Kept'
  BY DEF ReadInv, Kept, history
<1>5. Ordered' /\ SourcesReady' /\ NotGiven'
  BY DEF Ordered, SourcesReady, NotGiven, Sound
<1>6. Alive'
  <2>1. Live(area)' /\ area'.src \in {rsrc', "none"}
    BY Empty DEF Live
  <2>2. ~stale' => rbufstate'.src # rsrc'
    BY DEF ReadInv, Alive, history
  <2> QED BY <2>1, <2>2 DEF Alive
<1> QED BY <1>1, <1>2, <1>3, <1>4, <1>5, <1>6 DEF ReadInv

LEMMA NothingKeeps ==
  ASSUME ReadInv, ReadsNothing
  PROVE  ReadInv'
<1> USE DEF ReadsNothing, reading
<1>1. NumbersOK' /\ AreasOK' /\ OutOK' /\ EmptyOnNone' /\ GetsEmpty' /\ OutEmpty'
  BY DEF ReadInv, NumbersOK, AreasOK, OutOK, EmptyOnNone, GetsEmpty, OutEmpty
<1>2. Alive'
  BY DEF ReadInv, Alive, Live
<1>3. Kept'
  BY DEF ReadInv, Kept, AreaOf
<1>4. Ordered' /\ SourcesReady' /\ NotGiven'
  BY DEF ReadInv, Ordered, SourcesReady, NotGiven, Sound, OrderOf, AreaOf, Piped
<1> QED BY <1>1, <1>2, <1>3, <1>4 DEF ReadInv

LEMMA SwitchesKeeps ==
  ASSUME ReadInv, NEW src \in Sources, Switches(src)
  PROVE  ReadInv'
<1> USE DEF Switches
<1>1. UNCHANGED <<class, opens, ppid, rpipe, rbuffer, out, said, got, run, stale, opened>>
  BY DEF conn, history
<1>2. NumbersOK' /\ AreasOK' /\ OutOK' /\ EmptyOnNone' /\ GetsEmpty' /\ OutEmpty'
  BY <1>1 DEF is_open, ReadInv, NumbersOK, AreasOK, OutOK, EmptyOnNone, GetsEmpty, OutEmpty
<1>3. \A s \in Sources : s = src \/ s = rsrc
  BY DEF ReadInv, AreasOK, Sources
<1>4. \A s \in Sources : AreaOf(s)' = AreaOf(s)
  BY <1>3 DEF AreaOf
<1>5. Alive'
  <2> SUFFICES ASSUME ~stale
               PROVE  /\ Live(area)' /\ area'.src \in {rsrc', "none"}
                      /\ rbufstate'.src # rsrc' /\ Live(rbufstate)'
    BY <1>1 DEF Alive
  <2>1. Live(area) /\ area.src \in {rsrc, "none"} /\ rbufstate.src # rsrc /\ Live(rbufstate)
    BY DEF ReadInv, Alive
  <2>2. Live(area)' /\ Live(rbufstate)'
    BY <1>1, <2>1 DEF Live
  <2>3. rbufstate.src \in {"pstdout", "pstderr", "none"}
    BY DEF ReadInv, AreasOK, AreaRecord, Sources
  <2>4. rsrc' = src /\ area'.src \in {src, "none"}
    BY <1>3, <2>1, <2>3 DEF Sources
  <2>5. rbufstate'.src # src
    BY <2>1 DEF Sources
  <2> QED BY <2>2, <2>4, <2>5
<1>6. Kept'
  BY <1>1, <1>4 DEF ReadInv, Kept, is_open
<1>7. Ordered' /\ SourcesReady' /\ NotGiven'
  BY <1>1, <1>4 DEF ReadInv, Ordered, SourcesReady, NotGiven, OrderOf, Piped, Sound, is_open
<1> QED BY <1>2, <1>5, <1>6, <1>7 DEF ReadInv

(* A step that leaves the stream connected as it is and changes no more    *)
(* than the area, what is known of it, and the pipe, of the present source.*)
AreaFits ==
  /\ area' \in AreaRecord
  /\ area'.src = "none" => area'.back = <<>> /\ area'.ahead = <<>>
  /\ ~stale => Live(area)' /\ area'.src \in {rsrc, "none"}

RunFits ==
  /\ run' \in [Sources -> Int] /\ got' \in [Sources -> Int]
  /\ run'[rsrc] <= PbSz /\ (is_open => Len(area'.back) >= run'[rsrc])
  /\ \A src \in Sources \ {rsrc} : run'[src] = run[src] /\ got'[src] = got[src]

PipeFits ==
  /\ OutOK' /\ OutEmpty'
  /\ \A src \in Sources \ {rsrc}, n \in 1 .. opens : out'[n][src] = out[n][src]
  /\ Sound /\ ~stale => \A src \in Sources : src = rsrc /\ Piped(src) => OrderOf(src)'

MuteFits ==
  is_open /\ opened = "cut" => area'.back = <<>> /\ area'.ahead = <<>> /\ got' = got

LEMMA ConnectedKeeps ==
  ASSUME ReadInv, Connected, AreaFits, RunFits, PipeFits, MuteFits
  PROVE  ReadInv'
<1>1. /\ UNCHANGED <<class, opens, ppid, rpipe, rbuffer, rsrc, rbufstate, said, stale, opened>>
      /\ call' = "idle"
  BY DEF Connected, conn
<1>2. NumbersOK' /\ AreasOK' /\ OutOK' /\ OutEmpty' /\ GetsEmpty'
  BY <1>1 DEF is_open, ReadInv, NumbersOK, AreasOK, GetsEmpty, AreaFits, RunFits, PipeFits
<1>3. EmptyOnNone'
  BY <1>1 DEF ReadInv, EmptyOnNone, AreaFits
<1>4. Alive'
  <2> SUFFICES ASSUME ~stale
               PROVE  /\ Live(area)' /\ area'.src \in {rsrc', "none"}
                      /\ rbufstate'.src # rsrc'
                      /\ Live(rbufstate)' \/ (~is_open' /\ \A src \in Sources : rpipe'[src] = 0)
    BY <1>1 DEF Alive
  <2>1. Live(rbufstate) \/ (~is_open /\ \A src \in Sources : rpipe[src] = 0)
    BY DEF ReadInv, Alive
  <2>2. Live(rbufstate) => Live(rbufstate)'
    BY <1>1 DEF Live
  <2>3. rbufstate.src # rsrc
    BY DEF ReadInv, Alive
  <2> QED BY <1>1, <2>1, <2>2, <2>3 DEF AreaFits, is_open
<1>5. Kept'
  BY <1>1 DEF ReadInv, Kept, AreaOf, RunFits, is_open
<1>6. Ordered'
  <2>0. (Sound' => Sound) /\ stale' = stale /\ \A src \in Sources : Piped(src)' => Piped(src)
    BY <1>1 DEF Sound, is_open, Piped
  <2> SUFFICES ASSUME Sound, ~stale, NEW src \in Sources, Piped(src)
               PROVE  OrderOf(src)'
    BY <2>0, Zenon DEF Ordered
  <2>1. CASE src = rsrc
    BY <2>1 DEF PipeFits
  <2>2. CASE src # rsrc
    <3>1. OrderOf(src)
      BY DEF ReadInv, Ordered
    <3>2. opens \in 1 .. opens
      BY DEF ReadInv, NumbersOK, Sound
    <3>3. AreaOf(src)' = AreaOf(src) /\ got'[src] = got[src] /\ said'[src] = said[src]
      BY <1>1, <2>2 DEF AreaOf, RunFits
    <3>4. out'[opens][src] = out[opens][src]
      BY <2>2, <3>2 DEF PipeFits
    <3> QED BY <1>1, <3>1, <3>3, <3>4 DEF OrderOf
  <2> QED BY <2>1, <2>2
<1>7. SourcesReady'
  BY <1>1 DEF ReadInv, SourcesReady, is_open, Piped
<1>8. NotGiven'
  BY <1>1 DEF ReadInv, NotGiven, MuteFits, is_open
<1> QED BY <1>2, <1>3, <1>4, <1>5, <1>6, <1>7, <1>8 DEF ReadInv

(* What fits in the area is what is there, in the order of the process.    *)
LEMMA AreaTypes ==
  ASSUME ReadInv
  PROVE  /\ rsrc \in Sources /\ rsrc # "none" /\ rbuffer[rsrc] \in Nat
         /\ area \in AreaRecord /\ area.back \in Chars /\ area.ahead \in Chars
         /\ Len(area.back) \in Nat /\ Len(area.ahead) \in Nat
         /\ got[rsrc] \in Int /\ run[rsrc] \in Int /\ run[rsrc] <= PbSz
         /\ is_open => Len(area.back) >= run[rsrc]
         /\ got \in [Sources -> Int] /\ run \in [Sources -> Int]
<1>1. rsrc \in Sources /\ area \in AreaRecord
  BY DEF ReadInv, AreasOK
<1>2. area.back \in Chars /\ area.ahead \in Chars
  BY <1>1 DEF AreaRecord
<1>3. Len(area.back) \in Nat /\ Len(area.ahead) \in Nat
  BY <1>2, LenProperties DEF Chars
<1>4. rsrc # "none"
  BY <1>1 DEF Sources
<1>5. rbuffer \in [Sources -> Nat] /\ got \in [Sources -> Int] /\ run \in [Sources -> Int]
  BY DEF ReadInv, NumbersOK
<1>6. run[rsrc] <= PbSz /\ (is_open => Len(AreaOf(rsrc).back) >= run[rsrc])
  BY <1>1 DEF ReadInv, Kept
<1>7. AreaOf(rsrc) = area
  BY DEF AreaOf
<1> QED BY <1>1, <1>2, <1>3, <1>4, <1>5, <1>6, <1>7

(* The order of the source at hand.                                        *)
OrderHere ==
  /\ Counts(area.back, opens, rsrc, got[rsrc] - Len(area.back))
  /\ Counts(area.ahead, opens, rsrc, got[rsrc])
  /\ Counts(out[opens][rsrc], opens, rsrc, got[rsrc] + Len(area.ahead))
  /\ said[rsrc] = got[rsrc] + Len(area.ahead) + Len(out[opens][rsrc])

LEMMA HereIs ==
  ASSUME ReadInv, Sound, ~stale, Piped(rsrc)
  PROVE  OrderHere /\ opens \in 1 .. MaxOpens[class] /\ out[opens][rsrc] \in Chars
         /\ Len(out[opens][rsrc]) \in Nat
<1>1. OrderOf(rsrc) /\ AreaOf(rsrc) = area
  BY DEF ReadInv, Ordered, AreaOf, AreasOK
<1>2. OrderHere
  BY <1>1 DEF OrderOf, OrderHere
<1>3. opens \in 1 .. MaxOpens[class]
  BY DEF ReadInv, NumbersOK, Sound
<1>4. out[opens][rsrc] \in Chars
  BY <1>3 DEF ReadInv, OutOK, AreasOK
<1> QED BY <1>2, <1>3, <1>4, LenProperties DEF Chars

LEMMA OrderStays ==
  ASSUME UNCHANGED <<opens, rsrc, rbufstate>>, OrderHere', NEW src \in Sources, src = rsrc
  PROVE  OrderOf(src)'
BY DEF OrderOf, OrderHere, AreaOf

(* After read() the area begins with what can still be put back.           *)
LEMMA FilledArea ==
  ASSUME DataAssumption, ReadInv, NEW chars \in Chars, Len(chars) <= BufSz - PbSz,
         Filled(chars), UNCHANGED <<rbuffer, rsrc>>
  PROVE  /\ AreaFits
         /\ area'.ahead = chars /\ area'.back \in Chars /\ Len(area'.back) \in Nat
         /\ Len(area'.back) = Lowest(Len(area.back), PbSz)
         /\ \A n, src : \A k \in Int :
              Counts(area.back, n, src, k)
                => Counts(area'.back, n, src, k + Len(area.back) - Len(area'.back))
<1> DEFINE j == Lowest(Len(area.back), PbSz)
<1>1. PbSz \in Nat /\ BufSz \in Nat /\ Len(area.back) \in Nat /\ area.back \in Chars
  BY AreaTypes DEF DataAssumption
<1>2. j \in Nat /\ j <= Len(area.back) /\ j <= PbSz
  BY <1>1 DEF Lowest
<1>3. /\ area'.src = rsrc /\ area'.n = rbuffer[rsrc]
      /\ area'.ahead = chars /\ area'.back = LastOf(area.back, j)
      /\ area' = [src |-> rsrc, n |-> rbuffer[rsrc], ahead |-> chars, back |-> LastOf(area.back, j)]
  BY DEF Filled
<1> HIDE DEF j
<1>4. /\ area'.back \in Chars /\ Len(area'.back) = j
      /\ \A n, src : \A k \in Int :
           Counts(area.back, n, src, k) => Counts(area'.back, n, src, k + Len(area.back) - j)
  <2>1. /\ LastOf(area.back, j) \in Chars /\ Len(LastOf(area.back, j)) = j
        /\ \A n, src : \A k \in Int :
             Counts(area.back, n, src, k)
               => Counts(LastOf(area.back, j), n, src, k + Len(area.back) - j)
    BY <1>1, <1>2, LastCounts
  <2> QED BY <1>3, <2>1
<1>5. area' \in AreaRecord
  BY <1>3, <1>4, AreaTypes DEF AreaRecord
<1>6. Len(chars) \in Nat
  BY LenProperties DEF Chars
<1>7. Live(area)'
  BY <1>1, <1>2, <1>3, <1>4, <1>6 DEF Live
<1>8. AreaFits
  BY <1>3, <1>5, <1>7, AreaTypes DEF AreaFits
<1> QED BY <1>2, <1>3, <1>4, <1>8 DEF j

LEMMA FilledRun ==
  ASSUME DataAssumption, ReadInv, UNCHANGED <<run, got>>,
         Len(area'.back) = Lowest(Len(area.back), PbSz)
  PROVE  RunFits
BY AreaTypes DEF RunFits, Lowest, DataAssumption

LEMMA PeeksKeeps ==
  ASSUME DataAssumption, ReadInv, Peeks
  PROVE  ReadInv'
<1>1. /\ UNCHANGED <<rbuffer, rsrc, rbufstate, opens, class, out, got, run, said>> /\ Filled(<<>>)
      /\ Connected /\ area.ahead = <<>>
  BY DEF Peeks, Connected, Filled, conn
<1>2. <<>> \in Chars /\ Len(<<>>) <= BufSz - PbSz
  BY Empty DEF DataAssumption
<1>3. /\ AreaFits
      /\ area'.ahead = <<>> /\ Len(area'.back) \in Nat
      /\ Len(area'.back) = Lowest(Len(area.back), PbSz)
      /\ \A n, src : \A k \in Int :
           Counts(area.back, n, src, k)
             => Counts(area'.back, n, src, k + Len(area.back) - Len(area'.back))
  BY <1>1, <1>2, FilledArea
<1>4. RunFits
  BY <1>1, <1>3, FilledRun
<1>5. OutOK' /\ OutEmpty'
  BY <1>1 DEF ReadInv, OutOK, OutEmpty
<1>6. ASSUME Sound, ~stale, Piped(rsrc) PROVE OrderHere'
  <2>1. OrderHere /\ got[rsrc] \in Int /\ Len(area.back) \in Nat
    BY <1>6, HereIs, AreaTypes
  <2>2. Counts(area'.back, opens, rsrc, (got[rsrc] - Len(area.back)) + Len(area.back) - Len(area'.back))
    BY <1>3, <2>1 DEF OrderHere
  <2>3. (got[rsrc] - Len(area.back)) + Len(area.back) - Len(area'.back) = got[rsrc] - Len(area'.back)
    BY <1>3, <2>1
  <2>4. Counts(area'.back, opens, rsrc, got[rsrc] - Len(area'.back))
    BY <2>2, <2>3
  <2> QED BY <1>1, <1>3, <2>1, <2>4 DEF OrderHere
<1>7. PipeFits
  BY <1>1, <1>5, <1>6, OrderStays DEF PipeFits
<1>8. MuteFits
  <2> SUFFICES ASSUME area.back = <<>> PROVE area'.back = <<>>
    BY <1>1, <1>3 DEF ReadInv, NotGiven, MuteFits
  <2>1. Len(area'.back) = 0
    BY <1>3, Empty DEF Lowest, DataAssumption
  <2>2. area'.back \in Chars
    BY <1>1, <1>2, FilledArea
  <2> QED BY <2>1, <2>2, EmptySeq DEF Chars
<1> QED BY <1>1, <1>3, <1>4, <1>7, <1>8, ConnectedKeeps

LEMMA EmptiesKeeps ==
  ASSUME DataAssumption, ReadInv, Empties
  PROVE  ReadInv'
<1>1. /\ UNCHANGED <<rbuffer, rsrc, rbufstate, opens, class, out, got, said>> /\ area' = NoArea
      /\ run' = [run EXCEPT ![rsrc] = 0] /\ Connected
  BY DEF Empties, Connected, NotFilled, conn
<1>2. area.ahead = <<>>
  BY DEF Empties, underflow, ReadInv, GetsEmpty
<1>3. AreaFits
  BY <1>1, Empty DEF AreaFits, Live
<1>4. RunFits
  BY <1>1, Empty, AreaTypes DEF RunFits, DataAssumption
<1>5. OutOK' /\ OutEmpty'
  BY <1>1 DEF ReadInv, OutOK, OutEmpty
<1>6. ASSUME Sound, ~stale, Piped(rsrc) PROVE OrderHere'
  <2>1. OrderHere
    BY <1>6, HereIs
  <2> QED BY <1>1, <1>2, <2>1, Empty DEF OrderHere
<1>7. PipeFits
  BY <1>1, <1>5, <1>6, OrderStays DEF PipeFits
<1>8. MuteFits
  BY <1>1, Empty DEF MuteFits
<1> QED BY <1>1, <1>3, <1>4, <1>7, <1>8, ConnectedKeeps

LEMMA FillsKeeps ==
  ASSUME DataAssumption, ReadInv, Fills
  PROVE  ReadInv'
<1> DEFINE pipe == out[ReadsEnd][rsrc]
           k == Lowest(Len(pipe), BufSz - PbSz)
           chars == SubSeq(pipe, 1, k)
           rest == SubSeq(pipe, k + 1, Len(pipe))
<1>1. ReadsEnd # 0 /\ Unread = pipe /\ pipe # <<>>
  BY DEF Fills, fill_buffer, Unread
<1>2. ReadsEnd \in 1 .. opens /\ opens \in 0 .. MaxOpens[class] /\ rsrc \in Sources
  BY <1>1 DEF ReadsEnd, ReadInv, NumbersOK, AreasOK
<1>3. MaxOpens[class] \in Nat
  BY DEF ReadInv, NumbersOK, DataAssumption
<1>4. ReadsEnd \in 1 .. MaxOpens[class] /\ pipe \in Chars /\ Len(pipe) \in Nat
  <2>1. ReadsEnd \in 1 .. MaxOpens[class]
    BY <1>2, <1>3
  <2>2. pipe \in Chars
    BY <1>2, <2>1 DEF ReadInv, OutOK
  <2> QED BY <2>1, <2>2, LenProperties DEF Chars
<1>5. BufSz \in Nat /\ PbSz \in Nat /\ PbSz < BufSz
  BY DEF DataAssumption
<1>6. /\ Filled(chars)
      /\ out' = [out EXCEPT ![ReadsEnd][rsrc] = rest]
  BY <1>1 DEF Fills, fill_buffer
<1>7. /\ UNCHANGED <<rbuffer, rsrc, rbufstate, opens, class, rpipe, got, run, said>> /\ Connected
  BY <1>6 DEF Fills, Connected, Filled, conn
<1>8. area.ahead = <<>>
  BY DEF Fills, underflow, ReadInv, GetsEmpty
<1>9. k \in Nat /\ k <= Len(pipe) /\ k <= BufSz - PbSz
  BY <1>4, <1>5 DEF Lowest
<1> HIDE DEF pipe, k
<1>10. chars \in Chars /\ Len(chars) = k
  BY <1>4, <1>9, Parts DEF Chars
<1>11. rest \in Chars /\ Len(rest) = Len(pipe) - k
  <2>1. k + 1 \in Nat \ {0} /\ Len(pipe) - (k + 1) + 1 = Len(pipe) - k /\ k + 1 <= Len(pipe) + 1
    BY <1>4, <1>9
  <2>2. rest \in Chars /\ Len(rest) = Len(pipe) - (k + 1) + 1
    BY <1>4, <2>1, Parts DEF Chars
  <2> QED BY <2>1, <2>2
<1>12. ASSUME NEW src, Counts(pipe, opens, src, got[rsrc])
       PROVE  Counts(chars, opens, src, got[rsrc]) /\ Counts(rest, opens, src, got[rsrc] + k)
  <2>1. got[rsrc] \in Int
    BY AreaTypes
  <2>2. Counts(chars, opens, src, got[rsrc] + 1 - 1)
    BY <1>4, <1>9, <1>12, <2>1, PartCounts
  <2>3. k + 1 \in Nat \ {0} /\ k + 1 <= Len(pipe) + 1
    BY <1>4, <1>9
  <2>4. Counts(rest, opens, src, got[rsrc] + (k + 1) - 1)
    <3> DEFINE first == k + 1
               last == Len(pipe)
    <3>1. first \in Nat \ {0} /\ last \in Nat /\ first <= last + 1 /\ last <= Len(pipe)
      BY <1>4, <2>3
    <3> HIDE DEF first, last
    <3>2. Counts(SubSeq(pipe, first, last), opens, src, got[rsrc] + first - 1)
      BY <1>4, <1>12, <2>1, <3>1, PartCounts
    <3> QED BY <3>2 DEF first, last
  <2>5. got[rsrc] + 1 - 1 = got[rsrc] /\ got[rsrc] + (k + 1) - 1 = got[rsrc] + k
    BY <1>9, <2>1
  <2> QED BY <2>2, <2>4, <2>5
<1> HIDE DEF chars, rest
<1>13. Len(chars) <= BufSz - PbSz
  BY <1>9, <1>10
<1>14. /\ AreaFits
       /\ area'.ahead = chars /\ Len(area'.back) \in Nat
       /\ Len(area'.back) = Lowest(Len(area.back), PbSz)
       /\ \A n, src : \A i \in Int :
            Counts(area.back, n, src, i)
              => Counts(area'.back, n, src, i + Len(area.back) - Len(area'.back))
  BY <1>6, <1>7, <1>10, <1>13, FilledArea
<1>15. RunFits
  BY <1>7, <1>14, FilledRun
<1>16. OutOK'
  BY <1>2, <1>4, <1>6, <1>7, <1>11 DEF ReadInv, OutOK
<1>17. \A n \in 1 .. MaxOpens[class], src \in Sources :
         out'[n][src] = IF n = ReadsEnd /\ src = rsrc THEN rest ELSE out[n][src]
  BY <1>4, <1>6 DEF ReadInv, OutOK
<1>18. OutEmpty'
  BY <1>2, <1>7, <1>17 DEF ReadInv, OutEmpty
<1>19. \A src \in Sources \ {rsrc}, n \in 1 .. opens : out'[n][src] = out[n][src]
  BY <1>2, <1>3, <1>17
<1>20. ASSUME Sound, ~stale, Piped(rsrc) PROVE OrderHere'
  <2>1. OrderHere /\ got[rsrc] \in Int /\ Len(area.back) \in Nat
    BY <1>20, HereIs, AreaTypes
  <2>2. ReadsEnd = opens
    BY <1>20 DEF Piped, ReadsEnd
  <2>3. pipe = out[opens][rsrc] /\ out'[opens][rsrc] = rest
    BY <1>2, <1>4, <1>17, <2>2 DEF pipe
  <2>4. Counts(area'.back, opens, rsrc, (got[rsrc] - Len(area.back)) + Len(area.back) - Len(area'.back))
    BY <1>14, <2>1 DEF OrderHere
  <2>5. (got[rsrc] - Len(area.back)) + Len(area.back) - Len(area'.back) = got[rsrc] - Len(area'.back)
    BY <1>14, <2>1
  <2>6. Counts(area'.back, opens, rsrc, got[rsrc] - Len(area'.back))
    BY <2>4, <2>5
  <2>7. Counts(pipe, opens, rsrc, got[rsrc] + 0) /\ said[rsrc] = got[rsrc] + 0 + Len(pipe)
    BY <1>8, <2>1, <2>3, Empty DEF OrderHere
  <2>8. Counts(chars, opens, rsrc, got[rsrc]) /\ Counts(rest, opens, rsrc, got[rsrc] + k)
    BY <1>12, <2>1, <2>7
  <2>9. said[rsrc] = got[rsrc] + k + Len(rest)
    BY <1>4, <1>9, <1>11, <2>1, <2>7
  <2> QED BY <1>7, <1>10, <1>14, <2>3, <2>6, <2>8, <2>9 DEF OrderHere
<1>21. PipeFits
  BY <1>7, <1>16, <1>18, <1>19, <1>20, OrderStays DEF PipeFits
<1>22. MuteFits
  <2>1. rbuffer[rsrc] # 0
    BY DEF Fills, fill_buffer
  <2> QED BY <1>2, <2>1 DEF ReadInv, NotGiven, MuteFits
<1> QED BY <1>7, <1>14, <1>15, <1>21, <1>22, ConnectedKeeps

(* A step between the two parts of the area: as many characters, in the    *)
(* same array.                                                             *)
LEMMA MovesFit ==
  ASSUME ReadInv, UNCHANGED <<rbuffer, rsrc>>, area.back # <<>> \/ area.ahead # <<>>,
         area' \in AreaRecord, area'.src = area.src, area'.n = area.n,
         Len(area'.back) + Len(area'.ahead) = Len(area.back) + Len(area.ahead)
  PROVE  AreaFits
<1>1. area.src # "none"
  BY DEF ReadInv, EmptyOnNone
<1>2. area.back \o area.ahead # <<>>
  BY AreaTypes, ConcatEqualIffEmpty DEF Chars
<1>3. ~stale => Live(area) /\ area.src = rsrc
  BY <1>1 DEF ReadInv, Alive
<1>4. ~stale => Live(area)' /\ area'.src = rsrc
  BY <1>2, <1>3 DEF Live
<1> QED BY <1>1, <1>4 DEF AreaFits

LEMMA ExtractsKeeps ==
  ASSUME DataAssumption, ReadInv, Extracts
  PROVE  ReadInv'
<1>1. /\ UNCHANGED <<rbuffer, rsrc, rbufstate, opens, class, out, said>> /\ Connected
  BY DEF Extracts, Connected, conn
<1>2. /\ area \in AreaRecord /\ area.back \in Chars /\ area.ahead \in Chars /\ area.ahead # <<>>
      /\ Len(area.back) \in Nat /\ Len(area.ahead) \in Nat
      /\ got[rsrc] \in Int /\ run[rsrc] \in Int /\ rsrc \in Sources
  BY AreaTypes DEF Extracts
<1>3. /\ Head(area.ahead) \in Char /\ Tail(area.ahead) \in Chars
      /\ Len(Tail(area.ahead)) = Len(area.ahead) - 1
      /\ \A n, src : \A k \in Int :
           Counts(area.ahead, n, src, k)
             => Head(area.ahead) = <<n, src, k + 1>> /\ Counts(Tail(area.ahead), n, src, k + 1)
  BY <1>2, HeadTailCounts
<1> DEFINE c == Head(area.ahead)
<1>4. /\ Append(area.back, c) \in Chars /\ Len(Append(area.back, c)) = Len(area.back) + 1
      /\ \A n, src : \A k \in Int :
           Counts(area.back, n, src, k) /\ c = <<n, src, k + Len(area.back) + 1>>
             => Counts(Append(area.back, c), n, src, k)
  BY <1>2, <1>3, AppendCounts
<1> HIDE DEF c
<1>5. area' = [area EXCEPT !.back = Append(area.back, c), !.ahead = Tail(area.ahead)]
  BY DEF Extracts, c
<1>6. /\ area' \in AreaRecord /\ area'.src = area.src /\ area'.n = area.n
      /\ area'.back = Append(area.back, c) /\ area'.ahead = Tail(area.ahead)
  BY <1>2, <1>3, <1>4, <1>5 DEF AreaRecord
<1>7. Len(area'.back) = Len(area.back) + 1 /\ Len(area'.ahead) = Len(area.ahead) - 1
  BY <1>3, <1>4, <1>6
<1>8. Len(area'.back) + Len(area'.ahead) = Len(area.back) + Len(area.ahead)
  <2>1. Len(area.back) \in Nat /\ Len(area.ahead) \in Nat
    BY <1>2
  <2> DEFINE b == Len(area.back)
             a == Len(area.ahead)
             bb == Len(area'.back)
             aa == Len(area'.ahead)
  <2>2. a \in Nat /\ b \in Nat /\ bb = b + 1 /\ aa = a - 1
    BY <1>7, <2>1
  <2> HIDE DEF a, b, aa, bb
  <2>3. bb + aa = b + a
    BY <2>2
  <2> QED BY <2>3 DEF a, b, aa, bb
<1>9. AreaFits
  BY <1>1, <1>2, <1>6, <1>8, MovesFit
<1>10. /\ got' = [got EXCEPT ![rsrc] = got[rsrc] + 1]
       /\ run' = [run EXCEPT ![rsrc] = Lowest(run[rsrc] + 1, PbSz)]
  BY DEF Extracts
<1>11. RunFits
  <2>1. /\ PbSz \in Nat /\ got \in [Sources -> Int] /\ run \in [Sources -> Int]
        /\ is_open => Len(area.back) >= run[rsrc]
    BY AreaTypes DEF DataAssumption
  <2>2. Lowest(run[rsrc] + 1, PbSz) \in Int /\ Lowest(run[rsrc] + 1, PbSz) <= PbSz
        /\ Lowest(run[rsrc] + 1, PbSz) <= run[rsrc] + 1
    BY <1>2, <2>1 DEF Lowest
  <2>3. is_open => Len(area'.back) >= Lowest(run[rsrc] + 1, PbSz)
    BY <1>2, <1>7, <2>1, <2>2
  <2> QED BY <1>2, <1>10, <2>1, <2>2, <2>3 DEF RunFits
<1>12. OutOK' /\ OutEmpty'
  BY <1>1 DEF ReadInv, OutOK, OutEmpty
<1>13. ASSUME Sound, ~stale, Piped(rsrc) PROVE OrderHere'
  <2>1. OrderHere /\ Len(out[opens][rsrc]) \in Nat
    BY <1>13, HereIs
  <2>2. c = <<opens, rsrc, got[rsrc] + 1>> /\ Counts(Tail(area.ahead), opens, rsrc, got[rsrc] + 1)
    BY <1>2, <1>3, <2>1 DEF OrderHere, c
  <2>3. (got[rsrc] - Len(area.back)) + Len(area.back) + 1 = got[rsrc] + 1
    BY <1>2
  <2>4. Counts(area'.back, opens, rsrc, got[rsrc] - Len(area.back))
    <3>1. got[rsrc] - Len(area.back) \in Int
      BY <1>2
    <3>2. c = <<opens, rsrc, (got[rsrc] - Len(area.back)) + Len(area.back) + 1>>
      BY <2>2, <2>3
    <3>3. Counts(Append(area.back, c), opens, rsrc, got[rsrc] - Len(area.back))
      BY <1>4, <2>1, <3>1, <3>2 DEF OrderHere
    <3> QED BY <1>6, <3>3
  <2>5. got'[rsrc] = got[rsrc] + 1
    BY <1>2, <1>10, AreaTypes
  <2>6. /\ got'[rsrc] - Len(area'.back) = got[rsrc] - Len(area.back)
        /\ got'[rsrc] + Len(area'.ahead) = got[rsrc] + Len(area.ahead)
    <3>1. Len(area.back) \in Nat /\ Len(area.ahead) \in Nat /\ got[rsrc] \in Int
      BY <1>2
    <3> DEFINE a == Len(area.ahead)
               b == Len(area.back)
               g == got[rsrc]
               aa == Len(area'.ahead)
               bb == Len(area'.back)
               gg == got'[rsrc]
    <3>2. a \in Nat /\ b \in Nat /\ g \in Int /\ bb = b + 1 /\ aa = a - 1 /\ gg = g + 1
      BY <1>7, <2>5, <3>1
    <3> HIDE DEF a, b, g, aa, bb, gg
    <3>3. gg - bb = g - b /\ gg + aa = g + a
      BY <3>2
    <3> QED BY <3>3 DEF a, b, g, aa, bb, gg
  <2> QED BY <1>1, <1>6, <2>1, <2>2, <2>4, <2>5, <2>6 DEF OrderHere
<1>14. PipeFits
  BY <1>1, <1>12, <1>13, OrderStays DEF PipeFits
<1>15. MuteFits
  BY <1>2 DEF ReadInv, NotGiven, MuteFits
<1> QED BY <1>1, <1>9, <1>11, <1>14, <1>15, ConnectedKeeps

LEMMA PutsBackKeeps ==
  ASSUME DataAssumption, ReadInv, PutsBack
  PROVE  ReadInv'
<1>1. /\ UNCHANGED <<rbuffer, rsrc, rbufstate, opens, class, out, said>> /\ Connected
  BY DEF PutsBack, Connected, conn
<1>2. /\ area \in AreaRecord /\ area.back \in Chars /\ area.ahead \in Chars /\ area.back # <<>>
      /\ Len(area.back) \in Nat /\ Len(area.ahead) \in Nat
      /\ got[rsrc] \in Int /\ run[rsrc] \in Int /\ rsrc \in Sources
  BY AreaTypes DEF PutsBack
<1>3. /\ Last(area.back) \in Char /\ Front(area.back) \in Chars
      /\ Len(Front(area.back)) = Len(area.back) - 1
      /\ \A n, src : \A k \in Int :
           Counts(area.back, n, src, k)
             => Last(area.back) = <<n, src, k + Len(area.back)>> /\ Counts(Front(area.back), n, src, k)
  BY <1>2, FrontLastCounts
<1> DEFINE c == Last(area.back)
<1>4. /\ <<c>> \o area.ahead \in Chars /\ Len(<<c>> \o area.ahead) = Len(area.ahead) + 1
      /\ \A n, src : \A k \in Int :
           Counts(area.ahead, n, src, k) /\ c = <<n, src, k>>
             => Counts(<<c>> \o area.ahead, n, src, k - 1)
  BY <1>2, <1>3, ConsCounts
<1> HIDE DEF c
<1>5. area' = [area EXCEPT !.back = Front(area.back), !.ahead = <<c>> \o area.ahead]
  BY DEF PutsBack, c
<1>6. /\ area' \in AreaRecord /\ area'.src = area.src /\ area'.n = area.n
      /\ area'.back = Front(area.back) /\ area'.ahead = <<c>> \o area.ahead
  BY <1>2, <1>3, <1>4, <1>5 DEF AreaRecord
<1>7. Len(area'.back) = Len(area.back) - 1 /\ Len(area'.ahead) = Len(area.ahead) + 1
  BY <1>3, <1>4, <1>6
<1>8. Len(area'.back) + Len(area'.ahead) = Len(area.back) + Len(area.ahead)
  <2>1. Len(area.back) \in Nat /\ Len(area.ahead) \in Nat
    BY <1>2
  <2> DEFINE b == Len(area.back)
             a == Len(area.ahead)
             bb == Len(area'.back)
             aa == Len(area'.ahead)
  <2>2. a \in Nat /\ b \in Nat /\ bb = b - 1 /\ aa = a + 1
    BY <1>7, <2>1
  <2> HIDE DEF a, b, aa, bb
  <2>3. bb + aa = b + a
    BY <2>2
  <2> QED BY <2>3 DEF a, b, aa, bb
<1>9. AreaFits
  BY <1>1, <1>2, <1>6, <1>8, MovesFit
<1>10. /\ got' = [got EXCEPT ![rsrc] = got[rsrc] - 1]
       /\ run' = [run EXCEPT ![rsrc] = run[rsrc] - 1]
  BY DEF PutsBack
<1>11. RunFits
  <2>1. /\ PbSz \in Nat /\ got \in [Sources -> Int] /\ run \in [Sources -> Int]
        /\ run[rsrc] <= PbSz /\ (is_open => Len(area.back) >= run[rsrc])
    BY AreaTypes DEF DataAssumption
  <2>2. is_open => Len(area'.back) >= run[rsrc] - 1
    BY <1>2, <1>7, <2>1
  <2> QED BY <1>2, <1>10, <2>1, <2>2 DEF RunFits
<1>12. OutOK' /\ OutEmpty'
  BY <1>1 DEF ReadInv, OutOK, OutEmpty
<1>13. ASSUME Sound, ~stale, Piped(rsrc) PROVE OrderHere'
  <2>1. OrderHere /\ Len(out[opens][rsrc]) \in Nat
    BY <1>13, HereIs
  <2>2. (got[rsrc] - Len(area.back)) + Len(area.back) = got[rsrc]
    BY <1>2
  <2>3. /\ c = <<opens, rsrc, got[rsrc]>>
        /\ Counts(Front(area.back), opens, rsrc, got[rsrc] - Len(area.back))
    <3>1. got[rsrc] - Len(area.back) \in Int
      BY <1>2
    <3>2. /\ c = <<opens, rsrc, (got[rsrc] - Len(area.back)) + Len(area.back)>>
          /\ Counts(Front(area.back), opens, rsrc, got[rsrc] - Len(area.back))
      BY <1>3, <2>1, <3>1 DEF OrderHere, c
    <3> QED BY <2>2, <3>2
  <2>4. Counts(area'.ahead, opens, rsrc, got[rsrc] - 1)
    BY <1>2, <1>4, <1>6, <2>1, <2>3 DEF OrderHere
  <2>5. got'[rsrc] = got[rsrc] - 1
    BY <1>2, <1>10, AreaTypes
  <2>6. /\ got'[rsrc] - Len(area'.back) = got[rsrc] - Len(area.back)
        /\ got'[rsrc] + Len(area'.ahead) = got[rsrc] + Len(area.ahead)
    <3>1. Len(area.back) \in Nat /\ Len(area.ahead) \in Nat /\ got[rsrc] \in Int
      BY <1>2
    <3> DEFINE a == Len(area.ahead)
               b == Len(area.back)
               g == got[rsrc]
               aa == Len(area'.ahead)
               bb == Len(area'.back)
               gg == got'[rsrc]
    <3>2. a \in Nat /\ b \in Nat /\ g \in Int /\ bb = b - 1 /\ aa = a + 1 /\ gg = g - 1
      BY <1>7, <2>5, <3>1
    <3> HIDE DEF a, b, g, aa, bb, gg
    <3>3. gg - bb = g - b /\ gg + aa = g + a
      BY <3>2
    <3> QED BY <3>3 DEF a, b, g, aa, bb, gg
  <2> QED BY <1>1, <1>6, <2>1, <2>3, <2>4, <2>5, <2>6 DEF OrderHere
<1>14. PipeFits
  BY <1>1, <1>12, <1>13, OrderStays DEF PipeFits
<1>15. MuteFits
  BY <1>2 DEF ReadInv, NotGiven, MuteFits
<1> QED BY <1>1, <1>9, <1>11, <1>14, <1>15, ConnectedKeeps

LEMMA HearsKeeps ==
  ASSUME DataAssumption, ReadInv, NEW src \in Sources, Hears(src)
  PROVE  ReadInv'
<1> DEFINE pipe == out[opens][src]
           c == <<opens, src, said[src] + 1>>
<1>1. /\ UNCHANGED <<class, opens, ppid, rpipe, call, rbuffer, rsrc, area, rbufstate,
                     got, run, stale, opened>>
      /\ opens > 0
  BY DEF Hears, conn, areas, history
<1>2. opens \in 1 .. MaxOpens[class] /\ MaxOpens[class] \in Nat
  BY <1>1 DEF ReadInv, NumbersOK, DataAssumption
<1>3. pipe \in Chars
  BY <1>2 DEF ReadInv, OutOK
<1>4. said \in [Sources -> Nat] /\ said[src] \in Nat /\ got \in [Sources -> Int]
  BY DEF ReadInv, NumbersOK
<1>5. c \in Char
  BY <1>2, <1>4 DEF Char
<1>6. /\ said' = [said EXCEPT ![src] = said[src] + 1]
      /\ out' = [out EXCEPT ![opens][src] = Append(pipe, c)]
  BY DEF Hears
<1> HIDE DEF c, pipe
<1>7. /\ Append(pipe, c) \in Chars /\ Len(Append(pipe, c)) = Len(pipe) + 1
      /\ \A n, s : \A k \in Int :
           Counts(pipe, n, s, k) /\ c = <<n, s, k + Len(pipe) + 1>>
             => Counts(Append(pipe, c), n, s, k)
  BY <1>3, <1>5, AppendCounts
<1>8. \A n \in 1 .. MaxOpens[class], s \in Sources :
        out'[n][s] = IF n = opens /\ s = src THEN Append(pipe, c) ELSE out[n][s]
  BY <1>2, <1>6 DEF ReadInv, OutOK
<1>9. OutOK'
  BY <1>1, <1>2, <1>6, <1>7 DEF ReadInv, OutOK
<1>10. OutEmpty'
  BY <1>1, <1>2, <1>8 DEF ReadInv, OutEmpty
<1>11. NumbersOK'
  BY <1>1, <1>4, <1>6 DEF ReadInv, NumbersOK, is_open
<1>12. AreasOK' /\ EmptyOnNone' /\ GetsEmpty'
  BY <1>1 DEF ReadInv, AreasOK, EmptyOnNone, GetsEmpty
<1>13. Alive'
  BY <1>1 DEF ReadInv, Alive, Live, is_open
<1>14. Kept'
  BY <1>1 DEF ReadInv, Kept, AreaOf, is_open
<1>15. SourcesReady' /\ NotGiven'
  BY <1>1 DEF ReadInv, SourcesReady, NotGiven, is_open, Piped
<1>16. Ordered'
  <2>0. (Sound' => Sound) /\ stale' = stale /\ \A s \in Sources : Piped(s)' => Piped(s)
    BY <1>1 DEF Sound, is_open, Piped
  <2> SUFFICES ASSUME Sound, ~stale, NEW s \in Sources, Piped(s)
               PROVE  OrderOf(s)'
    BY <2>0, Zenon DEF Ordered
  <2>1. OrderOf(s) /\ AreaOf(s)' = AreaOf(s)
    BY <1>1 DEF ReadInv, Ordered, AreaOf
  <2>2. CASE s # src
    <3>1. out'[opens][s] = out[opens][s] /\ said'[s] = said[s]
      BY <1>2, <1>4, <1>6, <1>8, <2>2
    <3> QED BY <1>1, <2>1, <3>1 DEF OrderOf
  <2>3. CASE s = src
    <3> DEFINE a == AreaOf(src)
               k == got[src] + Len(a.ahead)
    <3>1. a \in AreaRecord
      BY AreaOfIs DEF ReadInv
    <3>2. a.ahead \in Chars /\ a.back \in Chars
      BY <3>1 DEF AreaRecord
    <3>3. Len(a.ahead) \in Nat /\ Len(pipe) \in Nat /\ got[src] \in Int
      BY <1>3, <1>4, <3>2, LenProperties DEF Chars
    <3>4. k \in Int
      BY <3>3
    <3>5. Counts(pipe, opens, src, k) /\ said[src] = k + Len(pipe)
      BY <2>1, <2>3 DEF OrderOf, pipe
    <3>6. c = <<opens, src, k + Len(pipe) + 1>>
      BY <3>5 DEF c
    <3>7. Counts(Append(pipe, c), opens, src, k)
      BY <1>7, <3>4, <3>5, <3>6
    <3>8. out'[opens][src] = Append(pipe, c)
      BY <1>2, <1>8
    <3>9. said'[src] = k + Len(Append(pipe, c))
      <4>1. said'[src] = said[src] + 1
        BY <1>4, <1>6
      <4> HIDE DEF k
      <4> QED BY <1>7, <3>3, <3>4, <3>5, <4>1
    <3>10. /\ Counts(a.back, opens, src, got[src] - Len(a.back))
           /\ Counts(a.ahead, opens, src, got[src])
      BY <2>1, <2>3 DEF OrderOf
    <3>11. AreaOf(src)' = a
      BY <2>1, <2>3
    <3> QED BY <1>1, <2>3, <3>7, <3>8, <3>9, <3>10, <3>11 DEF OrderOf
  <2> QED BY <2>2, <2>3
<1> QED BY <1>9, <1>10, <1>11, <1>12, <1>13, <1>14, <1>15, <1>16 DEF ReadInv

LEMMA ReadingKeeps ==
  ASSUME DataAssumption, ReadInv, ReadStep
  PROVE  ReadInv'
BY BeginsKeeps, CutsKeeps, FillsKeeps, EmptiesKeeps, PeeksKeeps, ExtractsKeeps, PutsBackKeeps,
   SwitchesKeeps, HearsKeeps, NothingKeeps DEF ReadStep

-----------------------------------------------------------------------------
(* All of it.                                                              *)
LEMMA OwesKeeps ==
  ASSUME OwesOK, [Next]_vars
  PROVE  OwesOK'
<1> USE DEF OwesOK, process
<1>1. CASE UNCHANGED vars
  BY <1>1 DEF vars
<1>2. CASE Connecting
  BY <1>2 DEF Connecting, Open, OpenInterrupted, Started, Reap
<1>3. CASE Writing \/ Interrupted
  BY <1>3 DEF Writing, Interrupted, Store, PutWrites, PutFails, SyncExited, SyncWrites, SyncFails,
              SyncedBy, FillFails
<1>4. CASE Waiting \/ Reading \/ Getting
  BY <1>4 DEF Waiting, Reading, Getting, WriteWaits, ReadWaits, Fill, FillFails, sbumpc, pbackfail,
              showmanyc, read_err
<1>5. CASE Process
  BY <1>5 DEF Process, Takes, Answers, Ends, Speaks
<1> QED BY <1>1, <1>2, <1>3, <1>4, <1>5 DEF Next

LEMMA DataInit ==
  ASSUME DataAssumption, Init
  PROVE  DataInv
<1> USE DEF Init
<1>1. class \in Classes /\ opens = 0 /\ MaxOpens[class] \in Nat /\ PbSz \in Nat
  BY DEF DataAssumption
<1>2. ~is_open /\ ~Sound
  BY DEF is_open, Sound
<1>3. NumbersOK /\ OwesOK
  BY <1>1, <1>2 DEF NumbersOK, OwesOK
<1>4. AreasOK /\ EmptyOnNone
  BY Empty DEF AreasOK, EmptyOnNone, Sources
<1>5. OutOK /\ OutEmpty
  BY Empty DEF OutOK, OutEmpty
<1>6. Alive
  BY <1>2, Empty DEF Alive, Live
<1>7. GetsEmpty /\ Kept /\ Ordered /\ SourcesReady /\ NotGiven /\ PipeHasBuffer /\ NotTaken
  BY <1>1, <1>2 DEF GetsEmpty, Kept, Ordered, SourcesReady, NotGiven, PipeHasBuffer, NotTaken
<1>8. WordsOK /\ BufferHasPipe /\ Flows
  BY DEF WordsOK, BufferHasPipe, Flows, NoBuffer
<1> QED BY <1>3, <1>4, <1>5, <1>6, <1>7, <1>8 DEF DataInv, ReadInv

LEMMA DataStep ==
  ASSUME DataAssumption, DataInv, [Next]_vars
  PROVE  DataInv'
<1>1. ReadInv'
  BY ReadSteps, ReadingKeeps DEF DataInv, ReadInv
<1>2. OwesOK'
  BY OwesKeeps DEF DataInv
<1>3. WordsOK' /\ BufferHasPipe' /\ Flows' /\ PipeHasBuffer' /\ NotTaken'
  BY WriteSteps, WritingKeeps, WritingKeepsBuffer DEF DataInv, ReadInv
<1> QED BY <1>1, <1>2, <1>3 DEF DataInv

(* Of every stream, whatever its process and its caller do, the invariant  *)
(* from which the properties below follow.                                 *)
THEOREM StreamKeepsOrder == Spec => []DataInv
<1>1. Init => DataInv
  BY DataInit, DataAssumption
<1>2. DataInv /\ [Next]_vars => DataInv'
  BY DataStep, DataAssumption
<1> QED BY <1>1, <1>2, PTL DEF Spec

(* The process finds the characters of the program in order, each once.    *)
THEOREM WritesArriveInOrder == Spec => []WrittenInOrder
<1>1. DataInv => WrittenInOrder
  <2> SUFFICES ASSUME DataInv, wbuffer # NoBuffer
               PROVE  stdin \o wbuffer = From(taken + 1, put)
    BY DEF WrittenInOrder
  <2> DEFINE s == stdin \o wbuffer
             t == From(taken + 1, put)
  <2>1. /\ stdin \in Seq(Nat) /\ wbuffer \in Seq(Nat) /\ taken \in Nat /\ put \in Nat
        /\ Len(stdin) \in Nat /\ Len(wbuffer) \in Nat
    BY LenProperties DEF DataInv, WordsOK
  <2>2. /\ Follows(stdin, taken) /\ Follows(wbuffer, taken + Len(stdin))
        /\ put = taken + Len(stdin) + Len(wbuffer)
    BY DEF DataInv, Flows
  <2>3. s \in Seq(Nat) /\ Len(s) = Len(stdin) + Len(wbuffer)
    BY <2>1, ConcatProperties
  <2>4. Follows(s, taken)
    BY <2>1, <2>2, ConcatFollows
  <2> DEFINE n == Len(stdin) + Len(wbuffer)
  <2>5. n \in Nat /\ put - (taken + 1) + 1 = n
    BY <2>1, <2>2
  <2>6. t = [i \in 1 .. n |-> taken + 1 + i - 1]
    BY <2>5 DEF From
  <2> HIDE DEF n
  <2>7. \A i \in 1 .. n : taken + 1 + i - 1 \in Nat /\ taken + 1 + i - 1 = taken + i
    BY <2>1, <2>5
  <2>8. t \in Seq(Nat)
    BY <2>5, <2>6, <2>7, IsASeq
  <2>9. Len(t) = n /\ \A i \in 1 .. n : t[i] = taken + i
    <3>1. DOMAIN t = 1 .. n /\ DOMAIN t = 1 .. Len(t) /\ Len(t) \in Nat
      BY <2>6, <2>8, LenProperties
    <3>2. Len(t) = n
      BY <2>5, <3>1
    <3> QED BY <2>6, <2>7, <3>2
  <2>10. Len(s) = n /\ \A i \in 1 .. n : s[i] = taken + i
    BY <2>3, <2>4 DEF Follows, n
  <2> HIDE DEF s, t
  <2>11. s = t
    BY <2>3, <2>8, <2>9, <2>10, SeqEqual
  <2> QED BY <2>11 DEF s, t
<1> QED BY <1>1, StreamKeepsOrder, PTL

(* Characters of the present process are extracted in the order in which   *)
(* it wrote them to the source asked for.                                  *)
THEOREM ReadsComeInOrder == Spec => []ReadInOrder
<1>1. DataInv => ReadInOrder
  <2> SUFFICES ASSUME DataInv, Sound, ~stale, NEW src \in Sources, Piped(src)
               PROVE  ReadInOrderOf(src)
    BY DEF ReadInOrder
  <2> DEFINE a == AreaOf(src)
             pipe == out[opens][src]
             front == a.back \o a.ahead
             all == front \o pipe
  <2>1. OrderOf(src)
    BY DEF DataInv, ReadInv, Ordered
  <2>2. a \in AreaRecord /\ opens \in 1 .. MaxOpens[class] /\ got[src] \in Int
    BY AreaOfIs DEF DataInv, ReadInv, NumbersOK, Sound
  <2>3. a.back \in Chars /\ a.ahead \in Chars /\ pipe \in Chars
    BY <2>2 DEF AreaRecord, DataInv, ReadInv, OutOK
  <2>4. /\ Counts(a.back, opens, src, got[src] - Len(a.back))
        /\ Counts(a.ahead, opens, src, got[src])
        /\ Counts(pipe, opens, src, got[src] + Len(a.ahead))
        /\ said[src] = got[src] + Len(a.ahead) + Len(pipe)
    BY <2>1 DEF OrderOf
  <2> DEFINE b == Len(a.back)
             h == Len(a.ahead)
             p == Len(pipe)
             g == got[src]
  <2>5. b \in Nat /\ h \in Nat /\ p \in Nat /\ g \in Int
    BY <2>2, <2>3, LenProperties DEF Chars
  <2> HIDE DEF a, pipe
  <2>6. /\ front \in Chars /\ Len(front) = b + h
        /\ \A i \in 1 .. b + h : front[i] = IF i <= b THEN a.back[i] ELSE a.ahead[i - b]
    BY <2>3, ConcatProperties DEF Chars
  <2> HIDE DEF front
  <2>7. /\ all \in Chars /\ Len(all) = Len(front) + p
        /\ \A i \in 1 .. Len(front) + p :
             all[i] = IF i <= Len(front) THEN front[i] ELSE pipe[i - Len(front)]
    <3>1. front \in Seq(Char) /\ pipe \in Seq(Char)
      BY <2>3, <2>6 DEF Chars
    <3> HIDE DEF b, h
    <3> QED BY <3>1, ConcatProperties DEF Chars
  <2>8. DOMAIN all = 1 .. Len(all)
    BY <2>7, LenProperties DEF Chars
  <2> HIDE DEF all, b, h, p, g
  <2>9. ASSUME NEW i \in DOMAIN all
        PROVE  all[i] = <<opens, src, said[src] - Len(all) + i>>
    <3>1. i \in 1 .. b + h + p /\ said[src] - Len(all) + i = g - b + i
      <4>1. Len(all) = b + h + p
        BY <2>6, <2>7
      <4>2. said[src] = g + h + p
        BY <2>4 DEF h, p, g
      <4>3. i \in 1 .. b + h + p
        BY <2>8, <4>1
      <4> QED BY <2>5, <4>1, <4>2, <4>3
    <3>2. CASE i <= b
      <4>1. i \in 1 .. Len(a.back) /\ i <= Len(front) /\ i \in 1 .. b + h /\ i \in 1 .. Len(front) + p
        BY <2>5, <2>6, <3>1, <3>2 DEF b
      <4>2. all[i] = a.back[i]
        BY <2>6, <2>7, <3>2, <4>1
      <4>3. a.back[i] = <<opens, src, got[src] - Len(a.back) + i>>
        BY <2>4, <4>1 DEF Counts
      <4> QED BY <3>1, <4>2, <4>3 DEF b, g
    <3>3. CASE i > b /\ i <= b + h
      <4>1. i - b \in 1 .. Len(a.ahead) /\ i <= Len(front) /\ i \in 1 .. b + h
            /\ i \in 1 .. Len(front) + p /\ ~(i <= b) /\ g + (i - b) = g - b + i
        BY <2>5, <2>6, <3>1, <3>3 DEF h
      <4>2. all[i] = a.ahead[i - b]
        BY <2>6, <2>7, <4>1
      <4>3. a.ahead[i - b] = <<opens, src, got[src] + (i - b)>>
        BY <2>4, <4>1 DEF Counts
      <4> QED BY <3>1, <4>1, <4>2, <4>3 DEF g
    <3>4. CASE i > b + h
      <4>1. i - (b + h) \in 1 .. Len(pipe) /\ ~(i <= Len(front)) /\ i \in 1 .. Len(front) + p
            /\ (g + h) + (i - (b + h)) = g - b + i
        BY <2>5, <2>6, <3>1, <3>4 DEF p
      <4>2. all[i] = pipe[i - (b + h)]
        BY <2>6, <2>7, <4>1
      <4>3. pipe[i - (b + h)] = <<opens, src, (got[src] + Len(a.ahead)) + (i - (b + h))>>
        BY <2>4, <4>1 DEF Counts
      <4> QED BY <3>1, <4>1, <4>2, <4>3 DEF g, h
    <3> QED BY <2>5, <3>1, <3>2, <3>3, <3>4
  <2>10. got[src] + Len(a.ahead) + Len(pipe) = said[src]
    BY <2>4
  <2>11. a.back \o a.ahead \o out[opens][src] = all
    BY DEF all, front, pipe
  <2> QED BY <2>9, <2>10, <2>11 DEF ReadInOrderOf, AreaOf, a, pipe
<1> QED BY <1>1, StreamKeepsOrder, PTL

(* The get areas of a stream that is not opened again over an area that    *)
(* was put by lie within arrays that are there.                            *)
THEOREM NothingReadAfterDelete == Spec => []AreaIsLive
<1>1. DataInv => AreaIsLive
  BY DEF DataInv, ReadInv, Alive, AreaIsLive
<1> QED BY <1>1, StreamKeepsOrder, PTL

(* As many of the last characters extracted as pbsz can be put back.       *)
THEOREM PutbackIsKept == Spec => []PutbackKept
<1>1. DataInv => PutbackKept
  BY DEF DataInv, ReadInv, Kept, AreasOK, AreaOf, Sound, PutbackKept
<1> QED BY <1>1, StreamKeepsOrder, PTL

(* A stream is ready for what its class offers when its open came to its   *)
(* end; one whose open a signal cut short takes nothing of the program and *)
(* gives nothing that was not left over in it, whatever is called and      *)
(* whatever state of the stream the program clears.                        *)
THEOREM OpenedIsReadyOrMute == Spec => []ReadyOrMute
<1>1. DataInv => ReadyOrMute
  <2> SUFFICES ASSUME DataInv, is_open PROVE ReadyOrMute
    BY DEF ReadyOrMute
  <2>1. rsrc \in Sources
    BY DEF DataInv, ReadInv, AreasOK
  <2>2. CASE opened = "whole"
    <3>1. Ready
      BY <2>1, <2>2 DEF DataInv, ReadInv, SourcesReady, PipeHasBuffer, BufferHasPipe, Ready
    <3> QED BY <2>2, <3>1 DEF ReadyOrMute
  <2>3. CASE opened # "whole"
    <3>1. ~Takings
      BY <2>3 DEF DataInv, NotTaken, Takings
    <3>2. opened = "cut" => ~Givings
      BY DEF DataInv, ReadInv, NotGiven, Givings
    <3> QED BY <2>3, <3>1, <3>2 DEF ReadyOrMute
  <2> QED BY <2>2, <2>3
<1> QED BY <1>1, StreamKeepsOrder, PTL

(* The characters a stream gives are of the source asked for and of the    *)
(* present process, but for two histories: the stream was opened again     *)
(* over an area put by in rbufstate_, or it was not closed before an open  *)
(* that a signal cut short, and what was left over is still there.         *)
THEOREM FreshStreamGivesItsSource == Spec => [](~stale => ComesFromSource)
<1>1. DataInv => (~stale => ComesFromSource)
  <2> SUFFICES ASSUME DataInv, ~stale, Sound, Piped(rsrc), area.ahead # <<>>
               PROVE  Head(area.ahead)[1] = opens /\ Head(area.ahead)[2] = rsrc
    BY DEF ComesFromSource
  <2>1. rsrc \in Sources /\ area.ahead \in Chars
    BY DEF DataInv, ReadInv, AreasOK, AreaRecord
  <2>2. AreaOf(rsrc) = area
    BY DEF AreaOf
  <2>3. OrderOf(rsrc)
    BY <2>1 DEF DataInv, ReadInv, Ordered
  <2>4. Counts(area.ahead, opens, rsrc, got[rsrc])
    BY <2>2, <2>3 DEF OrderOf
  <2> DEFINE ahead == area.ahead
  <2>5. ahead \in Chars /\ ahead # <<>>
    BY <2>1
  <2> HIDE DEF ahead
  <2>6. Len(ahead) \in Nat \ {0} /\ Head(ahead) = ahead[1] /\ 1 \in 1 .. Len(ahead)
    BY <2>5 DEF Chars
  <2>7. ahead[1] = <<opens, rsrc, got[rsrc] + 1>>
    BY <2>4, <2>6 DEF Counts, ahead
  <2> QED BY <2>6, <2>7 DEF ahead
<1> QED BY <1>1, StreamKeepsOrder, PTL
=============================================================================
