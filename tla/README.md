# Verification of thermite

TLA+ models of thermite, a C++17 voice framework for Discord: what its parts do
when their threads, callbacks and messages interleave, what holds of them, and
proofs of nearly all of it that is not liveness. All paths are relative to the repository (`src/` here).
`PROJECT.json` lists for every definition the lines it translates.

## The system

| Component | State | Operations | Talks to |
|---|---|---|---|
| voice client (`lib/discord/voice_client*.cpp`) | `_nonce`, `_received_nonce`, `_ssrc`, `_secret_key`, `_hooked_events`, cancellation source; `_sequence`, `_timestamp` | `start`, `stop`, destructor, `set_speaking`, `transmit_frame`, message handler | websocket, UDP client, timers |
| heartbeat (`process_hello`, `do_heartbeat`, `process_heartbeat_ack`) | the two nonces and one chain of continuations per Hello | beat, compare, answer | timers, websocket |
| memory pool and handles (`include/thermite/memory/`) | buckets: slots, `_index`, lock; handles: array, length, pool | rent, allocate, wrap, move, return | shared by all threads |
| player (`lib/player.cpp`) | `_playing`, cancellation source, `_transmit_task`, `_transcode_task`, `_frames` | `play`, `stop`, `transmit`, `transcode` | voice client, timers, transcoder |
| UDP client (`lib/udp/`) | socket, buffers of asynchronous operations | `connect`, `send`, `receive`, `receive_from`, `close` | thread pool |
| timers and tasks (`lib/extra/pplx_extras.cpp`) | timer, promise, registration of the cancellation callback | `wait_for`, `wait_until`, `completed_task` | thread pool |
| net utils (`lib/extra/net_utils.hpp`) | none | byte order, `push_back` | `transmit_frame` |
| simple_cli (`samples/simple_cli/main.cpp`) | frame queue of 250, two threads, promises | `transcode_work`, `transmit_work`, `main_async` | voice client, pstream |
| pstream (`samples/simple_cli/pstream.h`) | process, pipes, error; put area, two get areas | open, read, write, `sync`, `out`, `err`, `peof`, `exited`, `kill`, close | the operating system |
| span | a view | | vendored |
| bot.py, player_manager, transcoder, logging, build files | none, or declarations only | | |

There are four kinds of threads: whoever owns the client or the player, the
receive thread of the websocket library, the pool on which continuations and
timers run, and the threads of the sample. Apart from the locks in the pool's
buckets, one atomic flag in the player and the queues of TBB nothing is
synchronised; order comes from the `wait()` at the end of the message handler
and from chains of `then`. The sample adds a process, `bot.py`, at the other end
of a pipe.

What is hard, and what correctness means there:

- *heartbeat*: a comparison of two unsynchronised unsigned counters decides
  whether a connection lives. The difference must stay small, must not wrap,
  and must not cross its threshold when the server behaves.
- *voice client*: the handshake (Hello, Identify, Ready, discovery,
  SelectProtocol, SessionDescription) spans two threads, a datagram and a
  websocket that may close at any point; it must not get out of step, mix two
  sessions, or stall unnoticed, and a close must complete.
- *memory pool*: an array must be in one place only, though the lock is
  released between taking a slot and filling it, and it must come back to where
  it was taken from.
- *player*: `play` returns before its loops start; loops must not double, must
  end when the player is stopped, and audio must be followed by silence.
- *asynchronous operations*: an answer, a timer, a cancellation and a close may
  come together; each task must end once, for a reason, and must end when there
  is one. A receive must give what arrived, though its memory may be freed,
  and given out again, while the operation still writes to it.
- *packets and sample*: two threads and a bounded queue; a receiver must find
  frames in order and headers that continue each other across the wrap of both
  counters, while another thread writes the ssrc and the key.
- *pstream*: descriptors and processes must be accounted for on every path
  through failing system calls, while other threads fork; characters must be
  neither lost nor reordered between buffers, pipes and processes; a call may
  block on a process that never ends.

## The modules

| Module | Models |
|---|---|
| `Heartbeat` | heartbeat loops, apart from the rest of the client |
| `VoiceClient` | a client through its sessions; implements `Heartbeat` |
| `BucketIndex` | `get_bucket_index`, `get_max_size` |
| `MemoryPool` | buckets and memory handles |
| `Player` | play, stop and their loops |
| `Tasks` | what an asynchronous operation promises its caller |
| `AsyncOps` | `wait_for` and the UDP client; implements `Tasks` |
| `VoicePacket` | the header of `transmit_frame` and the byte order functions |
| `SimpleCli` | the sample, with `transmit_frame` and the session as it sees it |
| `Pstreambuf` | processes, pipes and descriptors of several streams |
| `PstreamData` | buffers and characters of one stream |
| `HeartbeatProofs`, `VoiceClientProofs`, `MemoryPoolProofs`, `PlayerProofs`, `AsyncOpsProofs`, `SimpleCliProofs`, `PstreambufProofs`, `PstreamDataProofs` | theorems about them |
| `MCHeartbeat`, `MCVoiceClient`, `MCMemoryPool`, `MCPlayer`, `MCAsyncOps`, `MCSimpleCli`, `MCPstreambuf`, `MCPstreamData` | instances for TLC |

Modules contain, before a definition, mutated forms of it that a plausible
bug would give (`PlainInc`, `NeverWaits`, `StopKeepsToken` and so on). No
specification uses them: each property is violated when the definition is
replaced by one of them.

### Heartbeat

One loop per Hello. `Enter` and `Compare` are the two loads of
`_nonce - _received_nonce`; `Fire` is the end of the interval with the load of
`++_nonce`, `Beat` its store with the send, `BeatFails` the same with a refused
send. `Acknowledge` processes an answer, `Disconnect` loses those under way.
`CancellationSeen` stands for the three questions after a cancellation; which
token they ask is decided in `VoiceClient`. The nonce has `Modulus` values,
2^32 in the code. Two history variables mark behaviours whose loops overlapped
or in which a heartbeat was not answered within its interval.

### VoiceClient

The actions are grouped by who takes them: the owner, the receive thread
(`Incoming` is its turn, `rx` what it is doing), the chain of continuations of
`process_ready`, which the receive thread waits for, the heartbeat loops, and
the network. A session's number serves as its ssrc and its key. `_secret_key` is
the sequence of keys appended to it.

A handshake that was begun and whose next step can no longer come is what
`HandshakeAdvances` excludes, whatever the server says in between.

`HeartbeatSpec` says that the module implements `Heartbeat`, with the sequence
of answers under way in the history variable `flight`: a beat appends its nonce,
an acknowledgement takes the oldest, a close loses all. The loop's actions are
those of `Heartbeat` with guards of their own. That the nonces in `flight` are
those of the acknowledgements and then of the heartbeats on the channel, so that
the answer the client processes is the one `Heartbeat` says, is proved
(`FlightOK`), and so is that everything else in the client leaves the counters
and the loops as `Heartbeat` allows.

`KeyMatchesSsrc` speaks of a session that has its key. Before that, after
a restart, the key may be any earlier session's: with three sessions of which
the second never got a key, the key of the first stands beside the ssrc of the third.

What is taken from the outside, and how:

- The websocket library has one receive thread, runs one handler at a time, and
  reports a close only when that thread is free. A message sent while it is not
  open fails. A message handler that throws ends the receive thread
  (`rx = "threw"`), after which nothing more arrives.
- The server says Hello once, answers Identify, SelectProtocol and every
  heartbeat, in order, and may say any other opcode, or something malformed,
  unasked. It may hang up.
- A continuation of `wait_for` was given no token, so
  `is_task_cancellation_requested()` is false in it.
- `start` is called when the previous connection is closed; `stop` and the
  destructor not while `start` is connecting. These are the states the library
  allows; the code checks none of them.
- After the destructor a loop that is still there does nothing: in the code its
  `this` dangles and its behaviour is undefined.

### BucketIndex and MemoryPool

`get_bucket_index` is its five halvings, one inside the other; `get_max_size` is
the shift as it is written, position by 16. What `get_bucket_index` is compared
with (`LeastClass`) is the smallest of the classes of 16, 32, 64 ... elements that
has room. In `MemoryPool` an action is what the code does
under one lock; the allocation after the lock is a step of its own. Handles are
threads' `memory` objects. Pointers nobody initialised (`buffer` of an exhausted
bucket, `_pool` of a wrapped vector) are chosen freely among the values they may
have. The class templates cannot be instantiated as they are written (buckets with
a mutex in a growing vector, a handle copied out of an optional, a pool taken as
const); the model follows what their bodies say. A handle is made by renting or
wrapping, may be moved from, and is destroyed. Default construction and move
assignment, which the compiler writes (`= default`), are not modelled: the one
leaves both pointers as they are, which the destructor then follows as it does for a
wrapped vector (`Wrap`), and the other copies pointers as the move does.

### Player

A call is a process: `entered` after the call, `swapped` when it won the atomic
flag, then the part its continuation runs (`speaking`, `transmitting`,
`transmitted`, `transcoding`), or for `stop` the tasks it follows. `chain` is what a play
started to transmit: the continuation sends the first frame (`first`) before
`transmit` returns and `_transmit_task` is assigned (`AssignTransmit`), or throws
with it (`TransmitThrows`), and the rest of the chain may run meanwhile. Frames
are only counted. `_playing` may start with either
value, as `std::atomic_bool` leaves it uninitialised. `transcode` calls itself in
the thread of the continuation, so `_transcode_task` is assigned only when it is
over. `player` has a reference member and no constructor that binds it, so no
program can have one yet; its methods are modelled as they are.

### Tasks and AsyncOps

`Tasks` is the promise: a task is pending until there is a reason for it to end,
ends once, with one of the reasons there are, and does end when there is one.
`AsyncOps` has calls of `wait_for`, with and without a token, and of the
operations on one socket. A call goes through its function (`at`), the operation
of asio ends at some point (`came`), its handler runs on another thread
(`handler`), and the promise settles the task unless it is settled. With a token
there is a callback that cancels the timer and then the promise, each after
asking `_IsTriggered()` (`CancelTimer`, `CancelPromise`), and a continuation of
the task that takes the callback out of the token (`Deregister`); it waits
while the callback runs, as cpprestsdk does.
A reason for a task is that its operation ended or that the token it was given
is cancelled.

The memory of receives is a set of addresses. `receive` has a vector until it returns
(`Holds`) and a copy of it in the continuation, made when that is attached; so
the copy may be what arrived, zeros, or torn, if the operation writes meanwhile.
When `receive` returns, the vector is gone, and its address is free for the next
receive or copy, while the operation goes on to write there: `Received` writes
to the address it was given, whose that is by now, and `Written` says what a copy
that is being made finds. `receive_from` has an array that nobody deletes and
copies it only in the handler. Of the receives, and of the sends, the one that
was started first is done first; so who still writes to a given address was
started before its new owner, which is why `receive_from` is not harmed and why
`receive` may get an earlier one's datagram. `GivesWhatArrived` names these outcomes and
no other. What a write to freed memory does to anything else, and the local
endpoint that `receive_from` passes by reference, are undefined behaviour that is
not modelled; `async_send` reads a vector that is gone, which is modelled where it
is seen (`Garbled` in `SimpleCli`). asio, the network, the allocator and the
registration of callbacks are external. A host that is no address makes
`address::from_string` throw in `connect` and `receive_from` before anything is
begun; that is left out.

### VoicePacket and SimpleCli

`Header` is built as `transmit_frame` builds it: two fixed bytes, then sequence,
timestamp and ssrc, each reversed from memory order. How RTP reads
it (`SequenceIn` and so on) is a definition of its own and the reference.
`Byte` is the number of values of a byte, so that counters may wrap in a small
instance. An integer of 32 bits is two of 16 in memory, the low one first, and a
reader joins them the other way round.

In `SimpleCli` the transcoding thread, the transmitting thread and the chain of
`main_async` are processes. `Transcode` is reading a frame and encoding it; the
input, which may be `std::cin`, may block for ever. `Push` waits at a full queue, `Pop` is polled while the queue is empty;
`BuildHeader`, `Encrypt` and `Send` are the reads of `_ssrc`, of
`_secret_key` and of the packet, which the socket may read when the vector that
held it is gone (`Garbled`). `Pace` waits for the rest of the 20 ms and then
destroys the temporary `memory(frame)`, whose destructor follows a `_pool` nobody
initialised: that may be null, or end the program. (What else it may do to
memory is in `MemoryPool`, as a wrapped vector.) `Ready` and `SessionDescription` are what the
receive thread writes meanwhile. An exception that leaves a thread terminates the
program; one in the chain reaches `main`, which closes the pipe to `bot.py` and
waits for that process.

### Pstreambuf and PstreamData

`Pstreambuf` has several streams on threads of their own, every system call of
`open`, `fork`, `wait` and `close` as a step, and for every process the pipe ends
it has open: a child inherits all of them, and those with `FD_CLOEXEC` go at
its exec. `PstreamData` has one stream of one of the classes with its put
area, its active get area and the one put by (`rbufstate_`), the pipes, and a
process that reads characters, answers with some of its own and may also
write unasked. `rpstream` does what
`pstream` does; only its interface to the sources is another.

Decisions that matter:

- SIGPIPE is ignored: a write to a dead pipe fails instead of ending the program.
- A buffer is no larger than `PIPE_BUF`, so a write is taken whole or not at all;
  the branch of `empty_buffer` for part of one is not reached.
- `sync` fails on an empty put area and `close` discards what an interrupted
  `sync` could not write, as in the code.
- A write to a pipe blocks while it is full, for as long as somebody could read it.
  `Pstreambuf` has that write as a state of its own in `sync`, `peof`, `close` and the
  destructor (`WriteWaits`, `WriteReturns`), `PstreamData` has the contents of the pipe.
  The read of a get area blocks in `PstreamData` only.
- A program need not end when its pipes are dead: whether it does (`stays`) is chosen
  when it is executed. `bot.py` is one that stays.
- A stream whose process was waited for is not open, keeps its read pipes, and may be
  opened again over them (`leaky` marks those).
- A signal may cut an open short while it waits to hear of exec: the process runs, the
  pipes are there, the buffers are not. If the stream was not closed before, it has
  what the process before left, and gives that (`cut_over`).
- The state bits of a stream (failbit, eofbit) are left out, and with them what
  `clear()` does: every call of the buffer may be made whenever no other is
  going on, as a program that clears the state, or that uses `rdbuf()`, can.
- `waitpid` fails only with EINTR. ECHILD would need a program that ignores SIGCHLD
  or collects the children of its streams itself. A child is not killed from outside
  before its exec.

## The runs

| Run | Instance | Shows |
|---|---|---|
| `heartbeat` | 2 loops, 5 nonces, at most 3 answers under way | `HeartbeatWindow`, `NoFalseAlarm`, `AnswersAdvance`, `KeepsBeating` |
| `voice_session` | one session, 4 nonces, faults, all unasked messages | `HandshakeAdvances`, `SessionEstablished`, `StopCompletes`, `LoopsDrain` |
| `voice_restart` | two sessions, faults, fewer than 3 heartbeats | `HandshakeOrder`, `KeyMatchesSsrc`, `HeartbeatSpec` |
| `pool` | 3 handles, 2 slots, 3 allocations, regular and irregular sizes, moves, wrapped vectors | `Exclusive`, `Balanced`, `TakenSlotsEmpty`, `SmallestFit` |
| `player` | 4 calls, 3 if they overlap | `OneTransmitter`, `EndsInSilence`, `StopEndsAll` |
| `async` | two waits, or three calls on one socket; 4 addresses, 2 datagrams | `GivesWhatArrived`, `TaskSpec`, `Deregistered` |
| `sample` | 6 frames, queue of 2, bytes of 2 values | `FramesKept`, `HeadersInOrder`, `SpeaksFirst`, `PlaysOrEnds` |
| `pstreams` | 2 streams, 2 processes | `DescriptorsKept`, `ChildrenOwned`, `ClosedIsFresh`, `OpenTellsExec`, `HangsForAProcess` |
| `pstream_data` | one stream of each class, buffer of 2, pipes of 2 | `WrittenInOrder`, `ReadInOrder`, `AreaIsLive`, `PutbackKept`, `ReadyOrMute`, `OnlyWaitsForWaiting` |
| `voice_frame_key`, `voice_destructor`, `pstream_stale` | small | a violation each, see below |

`heartbeat`, `voice_session`, `async` and `pstreams` check `TypeOK` too; there, and
for `MemoryPool` and `Player`, it is proved. Deadlock is not checked: a client that is
gone, a player left alone, a sample that waits for its promise and a stream
nobody uses stop.

Why the bounds are enough:

- `Modulus` 5 (4): the window is two wide, so five values are enough for it to
  lie on either side of the wrap, and the nonce wraps several times. For every
  other width the theorems hold.
- `FlightBound` (3): without overlap at most two answers are under way, so only
  behaviours with overlap are cut, about which the properties say nothing more.
- `MaxStarts` 2: a second session is the first that can meet leftovers of another.
  `BeatBound` (fewer than three heartbeats in all, two under way) keeps that run
  finite; it is enough for both loops to live, to increment at once, and to
  lose a heartbeat with the connection. The nonce wraps in `heartbeat` and in
  `voice_session`, not in this run.
- `Chat` and `SetSpeaking` only when their channel is empty: they
  bound the channel, and no handler looks at more than one message.
- Three handles and two slots: two handles that exhaust a bucket and one that
  finds it so. `MaxAllocs` (3) lets every handle have an array of its own, and
  after that arrays must be reused. `Amounts` has two
  buckets that take back what they gave, the one of length 0, which does not, and a
  size beyond all; the sizes wrapped are one that is right for a bucket and one that is not. The sizes tried for
  `SmallestFit` include both neighbours of every boundary up to 16 * 2^25.
- `MaxCalls` 4 (`MaxTangled` 3 if calls overlap): play, stop, play, stop, with the
  continuation of the first play coming after the last stop. `MaxQueue` 1
  tells an empty queue from one with frames left over by an earlier play.
- Two waits, of which one or both have the token; or a call of `connect` and two
  more on its socket, in the combinations of `TwoWaitsOrASocket`: a receive whose freed
  memory the next gets needs two of them. Four addresses are one for each of two vectors
  and copies, so memory is reused because it is free and not because there is no
  other. Two datagrams: one may arrive before and one after a receive.
- Two values per byte: the sequence has four values and the timestamp sixteen.
  With six frames of five samples both wrap. A queue of 2 is empty, partly
  full and full, and six frames fill it three times.
- Two streams and two processes: one stream forks while the other is anywhere
  in its open or its close, or one stream is opened twice. What a third process could inherit, a
  second one does.
- A put area of 2 and pipes of 2: five (four) characters make the put area overflow
  twice and the pipe fill. A get area of 2 with one place for putbacks is refilled for every
  character. Streams that only read or only write have two processes, which is
  where leftovers of the first matter.

### Fairness

Only what runs by itself is fair.

- `Heartbeat`, `VoiceClient`, `Player`: continuations on the pool and the receive
  thread, timers, the answers of the server, the end of a connection attempt and of
  a close, a datagram that is not lost. Nobody has to call anything, hang up, chat,
  fail or cancel. The pool has idle threads and takes work in order, which is what
  weak fairness of each chain asks. A datagram need not be delivered: `DatagramLost`
  satisfies the fairness too, and the liveness properties name that outcome
  (`DiscoveryLost`) as an excuse. Transcoding is not fair: it may stop at a full
  queue.
- `AsyncOps`: callers inside a function, handlers that are queued, callbacks and
  continuations. Neither the end of a timer nor an answer, a datagram, a cancellation
  or a close is fair: a task has to end only when there is a reason.
- `SimpleCli`: each thread and the chain of `main_async`. The source of the frames,
  the server, the network and `bot.py` are not: whatever the source gave is played.
- `Pstreambuf`: threads within a call, a write that nobody could read (it fails),
  a forked child on its way to exec, and the end of a program all of whose pipes are
  dead, unless it is one that stays. A write that somebody could read, a program with
  live pipes and one that stays may go on for ever.
- `PstreamData`: a call that has begun, and a process that deals with its input
  and ends when there can be no more. The program need not call anything.

## What is proved

`tlapm` checks these for every value of the constants.

| Theorem | Says |
|---|---|
| **Heartbeat** `TypeCorrect` | the variables keep their types, the nonces their width |
| `WindowHolds` | while loops do not overlap, the unsigned difference of the nonces is at most 2 |
| `AnswersNeverRegress` | an answer brings `_received_nonce` closer to `_nonce` |
| `NeverFalseAlarm` | with answers in time no loop throws a mismatch |
| **VoiceClient** `TypeCorrect` | for any number of sessions, faults and unasked messages |
| `HandshakeInOrder` | what a session has sent is Identify, then SelectProtocol for its own ssrc, neither twice |
| `HandshakeNeverStalls` | a handshake that was begun has its next step on its way |
| `KeyFitsSsrc` | once a session has its key, it and the ssrc are that session's |
| `FirstKeyIsCurrent` | in a client's first session, frames are encrypted with that session's key |
| `HeartbeatRefined` | the client implements `Heartbeat` |
| `ClientWindow`, `ClientNeverFalseAlarm` | what was proved of `Heartbeat` holds of the client |
| **MemoryPool** `TypeCorrect` | an index stays within its bucket, every pointer is null, wild or that of an allocated array |
| `NothingOverwritten` | slots below `_index` are empty, so returning overwrites nothing |
| `ArraysExclusive` | an array is in one handle or one slot |
| `PoolBalanced` | `_index` of a bucket is the number of handles that have an array from it |
| `EveryFitIsSmallest` | every size of 32 bits goes to the smallest class that has room |
| **Player** `TypeCorrect` | every loop has the token of a source that exists, no frame is taken from an empty queue |
| `AlwaysEndsInSilence` | audio is followed by silence, whatever the callers do |
| `OneTransmitterOnly` | with callers who let one call start its loops before the next, one chain transmits, the one `_transmit_task` has or is about to be given |
| **AsyncOps** `TypeCorrect` | for any number of operations and datagrams |
| `EndsOnceForAReason` | they implement the safety part of `Tasks` |
| `ReceivesGiveWhatArrived` | `receive_from` gives the datagram its operation took; `receive` does, but for its early copy and for memory an earlier `receive` has freed |
| **SimpleCli** `NeverSpeaksEarly` | no packet precedes the Speaking message |
| `NoFrameLost` | frames are sent once each, in order, and the queue stays within its capacity |
| `HeadersFollow` | headers continue each other across the wrap of both counters, with one ssrc |
| **Pstreambuf** `StreamsConsistent` | the invariant the others follow from |
| `TypeCorrect` | types, and descriptors are marked close-on-exec only while open |
| `NoDescriptorLost` | on every path the program closes what it opened and only that |
| `EveryChildOwned` | a process belongs to one stream until its status was collected |
| `CloseRenews` | a stream that was closed is as good as new |
| `OpenKnowsExec` | `is_open` after `open` tells whether the file is executed |
| **PstreamData** `StreamKeepsOrder` | the invariant the others follow from |
| `WritesArriveInOrder`, `ReadsComeInOrder` | characters are neither lost, repeated nor reordered, in either direction |
| `NothingReadAfterDelete` | the active get area lies in an array that is there, unless `rbufstate_` was left over |
| `PutbackIsKept` | as many of the last characters extracted as `pbsz` can be put back |
| `OpenedIsReadyOrMute` | a stream that was opened has the pipes and buffers its class needs; one whose open was cut short takes nothing and gives nothing but what was left over in it |
| `FreshStreamGivesItsSource` | a stream reads from the source asked for, of the present process, but for two histories: opened over an area put by, or cut short over what an unclosed stream left |

Assumptions: a nonce of at least four values, at least two values per byte, an
ssrc other than 0 that fits its field, a put-back area smaller than the buffer and
a buffer no larger than a pipe, positive capacity and samples, sizes of 32 bits,
and bounds that are natural numbers. Nothing is assumed of the loops, sessions,
handles, calls, operations, streams or processes, or how many there are.
`PowersOfTwo` is no assumption about the code: the prover does not know the
exponents of arithmetic, so what is needed of them is stated, from one to the
next, and TLC evaluates it in full.

What the proofs rest on:

- `HeartbeatWindow` is not inductive. `WindowInv` adds that one loop is live,
  that its register is current (nobody else writes `_nonce`), that behind the
  comparison the difference is at most one, and that the nonces under way are
  nearer to `_nonce` than the last answer, in the order they were sent. The
  lemmas `SubInc` and `BeatDifferences` say that an increment adds one to every
  difference without wrapping, which is where the width enters.
  `NoFalseAlarm` needs, on top, that at most one heartbeat is under way, the
  latest, and none when the next is about to be sent (`PromptInv`).
- `VoiceClient` has one invariant, `SessionInv`. The handshake is in one place at a
  time (`OnePlace`): a message on its way to the client or to the server, the chain of
  `process_ready`, or the key; in some place, if it was begun and the session
  lasts (`SomePlace`); and what the client knows fits that place (`StageOK`). Of
  the channels it says which message they hold and that none is there twice,
  which is proved by what appending a message and taking the oldest do to
  that (`Once`, `Carries`). `FlightOK` splits the nonces under way into those of
  the acknowledgements and those of the heartbeats. With it each step of the
  client is a step of `Heartbeat` or none, and its theorems, instantiated
  under the refinement, are theorems about the client.
- `TakenSlotsEmpty` needs that each index lies within its slots or just behind
  them (`BucketsOK`). `Exclusive` needs `OneOwner`, which counts a handle between the
  lock and its allocation as one without an array, and says of the slots from
  `_index` on that they share nothing. `Balanced` needs `Accounts`: a handle in use
  goes back to the bucket its length names, the bucket it came from; then a return
  takes one from the set whose size `_index` is. `SmallestFit` is a fact of
  arithmetic: `Halved` is what a halving keeps, namely that what remains is the
  size divided by the power of two of what was found; `LogarithmFound` goes through
  the five.
- `EndsInSilence` is nearly inductive. `OneTransmitter` needs `SerialInv`: with
  callers who wait for each other at most one call is active, all sources but the
  current one were cancelled, a play takes over only when it made the current
  source, and a loop with the current token is the one in `_transmit_task` or
  that of the call that is about to assign it (`LatestAssigns`).
- `EndsOnceForAReason`: a step of `AsyncOps` begins a task, settles one or adds
  reasons. That a settling has its reason needs that a queued
  handler's operation has ended, and that a callback that runs belongs to a wait
  whose token is cancelled (`AInv`). `GivesWhatArrived` needs that memory in use has one
  owner (`Owned`), that whoever still writes to memory that is somebody's now was queued
  before (`InOrder`), and so what each buffer and copy can hold (`Contents`).
- `SpeaksFirst`: the promise `connected` is set only after Speaking was sent, and
  the transmitting thread is at its first statement until then. `FramesKept`:
  `Numbered` says of each frame, sent, popped or waiting, which number it has.
  `HeadersInOrder`: `HeadersInv` says that both counters are the number of headers
  built, one wrapped and the other times `Samples` and wrapped, that
  each header on the wire and the one on its way was built from them (`Stamped`), and
  that the ssrc, once set, is in every later one (`OneSource`). `HeaderReads`
  is the lemma that a reader of a header finds what was put into it, for any
  number of values of a byte; `WrappedSum` that a counter that wraps at every
  step is the total, wrapped.
- `PstreamInv`: every `open` has a number of its own for its process and pipes
  (`OwnNumber`, `OwnPipes`); where it is in its function tells which ends and which process
  it has (`Stage`, `Owned`); what exec did is in the pipe `ck_exec`, or known, from the moment
  the child has gone on (`Outcome`), which no other stream can change
  because the ends a stream closes are its own.
- `DataInv`: written characters are numbered, and the put area, the pipe and what
  the process took are parts of one sequence without a gap, unless the stream has
  failed; in the other direction the same for the pipe, the get area of a source and what was
  read (`Ordered`, `Flows`). The areas lie in their arrays (`AreasOK`), an array that
  was deleted is used only after `rbufstate_` was left over (`Alive`), and a
  stream that was opened has the pipes its class needs (`SourcesReady`). One whose open was
  cut short has no put area, so its pipe stays empty (`NotTaken`), and no array to read
  into, so its get areas do (`NotGiven`).

Two of the properties that are violated are proved under the condition that
delimits them: `FrameKeyIsCurrent` while the client was started once,
`ComesFromSource` while `rbufstate_` was not left over. (A stream that was cut short
over what another left is excluded by its premise, `Sound`.) The states that violate
them are therefore all of that kind, in every instance.

Only model-checked: liveness (`KeepsBeating`, `SessionEstablished`, `StopCompletes`,
`LoopsDrain`, `StopEndsAll`, `Deregistered`, the fair part of `TaskSpec`,
`PlaysOrEnds`, `HangsForAProcess`, `OnlyWaitsForWaiting`), because the prover does not
handle fairness.

## What the code does otherwise than it says

Each of these is a property some comment or message of the code states, violated
in a run (details in `PROJECT.json`, "findings").

- `voice_frame_key`: `start` keeps `_secret_key` and the next key is appended, so
  frames are encrypted with the old one.
- `voice_destructor`: the deadlock that the comment in the destructor suspects,
  when a discovery datagram is lost.
- `pstream_stale`: neither `close` nor `open` resets `rbufstate_`, so switching the
  source in the next process reads from an array that was deleted.

The models show more that no run claims:

- `get_max_size` has the operands of its shift the wrong way round, so most buffers
  are refused when they come back, by an exception in a destructor; the bucket
  for the smallest sizes has buffers of length 0. The defaulted move leaves the
  pointer behind, and an exhausted bucket hands out an uninitialised one. These
  are what `fate` marks as irregular.
- `start` keeps both nonces, so heartbeats lost with the last session make the loop
  of the new one give up.
- With two sessions, loops overlap (the old one was never told to stop) and may
  increment `_nonce` at once; the properties of `Heartbeat` therefore speak of
  loops in order.
- With overlapping callers of the player, a `stop` between the swap and the new
  source of a `play` cancels the source before it, and nothing ends that play. With
  callers who do not wait for a play to start its loops, two chains may transmit;
  `OneTransmitter` excludes both.
- `receive` may return zeros, or the datagram of an earlier one whose operation still
  writes to the memory it freed; `async_send` may read a vector that is gone, and a
  frame may be encrypted with part of a key or none.
- In pstream, the comment at line 1437 ("close pipes before wait() so child gets
  EOF/SIGPIPE") assumes that nobody else has the pipes and that the child ends. A child
  of another stream, forked between, has them too, and `close` then waits for that child;
  it waits for ever for one that stays, and before that, in its `sync`, for a
  process that does not read.
- The comment at lines 1574-1575 says that a process that was waited for leaves pipes to be
  freed by the next `open` or `close`; `open` overwrites them instead (`leaky`).
- After an interrupted `open` a stream has a process and no buffers, so "Iff" at
  line 1187 does not hold then; `OpenTellsExec` leaves such opens out, and `ReadyOrMute`
  says what such a stream does.
- When the sample's chain fails, `main` first closes the pipe and so waits for
  `bot.py`.

## What is not modelled

- *Time* is only order: a timer fires at some point. Pacing (the runover of
  `wait_for`, 20 ms frames) is not there, and `wait_until`, which computes a
  duration for `wait_for`, is left to it.
- *Encryption and the content of frames*: packets are told apart by frame, header
  and whether there was a key.
- *`completed_task`*: a task that is complete when it is returned; it has no
  other state.
- *bot.py*: five lines of output, and then it stays. The sample starts where they were
  read.
- *Undefined behaviour* beyond what was named: a write to freed memory or a dangling
  endpoint in the UDP client, a destructor that follows an uninitialised pointer in the
  player (`player.cpp:54-58`).
- *`fopen` of pstream.h* is not compiled (`REDI_EVISCERATE_PSTREAMS` is not set).
- *span*: vendored, a view without state. *player_manager*, *transcoder*:
  declarations without code. *logging*, *opcodes*, build files: formatting, an
  enumeration, configuration.

## Plan

Done, in this order: `Heartbeat` with its proofs, `VoiceClient` over it,
`BucketIndex` and `MemoryPool`, `Player`; then `Tasks` and `AsyncOps`, `VoicePacket`
and `SimpleCli`, `Pstreambuf` and `PstreamData`; then the proofs of all their invariants
and action properties and of the refinements' steps. What is left to prove is of use
rather than of need:

1. The refinement of `Tasks` with the reasons of each operation apart.
2. The sample's view of the session (`Ready`, `SessionDescription`, `Disconnect` in
   `SimpleCli`) as an abstraction of `VoiceClient`. Each is translated from the
   source for itself, and that the second implements the first is not shown.
