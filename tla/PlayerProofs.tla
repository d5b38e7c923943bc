---------------------------- MODULE PlayerProofs ----------------------------
(***************************************************************************)
(* Theorems about Player, for every number of calls, every discipline of   *)
(* the callers and every interleaving.                                     *)
(***************************************************************************)
EXTENDS Player, TLAPS

-----------------------------------------------------------------------------
(* Why it holds: a chain that has sent audio runs until it has sent        *)
(* silence or broke, so audio was last only while some chain is neither    *)
(* over nor not yet started.                                               *)
SilenceInv ==
  /\ chain \in [Calls -> [pc : {"none", "first", "ready", "pausing", "over", "broken"},
                          token : Int]]
  /\ source \in Int
  /\ EndsInSilence

LEMMA SilenceStep == SilenceInv /\ [Next]_vars => SilenceInv'
<1> SUFFICES ASSUME SilenceInv, [Next]_vars PROVE SilenceInv'
  OBVIOUS
<1> USE DEF SilenceInv, EndsInSilence, SendFrame, Goto
<1>1. ASSUME NEW c \in Calls, Play(c) \/ Stop(c) PROVE SilenceInv'
  BY <1>1 DEF Play, Stop, Make
<1>2. ASSUME NEW c \in Calls, PlayStep(c) PROVE SilenceInv'
  <2>1. CASE StartTransmit(c)
    BY <2>1 DEF StartTransmit
  <2>2. CASE TransmitThrows(c)
    <3>1. /\ chain' = [chain EXCEPT ![c].pc = "broken"]
          /\ UNCHANGED <<source, lastSent>>
      BY <2>2 DEF TransmitThrows
    <3> QED
      BY <3>1
  <2>3. CASE ~StartTransmit(c) /\ ~TransmitThrows(c)
    BY <1>2, <2>3
    DEF PlayStep, PlaySwap, PlaySource, SpeakingFails, AssignTransmit,
        StartTranscode, Transcode, TranscodeThrows, TranscodeEnds
  <2> QED
    BY <2>1, <2>2, <2>3
<1>3. ASSUME NEW c \in Calls, StopStep(c) PROVE SilenceInv'
  BY <1>3 DEF StopStep, StopSwap, StopCancel, StopFollows, StopSpeaking
<1>4. ASSUME NEW c \in Calls, LastSilence(c) PROVE SilenceInv'
  BY <1>4 DEF LastSilence, Sends
<1>5. ASSUME NEW c \in Calls,
             TransmitFrame(c) \/ TransmitSilence(c) \/ FrameFails(c) \/ Pause(c)
      PROVE  SilenceInv'
  <2>1. /\ chain' \in [Calls -> [pc : {"none", "first", "ready", "pausing", "over", "broken"},
                                 token : Int]]
        /\ chain'[c].pc \in {"ready", "pausing", "broken"}
        /\ UNCHANGED source
    BY <1>5 DEF TransmitFrame, TransmitSilence, FrameFails, Pause, Sends
  <2> QED
    BY <2>1
<1>6. CASE UNCHANGED vars
  BY <1>6 DEF vars
<1> QED
  BY <1>1, <1>2, <1>3, <1>4, <1>5, <1>6 DEF Next, ChainStep

(* However play and stop are called, and however their continuations       *)
(* interleave, audio is followed by silence before the last chain is over. *)
THEOREM AlwaysEndsInSilence == Spec => []EndsInSilence
<1>1. Init => SilenceInv
  BY DEF Init, SilenceInv, EndsInSilence, NoChain
<1>2. SilenceInv => EndsInSilence
  BY DEF SilenceInv
<1> QED
  BY <1>1, <1>2, SilenceStep, PTL DEF Spec

-----------------------------------------------------------------------------
Pcs == {"none", "entered", "swapped", "speaking", "transmitting", "transmitted", "transcoding",
        "cancelled", "waiting", "done", "failed"}
CallRecord == [kind : {"none", "play", "stop"}, pc : Pcs, token : Nat]
ChainRecord == [pc : {"none", "first", "ready", "pausing", "over", "broken"}, token : Nat]

CallsOK == call \in [Calls -> CallRecord]
ChainsOK == chain \in [Calls -> ChainRecord] /\ source \in Nat
            /\ \A c \in Calls : chain[c].token <= source
TasksOK == transmitTask \in 0 .. MaxCalls /\ transcodeTask \in 0 .. MaxCalls
CountsOK == queued \in 0 .. MaxQueue /\ source \in Nat /\ cancelled \subseteq 0 .. source

LEMMA CallGoes ==
  ASSUME CallsOK, NEW c \in Calls, NEW pc \in Pcs, NEW token \in Nat,
         \/ call' = [call EXCEPT ![c].pc = pc]
         \/ call' = [call EXCEPT ![c].pc = pc, ![c].token = token]
         \/ \E kind \in {"play", "stop"} :
              call' = [call EXCEPT ![c] = [kind |-> kind, pc |-> pc, token |-> token]]
  PROVE  CallsOK'
<1>1. ASSUME call' = [call EXCEPT ![c].pc = pc] PROVE CallsOK'
  BY <1>1 DEF CallsOK, CallRecord
<1>2. ASSUME call' = [call EXCEPT ![c].pc = pc, ![c].token = token] PROVE CallsOK'
  BY <1>2 DEF CallsOK, CallRecord
<1>3. ASSUME NEW kind \in {"play", "stop"},
             call' = [call EXCEPT ![c] = [kind |-> kind, pc |-> pc, token |-> token]]
      PROVE  CallsOK'
  BY <1>3 DEF CallsOK, CallRecord
<1> QED
  BY <1>1, <1>2, <1>3

LEMMA CallsStep ==
  ASSUME CallsOK, TasksOK, CountsOK, [Next]_vars PROVE CallsOK'
<1> USE DEF Goto
<1>0. {"none", "entered", "swapped", "speaking", "transmitting", "transmitted", "transcoding",
       "cancelled", "waiting", "done", "failed"} = Pcs /\ 0 \in Nat
      /\ transmitTask \in Nat /\ source \in Nat
  BY PlayerAssumption DEF Pcs, TasksOK, CountsOK
<1>1. ASSUME NEW c \in Calls, Play(c) \/ Stop(c) PROVE CallsOK'
  BY <1>0, <1>1, CallGoes DEF Play, Stop, Make
<1>2. ASSUME NEW c \in Calls, PlayStep(c) PROVE CallsOK'
  <2>1. CASE PlaySwap(c) \/ PlaySource(c) \/ SpeakingFails(c) \/ StartTransmit(c)
               \/ AssignTransmit(c) \/ TransmitThrows(c) \/ TranscodeThrows(c)
               \/ TranscodeEnds(c)
    <3>1. \E pc \in Pcs : call' = [call EXCEPT ![c].pc = pc]
      BY <1>0, <2>1
      DEF PlaySwap, PlaySource, SpeakingFails, StartTransmit, AssignTransmit, TransmitThrows,
          TranscodeThrows, TranscodeEnds
    <3> QED
      BY <1>0, <3>1, CallGoes
  <2>2. CASE StartTranscode(c)
    BY <1>0, <2>2, CallGoes DEF StartTranscode
  <2>3. CASE Transcode(c)
    BY <2>3 DEF Transcode, CallsOK
  <2> QED
    BY <1>2, <2>1, <2>2, <2>3 DEF PlayStep
<1>3. ASSUME NEW c \in Calls, StopStep(c) PROVE CallsOK'
  <2>1. CASE StopSwap(c) \/ StopCancel(c) \/ StopSpeaking(c)
    <3>1. \E pc \in Pcs : call' = [call EXCEPT ![c].pc = pc]
      BY <1>0, <2>1 DEF StopSwap, StopCancel, StopSpeaking
    <3> QED
      BY <1>0, <3>1, CallGoes
  <2>2. CASE StopFollows(c)
    <3>1. PICK pc \in Pcs :
            call' = [call EXCEPT ![c].pc = pc, ![c].token = transmitTask]
      BY <1>0, <2>2 DEF StopFollows
    <3>2. transmitTask \in Nat
      BY <1>0
    <3> QED
      BY <3>1, <3>2 DEF CallsOK, CallRecord
  <2> QED
    BY <1>3, <2>1, <2>2 DEF StopStep
<1>4. ASSUME (\E c \in Calls : ChainStep(c)) \/ UNCHANGED vars PROVE CallsOK'
  BY <1>4
  DEF vars, ChainStep, SendFrame, LastSilence, TransmitFrame, TransmitSilence, FrameFails,
      Pause, CallsOK
<1> QED
  BY <1>1, <1>2, <1>3, <1>4 DEF Next

LEMMA ChainsStep == ChainsOK /\ [Next]_vars => ChainsOK'
<1> SUFFICES ASSUME ChainsOK, [Next]_vars PROVE ChainsOK'
  OBVIOUS
<1>1. ASSUME NEW c \in Calls, StartTransmit(c) PROVE ChainsOK'
  BY <1>1 DEF StartTransmit, ChainsOK, ChainRecord
<1>2. ASSUME NEW c \in Calls, ChainStep(c) \/ TransmitThrows(c) PROVE ChainsOK'
  <2>1. /\ \E pc \in {"ready", "pausing", "over", "broken"} :
             chain' = [chain EXCEPT ![c].pc = pc]
        /\ UNCHANGED source
    BY <1>2
    DEF ChainStep, SendFrame, LastSilence, TransmitFrame, TransmitSilence, FrameFails, Pause,
        TransmitThrows
  <2> QED
    BY <2>1 DEF ChainsOK, ChainRecord
<1>3. ASSUME UNCHANGED chain, source' \in {source, source + 1} PROVE ChainsOK'
  BY <1>3 DEF ChainsOK, ChainRecord
<1>4. ASSUME UNCHANGED vars PROVE ChainsOK'
  BY <1>3, <1>4 DEF vars
<1>5. ASSUME NEW c \in Calls, Play(c) \/ Stop(c) \/ PlayStep(c) \/ StopStep(c),
             ~StartTransmit(c), ~TransmitThrows(c)
      PROVE  ChainsOK'
  BY <1>3, <1>5
  DEF Play, Stop, Make, PlayStep, PlaySwap, PlaySource, SpeakingFails, AssignTransmit,
      StartTranscode, Transcode, TranscodeThrows, TranscodeEnds, StopStep, StopSwap, StopCancel,
      StopFollows, StopSpeaking
<1> QED
  BY <1>1, <1>2, <1>4, <1>5 DEF Next

LEMMA TasksStep == TasksOK /\ [Next]_vars => TasksOK'
<1> SUFFICES ASSUME TasksOK, [Next]_vars PROVE TasksOK'
  OBVIOUS
<1> USE PlayerAssumption DEF TasksOK, Calls
<1>1. ASSUME NEW c \in Calls, PlayStep(c) PROVE TasksOK'
  BY <1>1
  DEF PlayStep, PlaySwap, PlaySource, SpeakingFails, StartTransmit, AssignTransmit,
      TransmitThrows, StartTranscode,
      Transcode, TranscodeThrows, TranscodeEnds
<1>2. ASSUME NEW c \in Calls, Play(c) \/ Stop(c) \/ StopStep(c) PROVE TasksOK'
  BY <1>2
  DEF Play, Stop, Make, StopStep, StopSwap, StopCancel, StopFollows, StopSpeaking
<1>3. ASSUME NEW c \in Calls, ChainStep(c) PROVE TasksOK'
  BY <1>3
  DEF ChainStep, SendFrame, LastSilence, TransmitFrame, TransmitSilence, FrameFails, Pause
<1>4. CASE UNCHANGED vars
  BY <1>4 DEF vars
<1> QED
  BY <1>1, <1>2, <1>3, <1>4 DEF Next

LEMMA CountsStep == CountsOK /\ [Next]_vars => CountsOK'
<1> SUFFICES ASSUME CountsOK, [Next]_vars PROVE CountsOK'
  OBVIOUS
<1> USE PlayerAssumption DEF CountsOK, Lost
<1>1. ASSUME NEW c \in Calls, PlayStep(c) \/ StopStep(c) PROVE CountsOK'
  BY <1>1
  DEF PlayStep, PlaySwap, PlaySource, SpeakingFails, StartTransmit, AssignTransmit,
      TransmitThrows, StartTranscode,
      Transcode, TranscodeThrows, TranscodeEnds, StopStep, StopSwap, StopCancel,
      StopFollows, StopSpeaking
<1>2. ASSUME NEW c \in Calls, ChainStep(c) PROVE CountsOK'
  BY <1>2
  DEF ChainStep, SendFrame, LastSilence, TransmitFrame, TransmitSilence, FrameFails, Pause
<1>3. ASSUME NEW c \in Calls, Play(c) \/ Stop(c) PROVE CountsOK'
  BY <1>3 DEF Play, Stop, Make
<1>4. CASE UNCHANGED vars
  BY <1>4 DEF vars
<1> QED
  BY <1>1, <1>2, <1>3, <1>4 DEF Next

FlagsOK ==
  /\ playing \in BOOLEAN
  /\ lastSent \in {"none", "audio", "silence"}
  /\ hasty \in {"no", "early", "tangled"}

LEMMA FlagsStep == FlagsOK /\ [Next]_vars => FlagsOK'
<1> SUFFICES ASSUME FlagsOK, [Next]_vars PROVE FlagsOK'
  OBVIOUS
<1> USE DEF FlagsOK, Lost
<1>1. ASSUME NEW c \in Calls, PlayStep(c) \/ StopStep(c) PROVE FlagsOK'
  BY <1>1
  DEF PlayStep, PlaySwap, PlaySource, SpeakingFails, StartTransmit, AssignTransmit,
      TransmitThrows, StartTranscode,
      Transcode, TranscodeThrows, TranscodeEnds, StopStep, StopSwap, StopCancel,
      StopFollows, StopSpeaking
<1>2. ASSUME NEW c \in Calls, ChainStep(c) PROVE FlagsOK'
  BY <1>2
  DEF ChainStep, SendFrame, LastSilence, TransmitFrame, TransmitSilence, FrameFails, Pause
<1>3. ASSUME NEW c \in Calls, Play(c) \/ Stop(c) PROVE FlagsOK'
  BY <1>3 DEF Play, Stop, Make
<1>4. CASE UNCHANGED vars
  BY <1>4 DEF vars
<1> QED
  BY <1>1, <1>2, <1>3, <1>4 DEF Next

LEMMA Types == TypeOK <=> CallsOK /\ ChainsOK /\ TasksOK /\ CountsOK /\ FlagsOK
BY Zenon
DEF TypeOK, CallsOK, ChainsOK, TasksOK, CountsOK, FlagsOK, CallRecord, ChainRecord, Pcs

(* For any number of calls and any interleaving of them: every loop has a  *)
(* token of a source that was created, and no frame is taken from an empty *)
(* queue.                                                                  *)
THEOREM TypeCorrect == Spec => []TypeOK
<1>1. Init => TypeOK
  BY PlayerAssumption DEF Init, TypeOK, NotMade, NoChain, Calls
<1>2. TypeOK /\ [Next]_vars => TypeOK'
  <2>1. TypeOK' <=> CallsOK' /\ ChainsOK' /\ TasksOK' /\ CountsOK' /\ FlagsOK'
    BY Zenon
    DEF TypeOK, CallsOK, ChainsOK, TasksOK, CountsOK, FlagsOK, CallRecord, ChainRecord, Pcs
  <2> QED
    BY <2>1, Types, CallsStep, ChainsStep, TasksStep, CountsStep, FlagsStep
<1> QED
  BY <1>1, <1>2, PTL DEF Spec
-----------------------------------------------------------------------------
(* Why serial callers never have two transmitters: one call at a time is   *)
(* at work before its loops have started; a play acts only on a player     *)
(* that is not playing, whose sources have all been cancelled; and its     *)
(* chain is the first, and the only one, with a token of its source, when  *)
(* it begins to send and until its task has been assigned.                 *)
Active(c) == InCaller(c) \/ Starting(c)

Settled == source = 0 \/ source \in cancelled

OneActive == \A b, c \in Calls : Active(b) /\ Active(c) => b = c

OldSourcesCut == \A s \in 1 .. source - 1 : s \in cancelled

PlayTakesOver == \A c \in Calls : At(c, "play", "swapped") => playing /\ Settled

StoppedIsCut == ~playing /\ (\A c \in Calls : ~At(c, "stop", "swapped")) => Settled

SourceIsFresh ==
  \A c \in Calls : At(c, "play", "speaking") => \A b \in Calls : chain[b].token < source

LatestTransmits ==
  \A c \in Calls : Running(c) =>
    chain[c].token >= 1
    /\ (chain[c].token = source => transmitTask = c \/ At(c, "play", "transmitting"))

(* The chain of the call that will assign its task is the latest.          *)
LatestAssigns ==
  \A c \in Calls : At(c, "play", "transmitting") =>
    /\ chain[c].token = source
    /\ \A b \in Calls \ {c} : chain[b].token < source

SerialInv ==
  hasty = "no" =>
    /\ OneActive /\ OldSourcesCut /\ PlayTakesOver /\ StoppedIsCut
    /\ SourceIsFresh /\ LatestTransmits /\ LatestAssigns

LEMMA SerialTransmits == TypeOK /\ SerialInv => OneTransmitter
<1> SUFFICES ASSUME TypeOK, SerialInv, hasty = "no",
                    NEW c \in Calls, Running(c), chain[c].token \notin cancelled
             PROVE  /\ transmitTask = c \/ At(c, "play", "transmitting")
                    /\ \A b \in Calls \ {c} : Running(b) => chain[b].token \in cancelled
  BY DEF OneTransmitter
<1>1. ASSUME NEW b \in Calls, Running(b), chain[b].token \notin cancelled
      PROVE  chain[b].token = source /\ (transmitTask = b \/ At(b, "play", "transmitting"))
  <2>1. chain[b].token \in Nat /\ chain[b].token <= source /\ source \in Nat
    BY DEF TypeOK
  <2>2. /\ chain[b].token >= 1
        /\ chain[b].token = source => transmitTask = b \/ At(b, "play", "transmitting")
    BY <1>1 DEF SerialInv, LatestTransmits
  <2>3. chain[b].token = source
    BY <1>1, <2>1, <2>2 DEF SerialInv, OldSourcesCut
  <2> QED
    BY <2>2, <2>3
<1>2. ASSUME NEW b \in Calls, NEW d \in Calls, b # d, At(b, "play", "transmitting")
      PROVE  chain[d].token # source
  <2>1. chain[d].token < source /\ chain[d].token \in Nat /\ source \in Nat
    BY <1>2 DEF SerialInv, LatestAssigns, TypeOK
  <2> QED
    BY <2>1
<1>3. transmitTask = c \/ At(c, "play", "transmitting")
  BY <1>1
<1>4. ASSUME NEW b \in Calls \ {c}, Running(b) PROVE chain[b].token \in cancelled
  BY <1>1, <1>2, <1>4
<1> QED
  BY <1>3, <1>4

LEMMA SerialStep == TypeOK /\ SerialInv /\ [Next]_vars => SerialInv'
<1> SUFFICES ASSUME TypeOK, SerialInv, [Next]_vars, hasty' = "no" PROVE SerialInv'
  BY DEF SerialInv
<1>0. /\ DOMAIN call = Calls /\ DOMAIN chain = Calls
      /\ \A c \in Calls : DOMAIN call[c] = {"kind", "pc", "token"}
      /\ \A c \in Calls : DOMAIN chain[c] = {"pc", "token"}
      /\ \A c \in Calls : chain[c].token \in Nat /\ chain[c].token <= source
      /\ source \in Nat
  BY DEF TypeOK
<1>1. ASSUME hasty = "no"
      PROVE  /\ OneActive /\ OldSourcesCut /\ PlayTakesOver /\ StoppedIsCut
             /\ SourceIsFresh /\ LatestTransmits /\ LatestAssigns
  BY <1>1 DEF SerialInv
<1> DEFINE SourcesKept == UNCHANGED <<playing, source, cancelled>>
           ChainsKept == UNCHANGED <<source, transmitTask, chain>>
<1> USE DEF Goto
<1>2. ASSUME NEW c \in Calls, Play(c) \/ Stop(c) PROVE SerialInv'
  <2>1. /\ call[c].pc = "none"
        /\ \E kind \in {"play", "stop"} :
             call' = [call EXCEPT ![c] = [kind |-> kind, pc |-> "entered", token |-> 0]]
        /\ SourcesKept /\ ChainsKept
    BY <1>2 DEF Play, Stop, Make
  <2>2. hasty = "no" /\ \A b \in Calls : ~ Active(b)
    BY <1>2 DEF Play, Stop, Make, Active, Overlaps
  <2>3. \A b \in Calls : b # c => call'[b] = call[b]
    BY <1>0, <2>1
  <2>4. call'[c].pc = "entered"
    BY <1>0, <2>1
  <2>5. OneActive'
    BY <2>2, <2>3 DEF OneActive, Active, InCaller, Starting
  <2>6. OldSourcesCut' /\ LatestTransmits'
    BY <1>1, <2>1, <2>2 DEF OldSourcesCut, LatestTransmits, Running, Active, Starting, At
  <2>7. \A b \in Calls : /\ ~ At(b, "play", "swapped")' /\ ~ At(b, "play", "speaking")'
                        /\ ~ At(b, "play", "transmitting")'
    BY <2>2, <2>3, <2>4 DEF Active, InCaller, Starting, At
  <2>8. \A b \in Calls : ~ At(b, "stop", "swapped")
    BY <2>2 DEF Active, InCaller, At
  <2>9. StoppedIsCut'
    BY <1>1, <2>1, <2>2, <2>8 DEF StoppedIsCut, Settled
  <2> QED
    BY <2>5, <2>6, <2>7, <2>9 DEF SerialInv, PlayTakesOver, SourceIsFresh, LatestAssigns
(* A step of the only call at work: what its own state does not decide     *)
(* stays.                                                                  *)
<1>3. ASSUME NEW c \in Calls, hasty = "no", Active(c), ChainsKept,
             \A b \in Calls : b # c => call'[b] = call[b],
             ~ At(c, "play", "transmitting"), ~ At(c, "play", "transmitting")'
      PROVE  /\ OneActive' /\ LatestTransmits' /\ LatestAssigns'
             /\ \A b \in Calls : b # c =>
                  /\ ~ At(b, "play", "swapped")' /\ ~ At(b, "play", "speaking")'
                  /\ ~ At(b, "stop", "swapped")'
  <2>1. \A b \in Calls : b # c => ~ Active(b)
    BY <1>1, <1>3 DEF OneActive
  <2>2. \A b \in Calls : b # c => ~ Active(b)'
    BY <1>3, <2>1 DEF Active, InCaller, Starting
  <2>3. OneActive'
    BY <2>2 DEF OneActive
  <2>4. LatestTransmits'
    BY <1>1, <1>3, <2>1 DEF LatestTransmits, Running, Active, Starting, At
  <2>5. LatestAssigns'
    BY <1>3, <2>2 DEF LatestAssigns, Active, Starting, At
  <2> QED
    BY <2>2, <2>3, <2>4, <2>5 DEF Active, InCaller, Starting, At
<1>4. ASSUME NEW c \in Calls, PlaySwap(c) PROVE SerialInv'
  <2>1. /\ hasty = "no" /\ Active(c) /\ ChainsKept /\ playing' = TRUE
        /\ \A b \in Calls : b # c => call'[b] = call[b]
        /\ UNCHANGED cancelled
    BY <1>0, <1>4 DEF PlaySwap, Active, InCaller, At
  <2>2. At(c, "play", "entered") /\ call'[c].kind = "play"
        /\ call'[c].pc = IF playing THEN "done" ELSE "swapped"
    BY <1>0, <1>4 DEF PlaySwap, At
  <2>3. /\ OneActive' /\ LatestTransmits' /\ LatestAssigns'
        /\ \A b \in Calls : b # c =>
             ~ At(b, "play", "swapped")' /\ ~ At(b, "play", "speaking")'
    BY <1>3, <2>1, <2>2 DEF At
  <2>4. ~ playing => Settled
    <3>1. \A b \in Calls : ~ At(b, "stop", "swapped")
      BY <1>1, <2>1, <2>2 DEF OneActive, Active, InCaller, At
    <3> QED
      BY <1>1, <2>1, <3>1 DEF StoppedIsCut
  <2>5. At(c, "play", "swapped")' => ~playing
    BY <2>2 DEF At
  <2>6. PlayTakesOver'
    BY <2>1, <2>3, <2>4, <2>5 DEF PlayTakesOver, Settled
  <2>7. SourceIsFresh'
    BY <2>2, <2>3 DEF SourceIsFresh, At
  <2>8. OldSourcesCut' /\ StoppedIsCut'
    BY <1>1, <2>1 DEF OldSourcesCut, StoppedIsCut
  <2> QED
    BY <2>3, <2>6, <2>7, <2>8 DEF SerialInv
<1>5. ASSUME NEW c \in Calls, PlaySource(c) PROVE SerialInv'
  <2>1. /\ hasty = "no" /\ Active(c) /\ source' = source + 1
        /\ \A b \in Calls : b # c => call'[b] = call[b]
        /\ UNCHANGED <<playing, cancelled, chain, transmitTask>>
        /\ call'[c].pc = "speaking" /\ At(c, "play", "swapped")
    BY <1>0, <1>5 DEF PlaySource, Active, InCaller, At
  <2>2. playing /\ Settled
    BY <1>1, <2>1 DEF PlayTakesOver
  <2>3. \A b \in Calls : b # c => ~ Active(b)
    BY <1>1, <2>1 DEF OneActive
  <2>4. \A b \in Calls : b # c => ~ Active(b)'
    BY <2>1, <2>3 DEF Active, InCaller, Starting
  <2>5. OneActive'
    BY <2>4 DEF OneActive
  <2>6. PlayTakesOver'
    BY <2>1, <2>4 DEF PlayTakesOver, Active, InCaller, At
  <2>7. SourceIsFresh'
    BY <1>0, <2>1 DEF SourceIsFresh
  <2>8. LatestTransmits'
    BY <1>0, <1>1, <2>1 DEF LatestTransmits, Running
  <2>9. OldSourcesCut'
    BY <1>0, <1>1, <2>1, <2>2 DEF OldSourcesCut, Settled
  <2>10. StoppedIsCut'
    BY <2>1, <2>2 DEF StoppedIsCut
  <2>11. LatestAssigns'
    BY <2>1, <2>4 DEF LatestAssigns, Active, Starting, At
  <2> QED
    BY <2>5, <2>6, <2>7, <2>8, <2>9, <2>10, <2>11 DEF SerialInv
<1>6. ASSUME NEW c \in Calls, StartTransmit(c) PROVE SerialInv'
  <2>1. /\ hasty = "no" /\ Active(c) /\ SourcesKept
        /\ At(c, "play", "speaking") /\ transmitTask' = transmitTask
        /\ \A b \in Calls : b # c => call'[b] = call[b] /\ chain'[b] = chain[b]
        /\ At(c, "play", "transmitting")' /\ chain'[c].token = source
    BY <1>0, <1>6 DEF StartTransmit, Active, InCaller, Starting, At
  <2>2. \A b \in Calls : chain[b].token < source
    BY <1>1, <2>1 DEF SourceIsFresh
  <2>3. \A b \in Calls : b # c => ~ Active(b)
    BY <1>1, <2>1 DEF OneActive
  <2>4. \A b \in Calls : b # c => ~ Active(b)'
    BY <2>1, <2>3 DEF Active, InCaller, Starting
  <2>5. OneActive'
    BY <2>4 DEF OneActive
  <2>6. PlayTakesOver' /\ SourceIsFresh'
    BY <2>1, <2>4 DEF PlayTakesOver, SourceIsFresh, Active, InCaller, Starting, At
  <2>7. LatestTransmits'
    <3>1. source >= 1
      BY <1>0, <2>2
    <3> QED
      BY <1>0, <1>1, <2>1, <2>2, <2>3, <3>1 DEF LatestTransmits, Running
  <2>8. OldSourcesCut'
    BY <1>1, <2>1 DEF OldSourcesCut
  <2>9. \A b \in Calls : ~ At(b, "stop", "swapped")
    BY <2>1, <2>3 DEF Active, InCaller, At
  <2>10. StoppedIsCut'
    BY <1>1, <2>1, <2>9 DEF StoppedIsCut, Settled
  <2>11. LatestAssigns'
    BY <2>1, <2>2, <2>4 DEF LatestAssigns, Active, Starting, At
  <2> QED
    BY <2>5, <2>6, <2>7, <2>8, <2>10, <2>11 DEF SerialInv
<1>7. ASSUME NEW c \in Calls, StopSwap(c) PROVE SerialInv'
  <2>1. /\ hasty = "no" /\ Active(c) /\ ChainsKept /\ playing' = FALSE
        /\ \A b \in Calls : b # c => call'[b] = call[b]
        /\ UNCHANGED cancelled
    BY <1>0, <1>7 DEF StopSwap, Active, InCaller, At
  <2>2. At(c, "stop", "entered") /\ call'[c].kind = "stop"
        /\ call'[c].pc = IF playing THEN "swapped" ELSE "done"
    BY <1>0, <1>7 DEF StopSwap, At
  <2>3. /\ OneActive' /\ LatestTransmits' /\ LatestAssigns'
        /\ \A b \in Calls : b # c =>
             ~ At(b, "play", "swapped")' /\ ~ At(b, "play", "speaking")'
    BY <1>3, <2>1, <2>2 DEF At
  <2>4. ~ playing => Settled
    <3>1. \A b \in Calls : ~ At(b, "stop", "swapped")
      BY <1>1, <2>1, <2>2 DEF OneActive, Active, InCaller, At
    <3> QED
      BY <1>1, <2>1, <3>1 DEF StoppedIsCut
  <2>5. playing => At(c, "stop", "swapped")'
    BY <2>2 DEF At
  <2>6. StoppedIsCut'
    BY <2>1, <2>4, <2>5 DEF StoppedIsCut, Settled
  <2>7. PlayTakesOver' /\ SourceIsFresh'
    BY <2>2, <2>3 DEF PlayTakesOver, SourceIsFresh, At
  <2>8. OldSourcesCut'
    BY <1>1, <2>1 DEF OldSourcesCut
  <2> QED
    BY <2>3, <2>6, <2>7, <2>8 DEF SerialInv
<1>8. ASSUME NEW c \in Calls, StopCancel(c) PROVE SerialInv'
  <2>1. /\ hasty = "no" /\ Active(c) /\ ChainsKept
        /\ \A b \in Calls : b # c => call'[b] = call[b]
        /\ cancelled' = cancelled \cup {source}
        /\ call'[c].pc = "cancelled" /\ UNCHANGED playing
        /\ ~ At(c, "play", "transmitting") /\ ~ At(c, "play", "transmitting")'
    BY <1>0, <1>8 DEF StopCancel, Active, InCaller, At
  <2>2. /\ OneActive' /\ LatestTransmits' /\ LatestAssigns'
        /\ \A b \in Calls : b # c =>
             ~ At(b, "play", "swapped")' /\ ~ At(b, "play", "speaking")'
    BY <1>3, <2>1
  <2>3. Settled' /\ OldSourcesCut'
    BY <1>1, <2>1 DEF Settled, OldSourcesCut
  <2>4. PlayTakesOver' /\ SourceIsFresh'
    BY <2>1, <2>2 DEF PlayTakesOver, SourceIsFresh, At
  <2> QED
    BY <2>2, <2>3, <2>4 DEF SerialInv, StoppedIsCut
(* The steps that are about none of this. *)
<1>9. ASSUME hasty = "no", SourcesKept, UNCHANGED transmitTask,
             \A b \in Calls : chain'[b].token = chain[b].token /\ (Running(b)' => Running(b)),
             \A b \in Calls : Active(b)' => Active(b),
             \A b \in Calls : /\ At(b, "play", "swapped")' => At(b, "play", "swapped")
                              /\ At(b, "play", "speaking")' => At(b, "play", "speaking")
                              /\ At(b, "stop", "swapped") => At(b, "stop", "swapped")'
                              /\ At(b, "play", "transmitting")' <=> At(b, "play", "transmitting")
      PROVE  SerialInv'
  <2>1. OneActive' /\ OldSourcesCut' /\ LatestTransmits' /\ LatestAssigns'
    BY <1>1, <1>9 DEF OneActive, OldSourcesCut, LatestTransmits, LatestAssigns
  <2>2. PlayTakesOver' /\ StoppedIsCut'
    BY <1>1, <1>9 DEF PlayTakesOver, StoppedIsCut, Settled
  <2>3. SourceIsFresh'
    BY <1>1, <1>9 DEF SourceIsFresh
  <2> QED
    BY <2>1, <2>2, <2>3 DEF SerialInv
<1>10. ASSUME NEW c \in Calls,
              SpeakingFails(c) \/ StartTranscode(c) \/ TranscodeThrows(c)
                \/ TranscodeEnds(c) \/ StopFollows(c) \/ StopSpeaking(c)
       PROVE  SerialInv'
  <2>1. /\ hasty = "no" /\ SourcesKept /\ ChainsKept
        /\ \A b \in Calls : b # c => call'[b] = call[b]
        /\ call'[c].pc \in {"transcoding", "failed", "done", "waiting"}
        /\ ~ At(c, "stop", "swapped") /\ ~ At(c, "play", "transmitting")
    BY <1>0, <1>10
    DEF SpeakingFails, StartTranscode, TranscodeThrows, TranscodeEnds, StopFollows,
        StopSpeaking, At
  <2>2. /\ \A b \in Calls : Active(b)' => Active(b)
        /\ \A b \in Calls : /\ At(b, "play", "swapped")' => At(b, "play", "swapped")
                            /\ At(b, "play", "speaking")' => At(b, "play", "speaking")
                            /\ At(b, "stop", "swapped") => At(b, "stop", "swapped")'
                            /\ At(b, "play", "transmitting")' <=> At(b, "play", "transmitting")
    BY <2>1 DEF Active, InCaller, Starting, At
  <2> QED
    BY <1>9, <2>1, <2>2 DEF Running
<1>11. ASSUME \/ UNCHANGED vars
              \/ \E c \in Calls : Transcode(c) \/ ChainStep(c)
       PROVE  SerialInv'
  <2>1. hasty = "no" /\ SourcesKept /\ UNCHANGED <<transmitTask, call>>
    BY <1>11
    DEF vars, Transcode, ChainStep, SendFrame, LastSilence, TransmitFrame,
        TransmitSilence, FrameFails, Pause
  <2>2. \A b \in Calls : chain'[b].token = chain[b].token /\ (Running(b)' => Running(b))
    BY <1>0, <1>11
    DEF vars, Transcode, ChainStep, SendFrame, LastSilence, TransmitFrame,
        TransmitSilence, FrameFails, Pause, Running, Sends
  <2> QED
    BY <1>9, <2>1, <2>2 DEF Active, InCaller, Starting, At
(* The task is assigned while its chain is the latest, or never.           *)
<1>12. ASSUME NEW c \in Calls, AssignTransmit(c) \/ TransmitThrows(c) PROVE SerialInv'
  <2>1. /\ hasty = "no" /\ Active(c) /\ SourcesKept
        /\ \A b \in Calls : chain'[b].token = chain[b].token /\ (Running(b)' => Running(b))
        /\ At(c, "play", "transmitting")
        /\ \A b \in Calls : b # c => call'[b] = call[b]
        /\ call'[c].pc \in {"transmitted", "failed"}
        /\ transmitTask' = c \/ (transmitTask' = transmitTask /\ ~Running(c)')
    BY <1>0, <1>12 DEF AssignTransmit, TransmitThrows, Active, Starting, At, Running
  <2>2. \A b \in Calls : b # c => ~ Active(b) /\ ~ Active(b)'
    BY <1>1, <2>1 DEF OneActive, Active, InCaller, Starting
  <2>3. /\ chain[c].token = source
        /\ \A b \in Calls : b # c => chain[b].token # source
    BY <1>0, <1>1, <2>1 DEF LatestAssigns
  <2>4. OneActive'
    BY <2>2 DEF OneActive
  <2>5. LatestTransmits'
    BY <1>1, <2>1, <2>3 DEF LatestTransmits, Running
  <2>6. PlayTakesOver' /\ SourceIsFresh' /\ LatestAssigns'
    BY <2>1, <2>2 DEF PlayTakesOver, SourceIsFresh, LatestAssigns, Active, InCaller, Starting, At
  <2>7. OldSourcesCut' /\ StoppedIsCut'
    <3>1. \A b \in Calls : ~ At(b, "stop", "swapped")
      BY <2>1, <2>2 DEF Active, InCaller, At
    <3> QED
      BY <1>1, <2>1, <3>1 DEF OldSourcesCut, StoppedIsCut, Settled
  <2> QED
    BY <2>4, <2>5, <2>6, <2>7 DEF SerialInv
<1> QED
  BY <1>2, <1>4, <1>5, <1>6, <1>7, <1>8, <1>10, <1>11, <1>12 DEF Next, PlayStep, StopStep

(* For any number of calls: as long as callers let one call start its      *)
(* loops before the next, at most one chain transmits with a token that    *)
(* was not cancelled, and stop will wait for that one once its task has    *)
(* been assigned.                                                          *)
THEOREM OneTransmitterOnly == Spec => []OneTransmitter
<1>1. Init => SerialInv
  BY DEF Init, SerialInv, OneActive, OldSourcesCut, PlayTakesOver, StoppedIsCut,
         SourceIsFresh, LatestTransmits, LatestAssigns, Active, InCaller, Starting, At, Running,
         Settled, NotMade, NoChain
<1> QED
  BY <1>1, SerialStep, SerialTransmits, TypeCorrect, PTL DEF Spec
=============================================================================
