------------------------- MODULE CaptionRuntime_proofs -------------------------
(***************************************************************************)
(* Proofs about CaptionRuntime: the types, the answers of the recogniser,  *)
(* the order in which a recording hands over its segments, the sound that  *)
(* a stop without an error has kept, and that a stop leaves nothing        *)
(* behind, for every number of segments, requests and lines.               *)
(*                                                                         *)
(* The three components share no variable, so each has an invariant of     *)
(* its own (WasapiInv, AsrInv, CapInv), and a step of the whole is a step  *)
(* or a stutter of each.  What the service adds about its own variables,   *)
(* and what links them to the components, is AppType, Life, Failures,      *)
(* Links and Callbacks; Account follows each segment from its callback to  *)
(* the recording.  Ended, Places and Emptied say what a stop has reached.  *)
(* That promises settle before anything else happens is used once, in      *)
(* FlushWaits: a callback that can record has done so before the flush.    *)
(***************************************************************************)
EXTENDS CaptionRuntime, FiniteSetTheorems, SequenceTheorems, TLAPS

-----------------------------------------------------------------------------
(* A step of the whole, seen by each component.                            *)

WasapiMoves ==
  \/ LoopReads \/ LoopWakes \/ LoopStopped \/ LoopDone
  \/ DeliverNothing \/ Deliver \/ FailureInterrupts
  \/ StopStreamSettles \/ StopLoopSettles
  \/ StartLoop \/ StreamStopTimesOut \/ StopDrainTimesOut
  \/ DeviceSends \/ DeviceCompletes \/ DeviceFails \/ DeviceCloses
  \/ OpenStream /\ UNCHANGED <<stream, loop, session, calls>>
  \/ StreamReady /\ UNCHANGED <<stream, session, calls>>
  \/ StreamStartFails /\ UNCHANGED <<loop, session, calls>>
  \/ StopRecording
  \/ \E s \in Segment : CallbackEnds(s) \/ CallbackFails(s)

AsrMoves ==
  \/ ReadyLine \/ BadLine \/ TranscriptLine \/ ResultLine \/ ExitLine
  \/ StopQueueDrained \/ StopDrained \/ StopShutDown \/ StopExited
  \/ RequestTimesOut \/ StopTimesOut \/ StopExitTimesOut
  \/ TranscriptStored \/ TranscriptRejected \/ WriteFails
  \/ HelperReady \/ HelperAnswers \/ HelperRefuses \/ HelperMisbehaves \/ HelperExits
  \/ asr' = [asr EXCEPT !.processing = "idle"] /\ UNCHANGED heard
  \/ Exited /\ UNCHANGED heard
  \/ StopAsr
  \/ \E s \in Segment : Submit(s)

CapMoves ==
  \/ SkipLine \/ Process \/ StopCapSettles \/ StopKills \/ CapFlushes \/ CapExits
  \/ \E kind \in {"ready", "reconnecting", "unavailable", "caption"} : CapWrites(kind)
  \/ cap' = Processed \/ cap' = [Processed EXCEPT !.stored = @ + 1]
  \/ cap' = ProcessingFails \/ cap' = CapExited
  \/ StopCap

-----------------------------------------------------------------------------
(* The recording: every segment is somewhere on its way, in its turn.      *)

DeviceState ==
  [at : {"off", "starting", "running", "stopping", "completed", "dying", "gone"},
   sent : 0 .. MaxSegments]
StreamState ==
  [completed : BOOLEAN, closed : BOOLEAN, failed : BOOLEAN, queued : Seq(Segment),
   stop : {"no", "waiting", "given up"}]
LoopState ==
  {"none", "created", "reading", "waiting", "given", "stopping", "draining", "done"}
SessionState ==
  [maxBacklog : Nat, stopRequested : BOOLEAN, abandoned : BOOLEAN, failed : BOOLEAN,
   stop : {"no", "stream", "loop"} \cup Settled]
CallsState ==
  [tail : Seq(Segment), broken : BOOLEAN, raced : 0 .. MaxSegments,
   active : SUBSET Segment, started : Nat, done : SUBSET Segment]

WasapiType ==
  /\ device \in DeviceState /\ stream \in StreamState /\ loop \in LoopState
  /\ session \in SessionState /\ calls \in CallsState

Over == {"completed", "dying", "gone"}

AtMostOne(S) == \A s, t \in S : s = t

\* Where the helper, the stream and the loop can be together.
Together ==
  /\ loop = "given" => stream.queued # <<>>
  /\ loop = "waiting" => stream.queued = <<>>
  /\ device.at \in {"off", "starting"} => loop = "none"
  /\ stream.completed => device.at \in Over
  /\ stream.closed => device.at = "gone"
  /\ stream.stop = "given up" => stream.failed
  /\ AtMostOne(calls.active)

\* Until the session fails, the segments are the ones that are done, the one that
\* is called, the ones that wait and the ones that are queued, in this order.
Turns ==
  /\ ~calls.broken /\ ~session.abandoned /\ loop # "stopping"
  /\ calls.raced \in {0, calls.started}
  /\ calls.active = IF calls.raced = 0 THEN {} ELSE {calls.raced}
  /\ calls.done = (1 .. calls.started) \ {calls.raced}
  /\ \A i \in 1 .. Len(calls.tail) : calls.tail[i] = calls.started + i
  /\ \A i \in 1 .. Len(stream.queued) :
       stream.queued[i] = calls.started + Len(calls.tail) + i
  /\ ~stream.failed => device.sent = calls.started + Len(calls.tail) + Len(stream.queued)

\* What the stop has waited for.
Waited ==
  /\ loop \in {"draining", "done"} => stream.queued = <<>> /\ device.at \in Over
  /\ loop = "done" => calls.tail = <<>> /\ calls.raced = 0
  /\ session.stop \in {"loop", "ok"} => stream.closed /\ ~stream.failed
  /\ session.stop = "ok" => loop = "done"

Verdict ==
  /\ session.stop = "ok" => ~session.failed
  /\ session.stop = "failed" => session.failed

WasapiInv == WasapiType /\ Together /\ (~session.failed => Turns /\ Waited) /\ Verdict

-----------------------------------------------------------------------------

LEMMA StepsByComponent ==
  ASSUME [Next]_vars
  PROVE  /\ WasapiMoves \/ UNCHANGED wasapi
         /\ AsrMoves \/ UNCHANGED asrVars
         /\ CapMoves \/ UNCHANGED cap
<1>1. \/ RecordingSettles \/ RecogniserSettles \/ HelperSettles \/ AppSettles
      \/ RecordingTimers \/ RecogniserTimers \/ HelperTimers \/ StartupTimesOut
      \/ Stores \/ Processes \/ EndSession \/ UNCHANGED vars
  BY DEF Next, Promises, Events
<1>2. CASE UNCHANGED vars
  BY <1>2 DEF vars, asrVars
<1>3. CASE RecordingSettles
  BY <1>3 DEF RecordingSettles, WasapiMoves
<1>4. CASE RecogniserSettles
  BY <1>4 DEF RecogniserSettles, AsrMoves
<1>5. CASE HelperSettles
  BY <1>5 DEF HelperSettles, CapMoves
<1>6. CASE RecordingTimers
  BY <1>6 DEF RecordingTimers, WasapiMoves
<1>7. CASE RecogniserTimers
  BY <1>7 DEF RecogniserTimers, AsrMoves
<1>8. CASE HelperTimers
  BY <1>8 DEF HelperTimers, CapMoves
<1>9. CASE StartupTimesOut
  BY <1>9 DEF StartupTimesOut
<1>10. CASE EndSession
  BY <1>10 DEF EndSession
<1>11. CASE AppSettles
  <2>1. ASSUME NEW s \in Segment, CallbackRuns(s)
        PROVE  /\ WasapiMoves \/ UNCHANGED wasapi
               /\ AsrMoves \/ UNCHANGED asrVars
               /\ UNCHANGED cap
    <3>1. CASE SegmentIgnored(s)
      BY <3>1 DEF SegmentIgnored, WasapiMoves
    <3>2. CASE RecordSegment(s)
      BY <3>2 DEF RecordSegment, WasapiMoves, AsrMoves
    <3>3. CASE SegmentAnswered(s)
      BY <3>3 DEF SegmentAnswered, WasapiMoves
    <3> QED  BY <2>1, <3>1, <3>2, <3>3 DEF CallbackRuns
  <2>2. CASE OpenCapture
    BY <2>2 DEF OpenCapture, ReadyCallbackEnds, WasapiMoves, AsrMoves, CapMoves, wasapi, asrVars
  <2>3. CASE StatusReady
    BY <2>3 DEF StatusReady, CapMoves
  <2>4. CASE ExitNoted
    BY <2>4 DEF ExitNoted, AdapterExits, AsrMoves, CapMoves
  <2>5. CASE ExitStopsCapture
    BY <2>5 DEF ExitStopsCapture
  <2>6. CASE StopperStopsCapture
    BY <2>6 DEF StopperStopsCapture, StopsCapture, WasapiMoves
  <2>7. CASE ExiterStopsCapture
    BY <2>7 DEF ExiterStopsCapture, StopsCapture, WasapiMoves
  <2>8. CASE StopperWaits
    BY <2>8 DEF StopperWaits
  <2>9. CASE ExiterWaits
    BY <2>9 DEF ExiterWaits
  <2>10. CASE StopperStopsAdapter
    BY <2>10 DEF StopperStopsAdapter, AsrMoves, CapMoves
  <2>11. CASE StopperEnds
    BY <2>11 DEF StopperEnds
  <2> QED  BY <1>11, <2>1, <2>2, <2>3, <2>4, <2>5, <2>6, <2>7, <2>8, <2>9, <2>10, <2>11
           DEF AppSettles
<1>12. CASE Stores
  <2>1. ASSUME NEW s \in Segment, SegmentSaved(s)
        PROVE  /\ WasapiMoves \/ UNCHANGED wasapi
               /\ AsrMoves \/ UNCHANGED asrVars
               /\ UNCHANGED cap
    BY <2>1 DEF SegmentSaved, WasapiMoves, AsrMoves
  <2>2. ASSUME NEW s \in Segment, SegmentNotSaved(s)
        PROVE  WasapiMoves /\ UNCHANGED asrVars /\ UNCHANGED cap
    BY <2>2 DEF SegmentNotSaved, WasapiMoves
  <2>3. CASE AttachCapture
    BY <2>3 DEF AttachCapture, ReadyCallbackEnds, AsrMoves, asrVars
  <2>4. CASE LeaveCapture
    BY <2>4 DEF LeaveCapture, WasapiMoves
  <2>5. CASE LooseCaptureStopped
    BY <2>5 DEF LooseCaptureStopped, ReadyCallbackEnds, AsrMoves, asrVars
  <2>6. CASE Local /\ (TranscriptStored \/ TranscriptRejected) /\ UNCHANGED <<wasapi, cap, app>>
    BY <2>6 DEF AsrMoves
  <2>7. CASE StatusReconnecting
    BY <2>7 DEF StatusReconnecting, CapMoves
  <2>8. CASE StatusUnavailable
    BY <2>8 DEF StatusUnavailable, CapMoves
  <2>9. CASE CaptionStored
    BY <2>9 DEF CaptionStored, CapMoves
  <2>10. CASE CaptionRejected
    BY <2>10 DEF CaptionRejected, CapMoves
  <2>11. CASE CaptureReportsFailure
    BY <2>11 DEF CaptureReportsFailure
  <2>12. CASE StopperFlushes
    BY <2>12 DEF StopperFlushes
  <2>13. CASE ExiterFlushes
    BY <2>13 DEF ExiterFlushes
  <2>14. CASE ExiterEnds
    BY <2>14 DEF ExiterEnds, AdapterExits, AsrMoves, CapMoves
  <2> QED  BY <1>12, <2>1, <2>2, <2>3, <2>4, <2>5, <2>6, <2>7, <2>8, <2>9, <2>10, <2>11, <2>12,
              <2>13, <2>14
           DEF Stores
<1>13. CASE Processes
  <2>1. CASE CaptureOpens
    BY <2>1 DEF CaptureOpens, WasapiMoves
  <2>2. CASE CaptureStartFails
    BY <2>2 DEF CaptureStartFails, ReadyCallbackEnds, WasapiMoves, AsrMoves, asrVars
  <2>3. CASE ~CaptureOpens /\ ~CaptureStartFails
    BY <1>13, <2>3 DEF Processes, WasapiMoves, AsrMoves, CapMoves
  <2> QED  BY <2>1, <2>2, <2>3
<1> QED  BY <1>1, <1>2, <1>3, <1>4, <1>5, <1>6, <1>7, <1>8, <1>9, <1>10, <1>11, <1>12, <1>13

\* What telling the helper to stop changes.
LEMMA ToldFields ==
  ASSUME WasapiType
  PROVE  /\ Told \in DeviceState
         /\ Told.sent = device.sent
         /\ Told.at = IF device.at = "running" THEN "stopping" ELSE device.at
BY DEF WasapiType, Told, DeviceState

LEMMA StopStreamFields ==
  ASSUME WasapiType
  PROVE  LET s == StopStream(stream) IN
         /\ s \in StreamState
         /\ s.completed = stream.completed /\ s.closed = stream.closed
         /\ s.failed = stream.failed /\ s.queued = stream.queued
         /\ s.stop = IF stream.stop = "no" THEN "waiting" ELSE stream.stop
BY DEF WasapiType, StopStream, StreamState

LEMMA ReportFields ==
  ASSUME WasapiType
  PROVE  LET s == ReportFailure(session) IN
         /\ s \in SessionState
         /\ s.failed /\ s.stop = session.stop /\ s.stopRequested = session.stopRequested
         /\ s.abandoned = session.abandoned /\ s.maxBacklog = session.maxBacklog
BY DEF WasapiType, ReportFailure, SessionState

\* A failure of the loop keeps the invariant, whatever the deliveries are.
LEMMA LoopFailsSafe ==
  ASSUME WasapiInv, LoopFails, session.stop # "ok", loop # "none"
  PROVE  WasapiInv'
<1>1. WasapiType /\ Together /\ Verdict
  BY DEF WasapiInv
<1>2. /\ session' = ReportFailure(session) /\ stream' = StopStream(stream) /\ device' = Told
      /\ loop' = "stopping" /\ calls' = calls
  BY DEF LoopFails
<1>3. WasapiType'
  BY <1>1, <1>2, ToldFields, StopStreamFields, ReportFields DEF WasapiType, LoopState
<1>4. Together'
  BY <1>1, <1>2, ToldFields, StopStreamFields DEF Together, Over
<1>5. session'.failed /\ Verdict'
  BY <1>1, <1>2, ReportFields DEF Verdict
<1> QED  BY <1>3, <1>4, <1>5 DEF WasapiInv

\* A delivery that fails empties what waits; what is called goes on.
LEMMA DeliveryFailsSafe ==
  ASSUME WasapiInv, session.stop # "ok", NEW c \in CallsState, AtMostOne(c.active),
         DeliveryFails(c)
  PROVE  WasapiInv'
<1>1. WasapiType /\ Together /\ Verdict
  BY DEF WasapiInv
<1> DEFINE d == [c EXCEPT !.tail = <<>>, !.broken = TRUE, !.raced = 0]
<1>2. /\ calls' = d /\ session' = ReportFailure(session)
      /\ stream' = StopStream(stream) /\ device' = Told /\ loop' = loop
  BY DEF DeliveryFails
<1>3. d \in CallsState /\ d.active = c.active
  <2>1. <<>> \in Seq(Segment) /\ 0 \in 0 .. MaxSegments
    BY EmptySeq, WasapiAssumption DEF WasapiAssumption
  <2> QED  BY <2>1 DEF CallsState
<1> HIDE DEF d
<1>4. WasapiType'
  BY <1>1, <1>2, <1>3, ToldFields, StopStreamFields, ReportFields DEF WasapiType
<1>5. Together'
  <2>1. AtMostOne(calls'.active)
    BY <1>2, <1>3
  <2> QED  BY <1>1, <1>2, <2>1, ToldFields, StopStreamFields DEF Together, Over
<1>6. session'.failed /\ Verdict'
  BY <1>1, <1>2, ReportFields DEF Verdict
<1> QED  BY <1>4, <1>5, <1>6 DEF WasapiInv

\* A failure of the stream stops nothing that was waited for.
LEMMA HelperStepsSafe ==
  ASSUME WasapiInv,
         \/ DeviceCompletes \/ DeviceFails \/ DeviceCloses \/ StreamStopTimesOut
         \/ OpenStream /\ UNCHANGED <<stream, loop, session, calls>>
         \/ StreamReady /\ UNCHANGED <<stream, session, calls>>
         \/ StreamStartFails /\ UNCHANGED <<loop, session, calls>>
  PROVE  WasapiInv'
<1>1. WasapiType /\ Together /\ Verdict
  BY DEF WasapiInv
<1>2. session' = session /\ calls' = calls /\ stream'.queued = stream.queued
  BY <1>1 DEF DeviceCompletes, DeviceFails, DeviceCloses, StreamStopTimesOut, OpenStream,
              StreamReady, StreamStartFails, FailStream, WasapiType, StreamState
<1>3. /\ device' \in DeviceState /\ device'.sent = device.sent
      /\ stream' \in StreamState /\ loop' \in LoopState
      /\ stream.failed => stream'.failed
      /\ stream.closed => stream' = stream
      /\ device.at \in Over => device'.at \in Over
      /\ loop' # loop => loop = "none" /\ loop' = "created"
  <2>1. CASE DeviceCompletes \/ DeviceFails \/ StreamStopTimesOut
    BY <1>1, <2>1 DEF DeviceCompletes, DeviceFails, StreamStopTimesOut, FailStream, WasapiType,
       StreamState, DeviceState, Together, Over, Running
  <2>2. CASE DeviceCloses
    BY <1>1, <2>2 DEF DeviceCloses, WasapiType, StreamState, DeviceState, Together, Over
  <2>3. CASE OpenStream /\ UNCHANGED <<stream, loop, session, calls>>
    BY <1>1, <2>3 DEF OpenStream, WasapiType, DeviceState, Over
  <2>4. CASE StreamReady /\ UNCHANGED <<stream, session, calls>>
    BY <1>1, <2>4 DEF StreamReady, WasapiType, DeviceState, LoopState, Together, Over
  <2>5. CASE StreamStartFails /\ UNCHANGED <<loop, session, calls>>
    BY <1>1, <2>5 DEF StreamStartFails, WasapiType, DeviceState, StreamState, Together, Over
  <2> QED  BY <2>1, <2>2, <2>3, <2>4, <2>5
<1>4. WasapiType'
  BY <1>1, <1>2, <1>3 DEF WasapiType
<1>5. Together'
  <2>1. CASE DeviceCompletes \/ DeviceFails \/ StreamStopTimesOut
    BY <1>1, <1>2, <2>1 DEF DeviceCompletes, DeviceFails, StreamStopTimesOut, FailStream, WasapiType,
       StreamState, DeviceState, Together, Over, Running
  <2>2. CASE DeviceCloses
    BY <1>1, <1>2, <2>2 DEF DeviceCloses, WasapiType, StreamState, DeviceState, Together, Over
  <2>3. CASE OpenStream /\ UNCHANGED <<stream, loop, session, calls>>
    BY <1>1, <2>3 DEF OpenStream, WasapiType, DeviceState, Over, Together
  <2>4. CASE StreamReady /\ UNCHANGED <<stream, session, calls>>
    BY <1>1, <2>4 DEF StreamReady, WasapiType, DeviceState, LoopState, Together, Over
  <2>5. CASE StreamStartFails /\ UNCHANGED <<loop, session, calls>>
    BY <1>1, <1>2, <2>5 DEF StreamStartFails, WasapiType, DeviceState, StreamState, Together, Over
  <2> QED  BY <2>1, <2>2, <2>3, <2>4, <2>5
<1>6. ASSUME ~session'.failed  PROVE Turns' /\ Waited'
  <2>1. Turns /\ Waited
    BY <1>2, <1>6 DEF WasapiInv
  <2>2. Turns'
    BY <1>2, <1>3, <2>1 DEF Turns
  <2>3. Waited'
    BY <1>2, <1>3, <2>1 DEF Waited
  <2> QED  BY <2>2, <2>3
<1>7. Verdict'
  BY <1>1, <1>2 DEF Verdict
<1> QED  BY <1>4, <1>5, <1>6, <1>7 DEF WasapiInv

\* A segment is queued behind all the others.
LEMMA DeviceSendsSafe ==
  ASSUME WasapiInv, DeviceSends
  PROVE  WasapiInv'
<1>1. WasapiType /\ Together /\ Verdict
  BY DEF WasapiInv
<1>2. session' = session /\ calls' = calls /\ device.at \in {"running", "stopping"}
      /\ ~stream.failed /\ device.sent + 1 \in Segment /\ device.sent + 1 \in 0 .. MaxSegments
  BY <1>1, WasapiAssumption
     DEF DeviceSends, Running, WasapiType, DeviceState, Segment, WasapiAssumption
<1>3. Verdict'
  BY <1>1, <1>2 DEF Verdict
<1>4. CASE loop = "waiting" \/ Queued < MaxQueued
  <2> DEFINE q == Append(stream.queued, device.sent + 1)
  <2>1. stream.queued \in Seq(Segment)
    BY <1>1 DEF WasapiType, StreamState
  <2>2. /\ q \in Seq(Segment) /\ Len(q) = Len(stream.queued) + 1 /\ q # <<>>
        /\ \A i \in 1 .. Len(stream.queued) : q[i] = stream.queued[i]
        /\ q[Len(stream.queued) + 1] = device.sent + 1
    BY <1>2, <2>1, AppendProperties
  <2>3. /\ stream' = [stream EXCEPT !.queued = q]
        /\ device' = [device EXCEPT !.sent = device.sent + 1]
        /\ loop' = IF loop = "waiting" THEN "given" ELSE loop
    BY <1>4 DEF DeviceSends
  <2> HIDE DEF q
  <2>4. /\ stream' \in StreamState /\ stream'.queued = q /\ stream'.failed = stream.failed
        /\ stream'.completed = stream.completed /\ stream'.closed = stream.closed
        /\ stream'.stop = stream.stop
        /\ device' \in DeviceState /\ device'.at = device.at /\ device'.sent = device.sent + 1
    BY <1>1, <1>2, <2>2, <2>3 DEF WasapiType, StreamState, DeviceState
  <2>5. WasapiType'
    BY <1>1, <1>2, <2>3, <2>4 DEF WasapiType, LoopState
  <2>6. Together'
    BY <1>1, <1>2, <2>2, <2>3, <2>4 DEF Together
  <2>7. ASSUME ~session'.failed  PROVE Turns' /\ Waited'
    <3>1. Turns /\ Waited
      BY <1>2, <2>7 DEF WasapiInv
    <3> DEFINE n == Len(stream.queued)  t == Len(calls.tail)
    <3>2. n \in Nat /\ t \in Nat /\ calls.started \in Nat /\ device.sent \in Nat
      BY <1>1, <2>1, LenProperties, WasapiAssumption
         DEF WasapiType, CallsState, DeviceState, WasapiAssumption
    <3>3. device.sent = calls.started + t + n
      BY <1>2, <3>1 DEF Turns
    <3>a. Len(q) = n + 1 /\ q[n + 1] = device.sent + 1
      BY <2>2
    <3>b. \A i \in 1 .. n : q[i] = calls.started + t + i
      BY <2>2, <3>1 DEF Turns
    <3> HIDE DEF n
    <3>4. \A i \in 1 .. Len(q) : q[i] = calls.started + t + i
      <4> SUFFICES ASSUME NEW i \in 1 .. Len(q)  PROVE q[i] = calls.started + t + i
        OBVIOUS
      <4>1. CASE i \in 1 .. n
        BY <3>b, <4>1
      <4>2. CASE i = n + 1
        BY <3>a, <3>2, <3>3, <4>2
      <4> QED  BY <3>a, <3>2, <4>1, <4>2
    <3>5. Turns'
      <4>1. device'.sent = calls.started + t + Len(q)
        BY <3>a, <2>4, <3>2, <3>3
      <4>2. loop' # "stopping"
        BY <2>3, <3>1 DEF Turns
      <4> QED  BY <1>2, <2>4, <3>1, <3>4, <4>1, <4>2 DEF Turns
    <3>6. Waited'
      BY <1>2, <2>3, <2>4, <3>1 DEF Waited, Over
    <3> QED  BY <3>5, <3>6
  <2> QED  BY <1>3, <2>5, <2>6, <2>7 DEF WasapiInv
<1>5. CASE ~(loop = "waiting" \/ Queued < MaxQueued)
  <2>1. /\ stream' = FailStream(stream) /\ loop' = loop
        /\ device' = [at |-> "dying", sent |-> device.sent + 1]
    BY <1>5 DEF DeviceSends
  <2>2. /\ stream' \in StreamState /\ stream'.queued = stream.queued /\ stream'.failed
        /\ stream'.completed = stream.completed /\ stream'.closed = stream.closed
        /\ device' \in DeviceState /\ device'.at = "dying"
    BY <1>1, <1>2, <2>1 DEF WasapiType, StreamState, DeviceState, FailStream
  <2>3. WasapiType'
    BY <1>1, <1>2, <2>1, <2>2 DEF WasapiType
  <2>4. Together'
    BY <1>1, <1>2, <2>1, <2>2 DEF Together, Over
  <2>5. ASSUME ~session'.failed  PROVE Turns' /\ Waited'
    <3>1. Turns /\ Waited
      BY <1>2, <2>5 DEF WasapiInv
    <3>2. Turns'
      BY <1>2, <2>1, <2>2, <3>1 DEF Turns
    <3>3. ~stream.closed
      BY <1>1, <1>2 DEF Together
    <3>4. Waited'
      BY <1>2, <2>1, <2>2, <3>1, <3>3 DEF Waited, Over
    <3> QED  BY <3>2, <3>4
  <2> QED  BY <1>3, <2>3, <2>4, <2>5 DEF WasapiInv
<1> QED  BY <1>4, <1>5

\* The loop takes the segment that is next, and puts it behind the ones that wait.
LEMMA TakeSegmentSafe ==
  ASSUME WasapiInv, TakeSegment, stream.queued # <<>>, loop \in {"reading", "given"}
  PROVE  WasapiInv'
<1>1. WasapiType /\ Together /\ Verdict
  BY DEF WasapiInv
<1>2. session.stop # "ok"
  BY DEF WasapiInv, Verdict, Waited
<1>3. CASE session.failed \/ Backlog >= session.maxBacklog
  BY <1>2, <1>3, LoopFailsSafe DEF TakeSegment
<1>4. CASE ~(session.failed \/ Backlog >= session.maxBacklog)
  <2> DEFINE q == Tail(stream.queued)
             t == Append(calls.tail, Head(stream.queued))
  <2>1. /\ calls' = [calls EXCEPT !.tail = t] /\ stream' = [stream EXCEPT !.queued = q]
        /\ loop' = "reading" /\ device' = device /\ session' = session
    BY <1>4 DEF TakeSegment
  <2>2. stream.queued \in Seq(Segment) /\ calls.tail \in Seq(Segment)
        /\ calls.started \in Nat /\ device.sent \in Nat
    <3>1. /\ stream.queued \in Seq(Segment) /\ calls.tail \in Seq(Segment)
          /\ calls.started \in Nat /\ device.sent \in 0 .. MaxSegments
      BY <1>1 DEF WasapiType, StreamState, CallsState, DeviceState
    <3> QED  BY <3>1, WasapiAssumption DEF WasapiAssumption
  <2>3. /\ q \in Seq(Segment) /\ Len(q) = Len(stream.queued) - 1
        /\ Head(stream.queued) \in Segment /\ Head(stream.queued) = stream.queued[1]
        /\ \A i \in 1 .. Len(q) : q[i] = stream.queued[i + 1]
        /\ Len(stream.queued) \in Nat \ {0}
    BY <2>2, HeadTailProperties, LenProperties, EmptySeq
  <2>4. /\ t \in Seq(Segment) /\ Len(t) = Len(calls.tail) + 1
        /\ \A i \in 1 .. Len(calls.tail) : t[i] = calls.tail[i]
        /\ t[Len(calls.tail) + 1] = stream.queued[1]
        /\ Len(calls.tail) \in Nat
    BY <2>2, <2>3, AppendProperties, LenProperties
  <2> HIDE DEF q, t
  <2>5. /\ stream' \in StreamState /\ stream'.queued = q /\ stream'.failed = stream.failed
        /\ stream'.completed = stream.completed /\ stream'.closed = stream.closed
        /\ stream'.stop = stream.stop
        /\ calls' \in CallsState /\ calls'.tail = t /\ calls'.raced = calls.raced
        /\ calls'.active = calls.active /\ calls'.done = calls.done
        /\ calls'.started = calls.started /\ calls'.broken = calls.broken
    BY <1>1, <2>1, <2>3, <2>4 DEF WasapiType, StreamState, CallsState
  <2>6. WasapiType'
    BY <1>1, <2>1, <2>5 DEF WasapiType, LoopState
  <2>7. Together'
    BY <1>1, <2>1, <2>5 DEF Together
  <2>8. Verdict'
    BY <1>1, <2>1 DEF Verdict
  <2>9. Turns /\ Waited
    BY <1>4 DEF WasapiInv
  <2> DEFINE n == Len(stream.queued)  m == Len(calls.tail)  k == calls.started
  <2>10. /\ \A i \in 1 .. m : calls.tail[i] = k + i
         /\ \A i \in 1 .. n : stream.queued[i] = k + m + i
         /\ ~stream.failed => device.sent = k + m + n
    BY <2>9 DEF Turns
  <2>11. Len(q) = n - 1 /\ Len(t) = m + 1 /\ n \in Nat \ {0} /\ m \in Nat /\ k \in Nat
         /\ device.sent \in Nat
    BY <2>2, <2>3, <2>4
  <2>12. /\ \A i \in 1 .. Len(q) : q[i] = stream.queued[i + 1]
         /\ \A i \in 1 .. m : t[i] = calls.tail[i]
         /\ t[m + 1] = stream.queued[1]
    BY <2>3, <2>4
  <2> HIDE DEF n, m, k
  <2>13. \A i \in 1 .. Len(t) : t[i] = k + i
    <3> SUFFICES ASSUME NEW i \in 1 .. Len(t)  PROVE t[i] = k + i
      OBVIOUS
    <3>1. CASE i \in 1 .. m
      BY <2>10, <2>12, <3>1
    <3>2. CASE i = m + 1
      BY <2>10, <2>11, <2>12, <3>2
    <3> QED  BY <2>11, <3>1, <3>2
  <2>14. \A i \in 1 .. Len(q) : q[i] = k + Len(t) + i
    <3> SUFFICES ASSUME NEW i \in 1 .. Len(q)  PROVE q[i] = k + Len(t) + i
      OBVIOUS
    <3>1. i + 1 \in 1 .. n
      BY <2>11
    <3>2. q[i] = k + m + (i + 1)
      BY <2>10, <2>12, <3>1
    <3> QED  BY <2>11, <3>2
  <2>15. ~stream.failed => device.sent = k + Len(t) + Len(q)
    BY <2>10, <2>11
  <2>16. Turns'
    BY <2>1, <2>5, <2>9, <2>13, <2>14, <2>15 DEF Turns, k
  <2>17. Waited'
    BY <2>1, <2>5, <2>9 DEF Waited
  <2> QED  BY <2>1, <2>6, <2>7, <2>8, <2>16, <2>17 DEF WasapiInv
<1> QED  BY <1>3, <1>4

\* Nothing is left to be read.
LEMMA NoMoreSegmentsSafe ==
  ASSUME WasapiInv, NoMoreSegments, stream.queued = <<>>, stream.completed \/ stream.closed,
         loop \in {"reading", "waiting"}
  PROVE  WasapiInv'
<1>1. WasapiType /\ Together /\ Verdict
  BY DEF WasapiInv
<1>2. session.stop # "ok"
  BY DEF WasapiInv, Verdict, Waited
<1>3. CASE ~session.stopRequested
  BY <1>2, <1>3, LoopFailsSafe DEF NoMoreSegments
<1>4. CASE session.stopRequested
  <2>1. loop' = "draining" /\ device' = device /\ stream' = stream /\ session' = session
        /\ calls' = calls
    BY <1>4 DEF NoMoreSegments
  <2>2. WasapiType'
    BY <1>1, <2>1 DEF WasapiType, LoopState
  <2>3. Together' /\ device.at \in Over
    BY <1>1, <2>1 DEF Together, Over
  <2>4. Verdict'
    BY <1>1, <2>1 DEF Verdict
  <2>5. ASSUME ~session'.failed  PROVE Turns' /\ Waited'
    <3>1. Turns /\ Waited
      BY <2>1, <2>5 DEF WasapiInv
    <3>2. Turns'
      BY <2>1, <3>1 DEF Turns
    <3>3. Waited'
      BY <1>2, <2>1, <2>3, <3>1 DEF Waited
    <3> QED  BY <3>2, <3>3
  <2> QED  BY <2>2, <2>3, <2>4, <2>5 DEF WasapiInv
<1> QED  BY <1>3, <1>4

LEMMA LoopStepsSafe ==
  ASSUME WasapiInv, StartLoop \/ LoopReads \/ LoopWakes \/ LoopStopped \/ LoopDone
  PROVE  WasapiInv'
<1>1. WasapiType /\ Together /\ Verdict
  BY DEF WasapiInv
<1>2. session.stop = "ok" => loop = "done"
  BY DEF WasapiInv, Verdict, Waited
<1>3. CASE LoopReads /\ ~session.abandoned /\ stream.failed
  <2>1. LoopFails /\ loop = "reading"
    BY <1>3 DEF LoopReads
  <2> QED  BY <1>2, <2>1, LoopFailsSafe
<1>4. CASE LoopReads /\ ~session.abandoned /\ ~stream.failed /\ stream.queued # <<>>
  BY <1>4, TakeSegmentSafe DEF LoopReads
<1>5. CASE /\ LoopReads /\ ~session.abandoned /\ ~stream.failed /\ stream.queued = <<>>
           /\ stream.completed \/ stream.closed
  BY <1>5, NoMoreSegmentsSafe DEF LoopReads
<1>6. CASE LoopWakes
  <2>1. CASE loop = "given" /\ TakeSegment
    BY <1>1, <2>1, TakeSegmentSafe DEF Together
  <2>2. CASE loop = "waiting" /\ LoopFails
    BY <1>2, <2>2, LoopFailsSafe
  <2>3. CASE loop = "waiting" /\ (stream.completed \/ stream.closed) /\ NoMoreSegments
    BY <1>1, <2>3, NoMoreSegmentsSafe DEF Together
  <2> QED  BY <1>6, <2>1, <2>2, <2>3 DEF LoopWakes
\* The other steps of the loop change nothing but its place, and its last may report.
<1>7. CASE \/ StartLoop \/ LoopStopped \/ LoopDone
           \/ LoopReads /\ session.abandoned
           \/ /\ LoopReads /\ ~session.abandoned /\ ~stream.failed /\ stream.queued = <<>>
              /\ ~stream.completed /\ ~stream.closed
  <2>1. device' = device /\ stream' = stream /\ calls' = calls
    BY <1>7 DEF StartLoop, LoopStopped, LoopDone, LoopReads
  <2>2. /\ session' \in SessionState /\ session'.stop = session.stop
        /\ session.failed => session'.failed
        /\ session'.abandoned = session.abandoned
    BY <1>1, <1>7, ReportFields DEF StartLoop, LoopStopped, LoopDone, LoopReads, WasapiType
  <2>3. /\ loop' \in LoopState /\ loop # "none" /\ loop' \notin {"given", "stopping"}
        /\ loop' = "waiting" => stream.queued = <<>>
    BY <1>7 DEF StartLoop, LoopStopped, LoopDone, LoopReads, LoopState
  <2>4. WasapiType'
    BY <1>1, <2>1, <2>2, <2>3 DEF WasapiType
  <2>5. Together'
    BY <1>1, <2>1, <2>3 DEF Together
  <2>6. Verdict'
    <3>1. session.stop = "ok" => session' = session
      BY <1>2, <1>7 DEF StartLoop, LoopStopped, LoopDone, LoopReads
    <3> QED  BY <1>1, <2>2, <3>1 DEF Verdict
  <2>7. ASSUME ~session'.failed  PROVE Turns' /\ Waited'
    <3>1. Turns /\ Waited /\ ~session.failed
      BY <2>2, <2>7 DEF WasapiInv
    <3>2. Turns'
      BY <2>1, <2>2, <2>3, <3>1 DEF Turns
    <3>3. \/ loop' \in {"reading", "waiting"} /\ loop \in {"created", "reading"}
          \/ loop' = "done" /\ loop = "draining" /\ calls.tail = <<>> /\ calls.raced = 0
      BY <1>7, <3>1 DEF StartLoop, LoopStopped, LoopDone, LoopReads, Turns
    <3>4. Waited'
      BY <2>1, <2>2, <3>1, <3>3 DEF Waited
    <3> QED  BY <3>2, <3>4
  <2> QED  BY <2>4, <2>5, <2>6, <2>7 DEF WasapiInv
<1> QED  BY <1>3, <1>4, <1>5, <1>6, <1>7

LEMMA StopStepsSafe ==
  ASSUME WasapiInv,
         StopRecording \/ StopStreamSettles \/ StopLoopSettles \/ StopDrainTimesOut
  PROVE  WasapiInv'
<1>1. WasapiType /\ Together /\ Verdict
  BY DEF WasapiInv
<1>2. CASE StopRecording
  <2>1. /\ session' = [session EXCEPT !.stopRequested = TRUE, !.stop = "stream"]
        /\ stream' = StopStream(stream) /\ device' = Told /\ calls' = calls
        /\ loop' = IF loop = "created" THEN "reading" ELSE loop
        /\ loop # "none"
    BY <1>2 DEF StopRecording
  <2>2. /\ session' \in SessionState /\ session'.stop = "stream"
        /\ session'.failed = session.failed /\ session'.abandoned = session.abandoned
    BY <1>1, <2>1 DEF WasapiType, SessionState
  <2>3. WasapiType'
    BY <1>1, <2>1, <2>2, ToldFields, StopStreamFields DEF WasapiType, LoopState
  <2>4. Together'
    BY <1>1, <2>1, ToldFields, StopStreamFields DEF Together, Over
  <2>5. Verdict'
    BY <2>2 DEF Verdict
  <2>6. ASSUME ~session'.failed  PROVE Turns' /\ Waited'
    <3>1. Turns /\ Waited
      BY <2>2, <2>6 DEF WasapiInv
    <3>2. Turns'
      BY <1>1, <2>1, <2>2, <3>1, ToldFields, StopStreamFields DEF Turns
    <3>3. Waited'
      BY <1>1, <2>1, <2>2, <3>1, ToldFields, StopStreamFields DEF Waited, Over
    <3> QED  BY <3>2, <3>3
  <2> QED  BY <2>3, <2>4, <2>5, <2>6 DEF WasapiInv
<1>3. CASE StopStreamSettles \/ StopLoopSettles \/ StopDrainTimesOut
  <2>1. device' = device /\ stream' = stream /\ loop' = loop /\ calls' = calls
    BY <1>3 DEF StopStreamSettles, StopLoopSettles, StopDrainTimesOut
  <2>2. /\ session' \in SessionState
        /\ session.failed => session'.failed
        /\ Verdict'
        /\ ~session'.failed =>
             /\ session'.abandoned = session.abandoned
             /\ \/ session'.stop = "loop" /\ StreamStopped /\ ~stream.failed
                \/ session'.stop = "ok" /\ session.stop = "loop" /\ loop = "done"
    BY <1>1, <1>3 DEF StopStreamSettles, StopLoopSettles, StopDrainTimesOut, WasapiType,
       SessionState, Verdict, ReportFailure, Settled
  <2>3. WasapiType'
    BY <1>1, <2>1, <2>2 DEF WasapiType
  <2>4. Together'
    BY <1>1, <2>1 DEF Together
  <2>5. ASSUME ~session'.failed  PROVE Turns' /\ Waited'
    <3>1. Turns /\ Waited
      BY <2>2, <2>5 DEF WasapiInv
    <3>2. Turns'
      BY <2>1, <2>2, <2>5, <3>1 DEF Turns
    <3>3. Waited'
      BY <1>1, <2>1, <2>2, <2>5, <3>1 DEF Waited, StreamStopped, Together
    <3> QED  BY <3>2, <3>3
  <2> QED  BY <2>2, <2>3, <2>4, <2>5 DEF WasapiInv
<1> QED  BY <1>2, <1>3

\* Once a stop has succeeded nothing is called, and nothing waits to be called.
LEMMA StoppedIsIdle ==
  ASSUME WasapiInv, session.stop = "ok"
  PROVE  calls.tail = <<>> /\ calls.raced = 0 /\ calls.active = {}
BY DEF WasapiInv, Verdict, Turns, Waited

LEMMA CalledFields ==
  ASSUME WasapiType, MayCall
  PROVE  /\ Called \in CallsState
         /\ Head(calls.tail) \in Segment /\ Head(calls.tail) = calls.tail[1]
         /\ Tail(calls.tail) \in Seq(Segment) /\ Len(Tail(calls.tail)) = Len(calls.tail) - 1
         /\ \A i \in 1 .. Len(Tail(calls.tail)) : Tail(calls.tail)[i] = calls.tail[i + 1]
         /\ Called.tail = Tail(calls.tail) /\ Called.raced = Head(calls.tail)
         /\ Called.started = calls.started + 1
         /\ Called.active = calls.active \cup {Head(calls.tail)}
         /\ Called.done = calls.done /\ Called.broken = calls.broken
<1>1. calls \in CallsState /\ calls.tail \in Seq(Segment) /\ calls.tail # <<>>
  BY DEF WasapiType, CallsState, MayCall, NextCall
<1> DEFINE h == Head(calls.tail)  t == Tail(calls.tail)
<1>2. /\ h \in Segment /\ h = calls.tail[1]
      /\ t \in Seq(Segment) /\ Len(t) = Len(calls.tail) - 1
      /\ \A i \in 1 .. Len(t) : t[i] = calls.tail[i + 1]
  BY <1>1, HeadTailProperties, LenProperties
<1>3. h \in 0 .. MaxSegments
  BY <1>2, WasapiAssumption DEF Segment, WasapiAssumption
<1>4. Called = [calls EXCEPT !.tail = t, !.raced = h, !.started = @ + 1,
                             !.active = @ \cup {h}]
  BY DEF Called
<1>a. calls.started + 1 \in Nat /\ calls.active \cup {h} \in SUBSET Segment
  BY <1>1, <1>2 DEF CallsState
<1> DEFINE n == calls.started + 1  a == calls.active \cup {h}
<1>b. Called = [calls EXCEPT !.tail = t, !.raced = h, !.started = n, !.active = a]
  BY <1>4
<1>c. n \in Nat /\ a \in SUBSET Segment /\ t \in Seq(Segment)
  BY <1>2, <1>a
<1> HIDE DEF h, t, n, a
<1>5. /\ Called \in CallsState /\ Called.tail = t /\ Called.raced = h
      /\ Called.started = n /\ Called.active = a
      /\ Called.done = calls.done /\ Called.broken = calls.broken
  BY <1>1, <1>3, <1>b, <1>c DEF CallsState
<1> QED  BY <1>2, <1>5 DEF h, t, n, a

LEMMA DeliverySafe ==
  ASSUME WasapiInv, DeliverNothing \/ Deliver \/ FailureInterrupts
  PROVE  WasapiInv'
<1>1. WasapiType /\ Together /\ Verdict
  BY DEF WasapiInv
<1>2. session.stop # "ok"
  BY StoppedIsIdle
     DEF DeliverNothing, Deliver, FailureInterrupts, NextCall, MayCall
<1>3. CASE DeliverNothing \/ FailureInterrupts
  <2>1. DeliveryFails(calls) /\ calls \in CallsState /\ AtMostOne(calls.active)
    BY <1>1, <1>3 DEF DeliverNothing, FailureInterrupts, WasapiType, Together
  <2> QED  BY <1>2, <2>1, DeliveryFailsSafe
<1>4. CASE Deliver
  <2>1. MayCall /\ ~session.failed /\ calls.raced = 0 /\ calls.tail # <<>>
    BY <1>4 DEF Deliver, MayCall, NextCall
  <2>2. Turns /\ Waited
    BY <2>1 DEF WasapiInv
  <2>3. AtMostOne(Called.active)
    BY <1>1, <2>1, <2>2, CalledFields DEF Turns, AtMostOne
  <2>4. CASE stream.failed
    BY <1>1, <1>2, <1>4, <2>1, <2>3, <2>4, CalledFields, DeliveryFailsSafe DEF Deliver
  <2>5. CASE ~stream.failed
    <3>1. /\ calls' = Called /\ device' = device /\ stream' = stream /\ loop' = loop
          /\ session' = session
      BY <1>4, <2>5 DEF Deliver
    <3>2. WasapiType'
      BY <1>1, <2>1, <3>1, CalledFields DEF WasapiType
    <3>3. Together'
      BY <1>1, <2>3, <3>1 DEF Together
    <3>4. Verdict'
      BY <1>1, <3>1 DEF Verdict
    <3> DEFINE m == Len(calls.tail)  k == calls.started  t == Tail(calls.tail)
               n == Len(stream.queued)
    <3>5. /\ calls.tail \in Seq(Segment) /\ stream.queued \in Seq(Segment) /\ k \in Nat
      BY <1>1 DEF WasapiType, CallsState, StreamState
    <3>6. m \in Nat \ {0} /\ n \in Nat /\ Len(t) = m - 1
      BY <2>1, <3>5, <1>1, CalledFields, LenProperties, EmptySeq
    <3>7. /\ \A i \in 1 .. m : calls.tail[i] = k + i
          /\ \A i \in 1 .. n : stream.queued[i] = k + m + i
          /\ device.sent = k + m + n
          /\ calls.done = (1 .. k) \ {0} /\ calls.active = {}
      BY <2>1, <2>2, <2>5 DEF Turns
    <3>8. /\ \A i \in 1 .. Len(t) : t[i] = calls.tail[i + 1]
          /\ Called.tail = t /\ Called.raced = calls.tail[1] /\ Called.started = k + 1
          /\ Called.active = calls.active \cup {calls.tail[1]}
          /\ Called.done = calls.done /\ Called.broken = calls.broken
      BY <1>1, <2>1, CalledFields
    <3> HIDE DEF m, k, t, n
    <3>9. calls.tail[1] = k + 1
      BY <3>6, <3>7
    <3>10. \A i \in 1 .. Len(t) : t[i] = (k + 1) + i
      <4> SUFFICES ASSUME NEW i \in 1 .. Len(t)  PROVE t[i] = (k + 1) + i
        OBVIOUS
      <4>1. i + 1 \in 1 .. m
        BY <3>6
      <4> QED  BY <3>5, <3>6, <3>7, <3>8, <4>1
    <3>11. /\ \A i \in 1 .. n : stream.queued[i] = (k + 1) + Len(t) + i
           /\ device.sent = (k + 1) + Len(t) + n
      BY <3>5, <3>6, <3>7
    <3>12. calls.done = (1 .. k + 1) \ {k + 1}
      BY <3>5, <3>7
    <3>13. Turns'
      <4>1. ~calls'.broken /\ ~session'.abandoned /\ loop' # "stopping"
        BY <2>2, <3>1, <3>8 DEF Turns
      <4>2. /\ calls'.raced = k + 1 /\ calls'.started = k + 1 /\ calls'.active = {k + 1}
            /\ calls'.done = (1 .. k + 1) \ {k + 1} /\ k + 1 # 0
            /\ calls'.tail = t
        BY <3>1, <3>5, <3>7, <3>8, <3>9, <3>12
      <4>3. /\ \A i \in 1 .. Len(stream'.queued) : stream'.queued[i] = (k + 1) + Len(t) + i
            /\ device'.sent = (k + 1) + Len(t) + Len(stream'.queued)
        BY <3>1, <3>11 DEF n
      <4> QED  BY <3>10, <4>1, <4>2, <4>3 DEF Turns
    <3>14. Waited'
      BY <1>2, <2>1, <2>2, <3>1 DEF Waited
    <3> QED  BY <3>2, <3>3, <3>4, <3>13, <3>14 DEF WasapiInv
  <2> QED  BY <2>4, <2>5
<1> QED  BY <1>3, <1>4

LEMMA CallbackSafe ==
  ASSUME WasapiInv, NEW s, CallbackEnds(s) \/ CallbackFails(s)
  PROVE  WasapiInv'
<1>1. WasapiType /\ Together /\ Verdict
  BY DEF WasapiInv
<1>2. session.stop # "ok" /\ s \in calls.active /\ s \in Segment /\ calls \in CallsState
  BY <1>1, StoppedIsIdle DEF CallbackEnds, CallbackFails, WasapiType, CallsState
<1>3. ~session.failed => calls.raced = s /\ s = calls.started /\ calls.active = {s}
  BY <1>2 DEF WasapiInv, Turns, Segment
<1>4. CASE CallbackEnds(s)
  <2> DEFINE c == [calls EXCEPT !.active = @ \ {s}, !.done = @ \cup {s},
                                !.raced = IF @ = s THEN 0 ELSE @]
  <2>1. /\ calls' = c /\ device' = device /\ stream' = stream /\ loop' = loop
        /\ session' = session
    BY <1>4 DEF CallbackEnds
  <2>2. /\ c \in CallsState /\ c.active = calls.active \ {s} /\ c.done = calls.done \cup {s}
        /\ c.raced = (IF calls.raced = s THEN 0 ELSE calls.raced) /\ c.tail = calls.tail
        /\ c.started = calls.started /\ c.broken = calls.broken
    <3>1. 0 \in 0 .. MaxSegments
      BY WasapiAssumption DEF WasapiAssumption
    <3> QED  BY <1>2, <3>1 DEF CallsState
  <2> HIDE DEF c
  <2>3. WasapiType'
    BY <1>1, <2>1, <2>2 DEF WasapiType
  <2>4. Together'
    <3>1. AtMostOne(calls'.active)
      BY <1>1, <2>1, <2>2 DEF Together, AtMostOne
    <3> QED  BY <1>1, <2>1, <3>1 DEF Together
  <2>5. Verdict'
    BY <1>1, <2>1 DEF Verdict
  <2>6. ASSUME ~session'.failed  PROVE Turns' /\ Waited'
    <3>1. Turns /\ Waited /\ ~session.failed
      BY <2>1, <2>6 DEF WasapiInv
    <3>2. c.raced = 0 /\ c.active = {} /\ s = calls.started
      BY <1>3, <2>2, <3>1
    <3>3. c.done = (1 .. calls.started) \ {0}
      <4>1. calls.done = (1 .. calls.started) \ {calls.started} /\ calls.started \in Segment
        BY <1>2, <1>3, <3>1 DEF Turns
      <4> QED  BY <2>2, <3>2, <4>1 DEF Segment
    <3>4. Turns'
      BY <2>1, <2>2, <3>1, <3>2, <3>3 DEF Turns
    <3>5. Waited'
      BY <2>1, <2>2, <3>1, <3>2 DEF Waited
    <3> QED  BY <3>4, <3>5
  <2> QED  BY <2>3, <2>4, <2>5, <2>6 DEF WasapiInv
<1>5. CASE CallbackFails(s)
  <2> DEFINE c == [calls EXCEPT !.active = @ \ {s}]
  <2>1. /\ c \in CallsState /\ c.active = calls.active \ {s} /\ c.tail = calls.tail
        /\ c.raced = calls.raced /\ c.done = calls.done
    BY <1>2 DEF CallsState
  <2>2. AtMostOne(c.active)
    BY <1>1, <2>1 DEF Together, AtMostOne
  <2>3. CASE calls.raced = s
    <3>1. DeliveryFails(c)
      BY <1>5, <2>3 DEF CallbackFails
    <3> HIDE DEF c
    <3> QED  BY <1>2, <2>1, <2>2, <3>1, DeliveryFailsSafe
  <2>4. CASE calls.raced # s
    <3>1. /\ calls' = c /\ device' = device /\ stream' = stream /\ loop' = loop
          /\ session' = session
      BY <1>5, <2>4 DEF CallbackFails
    <3>2. session.failed
      BY <1>3, <2>4
    <3> HIDE DEF c
    <3>3. WasapiType'
      BY <1>1, <2>1, <3>1 DEF WasapiType
    <3>4. Together'
      BY <1>1, <2>2, <3>1 DEF Together
    <3>5. Verdict'
      BY <1>1, <3>1 DEF Verdict
    <3> QED  BY <3>1, <3>2, <3>3, <3>4, <3>5 DEF WasapiInv
  <2> QED  BY <2>3, <2>4
<1> QED  BY <1>4, <1>5

LEMMA RecordingStarts == Init => WasapiInv
<1> SUFFICES ASSUME Init  PROVE WasapiInv
  OBVIOUS
<1>1. WasapiInit
  BY DEF Init
<1>2. 0 \in 0 .. MaxSegments /\ <<>> \in Seq(Segment) /\ Len(<<>>) = 0
  BY EmptySeq, WasapiAssumption DEF WasapiAssumption
<1>3. WasapiType
  BY <1>1, <1>2, WasapiAssumption
     DEF WasapiInit, WasapiType, DeviceState, StreamState, LoopState, SessionState, CallsState,
         WasapiAssumption, Settled
<1>4. Together
  BY <1>1 DEF WasapiInit, Together, AtMostOne, Over
<1>5. Turns
  BY <1>1, <1>2 DEF WasapiInit, Turns
<1>6. Waited /\ Verdict
  BY <1>1 DEF WasapiInit, Waited, Verdict
<1> QED  BY <1>3, <1>4, <1>5, <1>6 DEF WasapiInv

LEMMA WasapiStep == WasapiInv /\ [Next]_vars => WasapiInv'
<1> SUFFICES ASSUME WasapiInv, [Next]_vars  PROVE WasapiInv'
  OBVIOUS
<1>1. WasapiMoves \/ UNCHANGED wasapi
  BY StepsByComponent
<1>2. CASE UNCHANGED wasapi
  BY <1>2 DEF wasapi, WasapiInv, WasapiType, Together, Turns, Waited, Verdict
<1>3. CASE WasapiMoves
  BY <1>3, HelperStepsSafe, DeviceSendsSafe, LoopStepsSafe, StopStepsSafe, DeliverySafe,
     CallbackSafe DEF WasapiMoves
<1> QED  BY <1>1, <1>2, <1>3

LEMMA OneIsCalled == WasapiInv => OneSegmentAtATime
<1> SUFFICES ASSUME WasapiInv  PROVE Cardinality(calls.active) <= 1
  BY DEF OneSegmentAtATime
<1>1. AtMostOne(calls.active)
  BY DEF WasapiInv, Together
<1>2. CASE calls.active = {}
  BY <1>2, FS_EmptySet
<1>3. CASE calls.active # {}
  <2>1. PICK s : s \in calls.active
    BY <1>3
  <2>2. calls.active = {s}
    BY <1>1, <2>1 DEF AtMostOne
  <2> QED  BY <2>2, FS_Singleton
<1> QED  BY <1>2, <1>3

LEMMA StopDelivers == WasapiInv => StoppedIsDelivered
<1> SUFFICES ASSUME WasapiInv, session.stop = "ok"  PROVE calls.done = 1 .. device.sent
  BY DEF StoppedIsDelivered
<1>1. Turns /\ Waited /\ WasapiType
  BY DEF WasapiInv, Verdict
<1>2. /\ calls.tail = <<>> /\ calls.raced = 0 /\ stream.queued = <<>> /\ ~stream.failed
      /\ calls.started \in Nat
  BY <1>1 DEF Waited, WasapiType, CallsState
<1>3. Len(calls.tail) = 0 /\ Len(stream.queued) = 0
  BY <1>2
<1>4. device.sent = calls.started /\ calls.done = (1 .. calls.started) \ {0}
  BY <1>1, <1>2, <1>3 DEF Turns
<1> QED  BY <1>2, <1>4

LEMMA StopSilences ==
  WasapiInv /\ [Next]_vars => (session.stop \in Settled => calls'.started = calls.started)
<1> SUFFICES ASSUME WasapiInv, [Next]_vars, session.stop \in Settled
             PROVE  calls'.started = calls.started
  OBVIOUS
<1>1. WasapiType /\ calls \in CallsState
  BY DEF WasapiInv, WasapiType
\* A call needs a session that has not failed, and one that waits.
<1>2. session.failed \/ calls.tail = <<>>
  BY StoppedIsIdle DEF WasapiInv, Verdict, Settled
<1>3. CASE UNCHANGED wasapi
  BY <1>3 DEF wasapi
<1>4. CASE Deliver
  BY <1>2, <1>4 DEF Deliver, MayCall, NextCall
<1>5. CASE WasapiMoves /\ ~Deliver
  <2>1. CASE \E s \in Segment : CallbackEnds(s) \/ CallbackFails(s)
    BY <1>1, <2>1 DEF CallbackEnds, CallbackFails, DeliveryFails, CallsState
  <2>2. CASE DeliverNothing \/ FailureInterrupts
    BY <1>1, <2>2 DEF DeliverNothing, FailureInterrupts, DeliveryFails, CallsState
  <2>3. CASE LoopReads \/ LoopWakes
    BY <1>1, <2>3 DEF LoopReads, LoopWakes, TakeSegment, NoMoreSegments, LoopFails, CallsState
  <2>4. CASE ~\E s \in Segment : CallbackEnds(s) \/ CallbackFails(s)
    BY <1>5, <2>2, <2>3, <2>4 DEF WasapiMoves, LoopStopped, LoopDone, StopStreamSettles,
       StopLoopSettles, StartLoop, StreamStopTimesOut, StopDrainTimesOut, DeviceSends,
       DeviceCompletes, DeviceFails, DeviceCloses, StopRecording
  <2> QED  BY <2>1, <2>4
<1> QED  BY <1>3, <1>4, <1>5, StepsByComponent

\* The segments of a recording are handed over one at a time, whatever fails while a
\* callback waits; when the stop succeeds every segment that the helper sent has been
\* handed over, and once the stop is settled, either way, none is any more
\* (windowsWasapiLoopback: the delivery queue, captureLoop and stopOnce).
THEOREM SegmentsAlwaysInTurn == Spec => SegmentsInTurn
<1>1. Init => WasapiInv
  BY RecordingStarts
<1>2. WasapiInv /\ [Next]_vars => WasapiInv'
  BY WasapiStep
<1>3. WasapiInv => OneSegmentAtATime /\ StoppedIsDelivered
  BY OneIsCalled, StopDelivers
<1>4. WasapiInv /\ [Next]_vars => [session.stop \in Settled => calls'.started = calls.started]_vars
  BY StopSilences
<1> QED  BY <1>1, <1>2, <1>3, <1>4, PTL DEF Spec, SegmentsInTurn, QuietAfterStop

-----------------------------------------------------------------------------
(* The recogniser's adapter: what a record of it promises.                 *)

ProcState == {"starting", "running", "done", "exited"}
LineState ==
  [kind : {"ready", "bad", "transcript", "ok", "error", "exit 0", "exit 1"}, of : 0 .. Shutdown]
AsrStops == {"no", "queue", "drain", "shutdown", "exit", "killed"} \cup Settled
AsrState ==
  [proc : ProcState, killed : BOOLEAN, child : BOOLEAN, wire : 0 .. Shutdown,
   lines : Seq(LineState), ready : {"waiting", "ready", "failed"},
   processing : {"idle", "ready", "transcript", "exit"}, request : 0 .. Shutdown,
   answer : [1 .. Shutdown -> Outcomes], runtimeError : BOOLEAN, processingError : BOOLEAN,
   active : BOOLEAN, exit : {"none", "resolved", "rejected"}, exitError : BOOLEAN,
   stop : AsrStops]

\* What is credited, and what the output says, was carried out.
Credited(a, h) == \A r \in 1 .. Shutdown : a.answer[r] = "ok" => r \in h
Output(a, h) ==
  \A i \in 1 .. Len(a.lines) :
    /\ a.lines[i].kind = "ok" => a.lines[i].of \in h
    /\ a.lines[i].kind \in {"exit 0", "exit 1"} => i = Len(a.lines) /\ a.proc = "exited"
\* The exit is the last thing that is processed.
Exits(a) ==
  /\ ~a.child => a.lines = <<>> /\ a.proc = "exited"
  /\ a.processing = "exit" => ~a.child /\ a.exit = "none"
  /\ a.processing \in {"ready", "transcript"} => a.child
  /\ a.exit # "none" => ~a.child
  /\ a.stop = "ok" => a.exit # "none"
\* The requests of the stop are made once, in their order.
Farewells(a) ==
  /\ a.stop \in {"no", "queue"} => a.answer[Drain] = "none" /\ a.request # Drain
  /\ a.stop \in {"no", "queue", "drain"} => a.answer[Shutdown] = "none" /\ a.request # Shutdown
  /\ a.request # 0 => a.answer[a.request] = "none"

AsrOK(a, h) == a \in AsrState /\ Credited(a, h) /\ Output(a, h) /\ Exits(a) /\ Farewells(a)

AsrInv == heard \subseteq 1 .. Shutdown /\ AsrOK(asr, heard)

\* The requests that a step from a to b does not settle keep their answer, and only the
\* caller makes a request for a segment.
Steady(a, b) ==
  /\ \A r \in Segment : r # a.request => b.answer[r] = a.answer[r]
  /\ \A r \in Segment : b.request = r => a.request = r /\ b.answer[r] = a.answer[r]
  /\ \A r \in 1 .. Shutdown : a.answer[r] = "ok" => b.answer[r] = "ok"

\* No request is credited.
Uncredited(a, b) == \A r \in 1 .. Shutdown : b.answer[r] = "ok" => a.answer[r] = "ok"

\* What settling a request leaves alone.
Alike(a, b) ==
  /\ b.lines = a.lines /\ b.proc = a.proc /\ b.child = a.child
  /\ b.processing = a.processing /\ b.exit = a.exit /\ b.stop = a.stop

LEMMA Requests ==
  /\ Drain \in 1 .. Shutdown /\ Shutdown \in 1 .. Shutdown /\ Drain # Shutdown
  /\ Segment \subseteq 1 .. Shutdown /\ Drain \notin Segment /\ Shutdown \notin Segment
  /\ 0 \in 0 .. Shutdown /\ 0 \notin Segment /\ 0 # Drain /\ 0 # Shutdown
  /\ \A r \in 1 .. Shutdown : r \in 0 .. Shutdown /\ r # 0
  /\ \A r \in 0 .. Shutdown : r # 0 => r \in 1 .. Shutdown
BY LocalAsrAssumption, RuntimeAssumption
   DEF LocalAsrAssumption, RuntimeAssumption, Drain, Shutdown, Segment

LEMMA SteadyTransitive ==
  ASSUME NEW a, NEW b, NEW c, Steady(a, b), Steady(b, c)
  PROVE  /\ Steady(a, c)
         /\ Uncredited(a, b) /\ Uncredited(b, c) => Uncredited(a, c)
BY DEF Steady, Uncredited

\* Settling a request, as "ok" only when it was carried out.
LEMMA SettleOK ==
  ASSUME NEW a, NEW h, AsrOK(a, h), NEW outcome \in {"ok", "failed"},
         outcome = "ok" => a.request = 0 \/ a.request \in h
  PROVE  LET b == Settle(a, outcome) IN
         /\ AsrOK(b, h) /\ Steady(a, b) /\ Alike(a, b) /\ b.request = 0
         /\ outcome = "failed" => Uncredited(a, b)
<1>1. CASE a.request = 0
  BY <1>1, Requests DEF Settle, Steady, Alike, Uncredited
<1>2. CASE a.request # 0
  <2> DEFINE f == [a.answer EXCEPT ![a.request] = outcome]
             g == IF outcome = "failed" THEN a.active ELSE a.request # Drain
             b == [a EXCEPT !.answer = f, !.request = 0, !.active = g]
  <2>1. a \in AsrState /\ a.request \in 1 .. Shutdown /\ g \in BOOLEAN
    BY <1>2, Requests DEF AsrOK, AsrState
  <2>2. /\ f \in [1 .. Shutdown -> Outcomes] /\ f[a.request] = outcome
        /\ \A r \in 1 .. Shutdown : r # a.request => f[r] = a.answer[r]
    BY <2>1 DEF AsrState, Outcomes
  <2>3. Settle(a, outcome) = b
    BY <1>2, <2>1 DEF Settle, AsrState
  <2> HIDE DEF f, g
  <2>4. /\ b \in AsrState /\ b.answer = f /\ b.request = 0 /\ Alike(a, b)
    BY <2>1, <2>2, Requests DEF AsrState, Alike
  <2> HIDE DEF b
  <2>5. Credited(b, h)
    BY <2>2, <2>4 DEF AsrOK, Credited
  <2>6. Output(b, h) /\ Exits(b)
    BY <2>4 DEF AsrOK, Output, Exits, Alike
  <2>7. Farewells(b)
    BY <2>1, <2>2, <2>4, Requests DEF AsrOK, Farewells, Alike
  <2>8. a.answer[a.request] = "none"
    BY <1>2 DEF AsrOK, Farewells
  <2>9. Steady(a, b)
    BY <2>1, <2>2, <2>4, <2>8, Requests DEF Steady
  <2>10. outcome = "failed" => Uncredited(a, b)
    BY <2>2, <2>4 DEF Uncredited
  <2> QED  BY <2>3, <2>4, <2>5, <2>6, <2>7, <2>9, <2>10 DEF AsrOK
<1> QED  BY <1>1, <1>2

\* A record that differs only in its flags is as good.
LEMMA FlagsOK ==
  ASSUME NEW a, NEW b, NEW h, AsrOK(a, h), b \in AsrState, Alike(a, b),
         b.answer = a.answer, b.request = a.request
  PROVE  AsrOK(b, h) /\ Steady(a, b) /\ Uncredited(a, b)
BY DEF AsrOK, Credited, Output, Exits, Farewells, Alike, Steady, Uncredited

LEMMA RejectOK ==
  ASSUME NEW a, NEW h, AsrOK(a, h)
  PROVE  LET b == RejectOutstanding(a) IN
         AsrOK(b, h) /\ Steady(a, b) /\ Alike(a, b) /\ b.request = 0 /\ Uncredited(a, b)
<1> DEFINE c == [a EXCEPT !.ready = IF @ = "waiting" THEN "failed" ELSE @]
<1>1. c \in AsrState /\ Alike(a, c) /\ c.answer = a.answer /\ c.request = a.request
  BY DEF AsrOK, AsrState, Alike
<1>2. RejectOutstanding(a) = Settle(c, "failed")
  BY DEF RejectOutstanding
<1> HIDE DEF c
<1>3. AsrOK(c, h) /\ Steady(a, c) /\ Uncredited(a, c)
  BY <1>1, FlagsOK
<1> DEFINE b == Settle(c, "failed")
<1>4. AsrOK(b, h) /\ Steady(c, b) /\ Alike(c, b) /\ b.request = 0 /\ Uncredited(c, b)
  BY <1>3, SettleOK
<1> HIDE DEF b
<1>5. Steady(a, b) /\ Uncredited(a, b)
  BY <1>3, <1>4, SteadyTransitive
<1> QED  BY <1>1, <1>2, <1>4, <1>5 DEF b, Alike

LEMMA SignalsOK ==
  ASSUME NEW a, NEW h, AsrOK(a, h),
         NEW b, b = SignalRuntimeError(a) \/ b = SignalProcessingError(a)
  PROVE  AsrOK(b, h) /\ Steady(a, b) /\ Alike(a, b) /\ Uncredited(a, b)
<1>1. CASE b = a
  BY <1>1 DEF Steady, Alike, Uncredited
<1>2. CASE b = RejectOutstanding([a EXCEPT !.runtimeError = TRUE, !.killed = TRUE])
  <2> DEFINE c == [a EXCEPT !.runtimeError = TRUE, !.killed = TRUE]
  <2>1. c \in AsrState /\ Alike(a, c) /\ c.answer = a.answer /\ c.request = a.request
    BY DEF AsrOK, AsrState, Alike
  <2> HIDE DEF c
  <2>2. AsrOK(c, h) /\ Steady(a, c) /\ Uncredited(a, c)
    BY <2>1, FlagsOK
  <2>3. b = RejectOutstanding(c)
    BY <1>2 DEF c
  <2>4. AsrOK(b, h) /\ Steady(c, b) /\ Alike(c, b) /\ Uncredited(c, b)
    BY <2>2, <2>3, RejectOK
  <2> QED  BY <2>1, <2>2, <2>4, SteadyTransitive DEF Alike
<1>3. CASE b = RejectOutstanding([a EXCEPT !.processingError = TRUE, !.killed = TRUE])
  <2> DEFINE c == [a EXCEPT !.processingError = TRUE, !.killed = TRUE]
  <2>1. c \in AsrState /\ Alike(a, c) /\ c.answer = a.answer /\ c.request = a.request
    BY DEF AsrOK, AsrState, Alike
  <2> HIDE DEF c
  <2>2. AsrOK(c, h) /\ Steady(a, c) /\ Uncredited(a, c)
    BY <2>1, FlagsOK
  <2>3. b = RejectOutstanding(c)
    BY <1>3 DEF c
  <2>4. AsrOK(b, h) /\ Steady(c, b) /\ Alike(c, b) /\ Uncredited(c, b)
    BY <2>2, <2>3, RejectOK
  <2> QED  BY <2>1, <2>2, <2>4, SteadyTransitive DEF Alike
<1> QED  BY <1>1, <1>2, <1>3 DEF SignalRuntimeError, SignalProcessingError

\* Writing the request at the head of its queue, or rejecting it.
LEMMA ExecuteOK ==
  ASSUME NEW a, NEW h, AsrOK(a, h)
  PROVE  LET b == Execute(a) IN
         AsrOK(b, h) /\ Steady(a, b) /\ Alike(a, b) /\ Uncredited(a, b)
<1>1. CASE ~a.child \/ a.runtimeError \/ a.processingError
  BY <1>1, SettleOK DEF Execute
<1>2. CASE ~(~a.child \/ a.runtimeError \/ a.processingError) /\ a.ready = "ready"
  <2> DEFINE b == [a EXCEPT !.wire = a.request]
  <2>1. b \in AsrState /\ Alike(a, b) /\ b.answer = a.answer /\ b.request = a.request
    BY DEF AsrOK, AsrState, Alike
  <2>2. Execute(a) = b
    BY <1>2 DEF Execute
  <2> HIDE DEF b
  <2> QED  BY <2>1, <2>2, FlagsOK
<1>3. CASE ~(~a.child \/ a.runtimeError \/ a.processingError) /\ a.ready # "ready"
  BY <1>3 DEF Execute, Steady, Alike, Uncredited
<1> QED  BY <1>1, <1>2, <1>3

\* A request of the stop, made when the one before it is settled.
LEMMA AskOK ==
  ASSUME NEW a, NEW h, AsrOK(a, h), NEW r \in {Drain, Shutdown},
         a.request = 0, a.answer[r] = "none",
         a.stop \notin {"no", "queue"}, r = Shutdown => a.stop # "drain"
  PROVE  LET b == Ask(a, r) IN
         AsrOK(b, h) /\ Steady(a, b) /\ Alike(a, b) /\ Uncredited(a, b)
<1> DEFINE c == [a EXCEPT !.request = r]
<1>1. a \in AsrState /\ r \in 0 .. Shutdown
  BY Requests DEF AsrOK
<1>2. c \in AsrState /\ Alike(a, c) /\ c.answer = a.answer /\ c.request = r
  BY <1>1 DEF AsrState, Alike
<1>3. Ask(a, r) = Execute(c)
  BY DEF Ask
<1> HIDE DEF c
<1>4. AsrOK(c, h)
  BY <1>2, Requests DEF AsrOK, Credited, Output, Exits, Farewells, Alike
<1>5. Steady(a, c) /\ Uncredited(a, c)
  BY <1>2, Requests DEF Steady, Uncredited
<1> DEFINE b == Execute(c)
<1>6. AsrOK(b, h) /\ Steady(c, b) /\ Alike(c, b) /\ Uncredited(c, b)
  BY <1>4, ExecuteOK
<1> HIDE DEF b
<1>7. Steady(a, b) /\ Uncredited(a, b)
  BY <1>5, <1>6, SteadyTransitive
<1> QED  BY <1>2, <1>3, <1>6, <1>7 DEF b, Alike

\* The stop goes on.
LEMMA StopOK ==
  ASSUME NEW a, NEW h, AsrOK(a, h), NEW s \in AsrStops,
         s \notin {"no", "ok"} \/ (s = "ok" /\ a.exit # "none"),
         s = "queue" => a.stop = "no",
         s = "drain" => a.stop \in {"no", "queue"}
  PROVE  LET b == [a EXCEPT !.stop = s] IN 
         /\ AsrOK(b, h) /\ Steady(a, b) /\ Uncredited(a, b) /\ b.stop = s
         /\ b.request = a.request /\ b.answer = a.answer /\ b.child = a.child
         /\ b.processing = a.processing /\ b.exit = a.exit
<1> DEFINE b == [a EXCEPT !.stop = s]
<1>1. /\ b \in AsrState /\ b.stop = s /\ b.lines = a.lines /\ b.proc = a.proc
      /\ b.child = a.child /\ b.processing = a.processing /\ b.exit = a.exit
      /\ b.answer = a.answer /\ b.request = a.request
  BY DEF AsrOK, AsrState
<1> HIDE DEF b
<1>2. Credited(b, h) /\ Output(b, h) /\ Exits(b)
  BY <1>1 DEF AsrOK, Credited, Output, Exits
<1>3. Farewells(b)
  BY <1>1 DEF AsrOK, Farewells
<1>4. Steady(a, b) /\ Uncredited(a, b)
  BY <1>1 DEF Steady, Uncredited
<1> QED  BY <1>1, <1>2, <1>3, <1>4 DEF AsrOK, b

LEMMA ConcatElements ==
  ASSUME NEW S, NEW s \in Seq(S), NEW t \in Seq(S), NEW i \in 1 .. Len(s \o t)
  PROVE  \/ i \in 1 .. Len(s) /\ (s \o t)[i] = s[i]
         \/ /\ i - Len(s) \in 1 .. Len(t) /\ (s \o t)[i] = t[i - Len(s)]
            /\ i - Len(s) = Len(t) => i = Len(s \o t)
<1>1. PICK m \in Nat, n \in Nat : m = Len(s) /\ n = Len(t)
  BY LenProperties
<1>2. /\ Len(s \o t) = m + n
      /\ \A j \in 1 .. m + n : (s \o t)[j] = IF j <= m THEN s[j] ELSE t[j - m]
  BY <1>1, ConcatProperties
<1>3. i \in 1 .. m + n
  BY <1>2
<1>4. CASE i <= m
  BY <1>1, <1>2, <1>3, <1>4
<1>5. CASE ~(i <= m)
  <2>1. i - m \in 1 .. n /\ (i - m = n => i = m + n)
    BY <1>1, <1>3, <1>5
  <2> QED  BY <1>1, <1>2, <1>3, <1>5, <2>1
<1> QED  BY <1>4, <1>5

\* What a helper that is then at p may write when it has carried out k.
Sayable(out, p, k) ==
  \A i \in 1 .. Len(out) :
    /\ out[i].kind = "ok" => out[i].of \in k
    /\ out[i].kind \in {"exit 0", "exit 1"} => i = Len(out) /\ p = "exited"

\* The output grows while the process lives.
LEMMA SaysOK ==
  ASSUME NEW a, NEW b, NEW h, NEW k, AsrOK(a, h), a.proc # "exited", h \subseteq k,
         b \in AsrState, NEW out \in Seq(LineState), b.lines = a.lines \o out,
         Sayable(out, b.proc, k),
         b.child = a.child, b.processing = a.processing, b.exit = a.exit, b.stop = a.stop,
         b.answer = a.answer, b.request = a.request
  PROVE  AsrOK(b, k) /\ Steady(a, b) /\ Uncredited(a, b)
<1>1. a.lines \in Seq(LineState)
  BY DEF AsrOK, AsrState
<1>3. Output(b, k)
  <2> SUFFICES ASSUME NEW i \in 1 .. Len(b.lines)
               PROVE  /\ b.lines[i].kind = "ok" => b.lines[i].of \in k
                      /\ b.lines[i].kind \in {"exit 0", "exit 1"}
                           => i = Len(b.lines) /\ b.proc = "exited"
    BY DEF Output
  <2> DEFINE m == Len(a.lines)
  <2>1. CASE i \in 1 .. m /\ b.lines[i] = a.lines[i]
    <3>1. /\ a.lines[i].kind = "ok" => a.lines[i].of \in h
          /\ a.lines[i].kind \notin {"exit 0", "exit 1"}
      BY <2>1 DEF AsrOK, Output
    <3> QED  BY <2>1, <3>1
  <2>2. CASE /\ i - m \in 1 .. Len(out) /\ b.lines[i] = out[i - m]
             /\ i - m = Len(out) => i = Len(b.lines)
    <3>1. PICK j \in 1 .. Len(out) : b.lines[i] = out[j] /\ (j = Len(out) => i = Len(b.lines))
      BY <2>2
    <3>2. /\ out[j].kind = "ok" => out[j].of \in k
          /\ out[j].kind \in {"exit 0", "exit 1"} => j = Len(out) /\ b.proc = "exited"
      BY DEF Sayable
    <3> QED  BY <3>1, <3>2
  <2>3. i \in 1 .. Len(a.lines \o out) /\ b.lines[i] = (a.lines \o out)[i]
    OBVIOUS
  <2>4. \/ i \in 1 .. m /\ (a.lines \o out)[i] = a.lines[i]
        \/ /\ i - m \in 1 .. Len(out) /\ (a.lines \o out)[i] = out[i - m]
           /\ i - m = Len(out) => i = Len(a.lines \o out)
    BY <1>1, <2>3, ConcatElements
  <2> QED  BY <2>1, <2>2, <2>3, <2>4
<1>4. a.child
  BY DEF AsrOK, Exits
<1>5. Credited(b, k) /\ Exits(b) /\ Farewells(b)
  BY <1>4 DEF AsrOK, Credited, Exits, Farewells
<1>6. Steady(a, b) /\ Uncredited(a, b)
  BY DEF Steady, Uncredited
<1> QED  BY <1>3, <1>5, <1>6 DEF AsrOK

\* A line is taken from the output.
Consumed(a, h, b) ==
  /\ AsrOK(b, h) /\ Steady(a, b) /\ Uncredited(a, b)
  /\ b.lines = Tail(a.lines) /\ b.proc = a.proc /\ b.child = a.child
  /\ b.processing = a.processing /\ b.exit = a.exit /\ b.stop = a.stop
  /\ b.answer = a.answer /\ b.request = a.request
  /\ Head(a.lines) \in LineState
  /\ Head(a.lines).kind = "ok" => Head(a.lines).of \in h
  /\ Head(a.lines).kind \in {"exit 0", "exit 1"} => b.lines = <<>> /\ b.proc = "exited"

LEMMA ConsumeOK ==
  ASSUME NEW a, NEW h, AsrOK(a, h), a.lines # <<>>,
         NEW b, b = [a EXCEPT !.lines = Tail(@)]
  PROVE  Consumed(a, h, b)
<1>1. a \in AsrState /\ a.lines \in Seq(LineState)
  BY DEF AsrOK, AsrState
<1> DEFINE n == Len(a.lines)  l == Tail(a.lines)
<1>2. /\ n \in Nat \ {0} /\ l \in Seq(LineState) /\ Len(l) = n - 1
      /\ Head(a.lines) \in LineState /\ Head(a.lines) = a.lines[1]
      /\ \A i \in 1 .. Len(l) : l[i] = a.lines[i + 1]
  BY <1>1, HeadTailProperties, LenProperties, EmptySeq
<1>3. b = [a EXCEPT !.lines = l]
  OBVIOUS
<1> HIDE DEF l
<1>4. /\ b \in AsrState /\ b.lines = l /\ b.proc = a.proc /\ b.child = a.child
      /\ b.processing = a.processing /\ b.exit = a.exit /\ b.stop = a.stop
      /\ b.answer = a.answer /\ b.request = a.request
  BY <1>1, <1>2, <1>3 DEF AsrState
<1>5. \A i \in 1 .. n :
        /\ a.lines[i].kind = "ok" => a.lines[i].of \in h
        /\ a.lines[i].kind \in {"exit 0", "exit 1"} => i = n /\ a.proc = "exited"
  BY DEF AsrOK, Output
<1> HIDE DEF n
<1>6. Output(b, h)
  <2> SUFFICES ASSUME NEW i \in 1 .. Len(b.lines)
               PROVE  /\ b.lines[i].kind = "ok" => b.lines[i].of \in h
                      /\ b.lines[i].kind \in {"exit 0", "exit 1"}
                           => i = Len(b.lines) /\ b.proc = "exited"
    BY DEF Output
  <2>1. i + 1 \in 1 .. n /\ b.lines[i] = a.lines[i + 1] /\ (i + 1 = n => i = Len(b.lines))
    BY <1>2, <1>4
  <2> QED  BY <1>4, <1>5, <2>1
<1>7. Credited(b, h) /\ Farewells(b) /\ Steady(a, b) /\ Uncredited(a, b)
  BY <1>4 DEF AsrOK, Credited, Farewells, Steady, Uncredited
<1>8. a.child
  BY DEF AsrOK, Exits
<1>9. Exits(b)
  BY <1>4, <1>8 DEF AsrOK, Exits
<1>10. /\ Head(a.lines).kind = "ok" => Head(a.lines).of \in h
       /\ Head(a.lines).kind \in {"exit 0", "exit 1"} => l = <<>> /\ a.proc = "exited"
  <2>1. 1 \in 1 .. n
    BY <1>2
  <2>2. Head(a.lines).kind \in {"exit 0", "exit 1"} => Len(l) = 0 /\ a.proc = "exited"
    <3>1. 1 = n => Len(l) = 0
      BY <1>2
    <3> QED  BY <1>2, <1>5, <2>1, <3>1
  <2>3. Len(l) = 0 => l = <<>>
    BY <1>2, EmptySeq
  <2> QED  BY <1>2, <1>5, <2>1, <2>2, <2>3
<1>11. AsrOK(b, h)
  BY <1>4, <1>6, <1>7, <1>9 DEF AsrOK
<1> QED  BY <1>2, <1>4, <1>7, <1>10, <1>11 DEF Consumed, l

\* The callback of a line begins or ends.
LEMMA ProcessingOK ==
  ASSUME NEW a, NEW b, NEW h, AsrOK(a, h), b \in AsrState,
         b.processing # "exit", b.processing = "idle" \/ a.child,
         b.lines = a.lines, b.proc = a.proc, b.child = a.child, b.exit = a.exit,
         b.stop = a.stop, b.answer = a.answer, b.request = a.request
  PROVE  AsrOK(b, h) /\ Steady(a, b) /\ Uncredited(a, b)
BY DEF AsrOK, Credited, Output, Exits, Farewells, Steady, Uncredited

\* What the adapter and the helper do by themselves never takes a callback that is
\* running away, makes the helper exit, or begins the stop.
Goes(a, b) ==
  /\ b.processing = a.processing \/ a.processing \in {"idle", "transcript"}
  /\ b.exit = a.exit
  /\ b.stop = "no" <=> a.stop = "no"
  /\ a.stop = "ok" => b.stop = "ok"
  /\ ~a.child => ~b.child /\ Uncredited(a, b)

AsrGood == AsrInv' /\ Steady(asr, asr') /\ Goes(asr, asr')

LEMMA Quietly ==
  ASSUME NEW a, NEW b, Alike(a, b), Uncredited(a, b)
  PROVE  Goes(a, b)
BY DEF Goes, Alike

\* The helper writes.
LEMMA HelperWrites ==
  ASSUME AsrInv, asr.proc # "exited",
         NEW out \in Seq(LineState), NEW p \in ProcState, NEW w \in 0 .. Shutdown,
         asr' = [asr EXCEPT !.lines = asr.lines \o out, !.proc = p, !.wire = w],
         Sayable(out, p, heard'),
         heard \subseteq heard', heard' \subseteq 1 .. Shutdown
  PROVE  AsrGood
<1>1. asr \in AsrState /\ AsrOK(asr, heard) /\ asr.lines \in Seq(LineState)
  BY DEF AsrInv, AsrOK, AsrState
<1>2. asr.lines \o out \in Seq(LineState)
  BY <1>1, ConcatProperties
<1> DEFINE l == asr.lines \o out
<1>3. asr' = [asr EXCEPT !.lines = l, !.proc = p, !.wire = w] /\ l \in Seq(LineState)
  BY <1>2
<1> HIDE DEF l
<1>4. /\ asr' \in AsrState /\ asr'.lines = l /\ asr'.proc = p
      /\ asr'.child = asr.child /\ asr'.processing = asr.processing /\ asr'.exit = asr.exit
      /\ asr'.stop = asr.stop /\ asr'.answer = asr.answer /\ asr'.request = asr.request
  BY <1>1, <1>3 DEF AsrState
<1>5. PICK b, k : b = asr' /\ k = heard'
  OBVIOUS
<1>6. /\ b \in AsrState /\ b.lines = asr.lines \o out /\ b.proc = p
      /\ b.child = asr.child /\ b.processing = asr.processing /\ b.exit = asr.exit
      /\ b.stop = asr.stop /\ b.answer = asr.answer /\ b.request = asr.request
  BY <1>4, <1>5 DEF l
<1>7. heard \subseteq k /\ Sayable(out, b.proc, k)
  BY <1>5, <1>6
<1>8. AsrOK(b, k) /\ Steady(asr, b) /\ Uncredited(asr, b)
  BY <1>1, <1>6, <1>7, SaysOK
<1> QED  BY <1>4, <1>5, <1>8 DEF AsrGood, AsrInv, Goes

LEMMA HelperOK ==
  ASSUME AsrInv,
         HelperReady \/ HelperAnswers \/ HelperRefuses \/ HelperMisbehaves \/ HelperExits
  PROVE  AsrGood
<1>1. /\ AsrInv /\ asr \in AsrState /\ heard \subseteq 1 .. Shutdown
      /\ asr.wire \in 0 .. Shutdown /\ asr.lines \in Seq(LineState) /\ asr.proc \in ProcState
  BY DEF AsrInv, AsrOK, AsrState
<1>2. asr.proc # "exited"
  BY DEF HelperReady, HelperAnswers, HelperRefuses, HelperMisbehaves, HelperExits
<1>3. \A kind \in {"ready", "bad", "transcript", "ok", "error", "exit 0", "exit 1"},
         r \in 0 .. Shutdown : Line(kind, r) \in LineState
  BY DEF Line, LineState
<1>4. CASE HelperReady
  <2> DEFINE l == Line("ready", 0)
             out == <<l>>
  <2>1. l \in LineState /\ l.kind = "ready"
    BY <1>1, <1>3, Requests DEF Line
  <2> HIDE DEF l
  <2>2. /\ out \in Seq(LineState)
        /\ \A i \in 1 .. Len(out) : i = Len(out) /\ out[i] = l
    BY <2>1
  <2>3. /\ asr' = [asr EXCEPT !.lines = asr.lines \o out, !.proc = "running", !.wire = asr.wire]
        /\ heard' = heard /\ "running" \in ProcState /\ asr.wire \in 0 .. Shutdown
    BY <1>1, <1>4, Requests DEF HelperReady, Says, AsrState, ProcState, l
  <2> HIDE DEF out
  <2> QED  BY <1>1, <1>2, <2>1, <2>2, <2>3, HelperWrites DEF Sayable
<1>5. CASE HelperRefuses
  <2> DEFINE l == Line("error", asr.wire)
             out == <<l>>
  <2>1. l \in LineState /\ l.kind = "error"
    BY <1>1, <1>3, Requests DEF Line
  <2> HIDE DEF l
  <2>2. /\ out \in Seq(LineState)
        /\ \A i \in 1 .. Len(out) : i = Len(out) /\ out[i] = l
    BY <2>1
  <2>3. /\ asr' = [asr EXCEPT !.lines = asr.lines \o out, !.proc = asr.proc, !.wire = 0]
        /\ heard' = heard /\ asr.proc \in ProcState /\ 0 \in 0 .. Shutdown
    BY <1>1, <1>5, Requests DEF HelperRefuses, Says, AsrState, ProcState, l
  <2> HIDE DEF out
  <2> QED  BY <1>1, <1>2, <2>1, <2>2, <2>3, HelperWrites DEF Sayable
<1>6. CASE HelperMisbehaves
  <2> DEFINE l == Line("bad", 0)
             out == <<l>>
  <2>1. l \in LineState /\ l.kind = "bad"
    BY <1>1, <1>3, Requests DEF Line
  <2> HIDE DEF l
  <2>2. /\ out \in Seq(LineState)
        /\ \A i \in 1 .. Len(out) : i = Len(out) /\ out[i] = l
    BY <2>1
  <2>3. /\ asr' = [asr EXCEPT !.lines = asr.lines \o out, !.proc = asr.proc, !.wire = asr.wire]
        /\ heard' = heard /\ asr.proc \in ProcState /\ asr.wire \in 0 .. Shutdown
    BY <1>1, <1>6, Requests DEF HelperMisbehaves, Says, AsrState, ProcState, l
  <2> HIDE DEF out
  <2> QED  BY <1>1, <1>2, <2>1, <2>2, <2>3, HelperWrites DEF Sayable
<1>7. CASE HelperExits
  <2> DEFINE l == Line(IF asr.proc = "done" /\ ~asr.killed THEN "exit 0" ELSE "exit 1", 0)
             out == <<l>>
  <2>1. l \in LineState /\ l.kind # "ok"
    BY <1>1, <1>3, Requests DEF Line
  <2> HIDE DEF l
  <2>2. /\ out \in Seq(LineState)
        /\ \A i \in 1 .. Len(out) : i = Len(out) /\ out[i] = l
    BY <2>1
  <2>3. /\ asr' = [asr EXCEPT !.lines = asr.lines \o out, !.proc = "exited", !.wire = asr.wire]
        /\ heard' = heard /\ "exited" \in ProcState /\ asr.wire \in 0 .. Shutdown
    BY <1>1, <1>7, Requests DEF HelperExits, Says, AsrState, ProcState, l
  <2> HIDE DEF out
  <2> QED  BY <1>1, <1>2, <2>1, <2>2, <2>3, HelperWrites DEF Sayable
<1>8. CASE HelperAnswers
  <2> DEFINE r == asr.wire
             p == IF r = Shutdown THEN "done" ELSE asr.proc
             out == Answer(r)
  <2>1. r # 0 /\ r \in 1 .. Shutdown /\ heard' = heard \cup {r} /\ p \in ProcState
        /\ 0 \in 0 .. Shutdown
    BY <1>1, <1>8, Requests DEF HelperAnswers, ProcState
  <2>2. asr' = [asr EXCEPT !.lines = asr.lines \o out, !.proc = p, !.wire = 0]
    BY <1>1, <1>8 DEF HelperAnswers, Says, AsrState
  <2>3. heard \subseteq heard' /\ heard' \subseteq 1 .. Shutdown /\ r \in heard'
    BY <1>1, <2>1
  <2>4. PICK x, y : x = Line("transcript", r) /\ y = Line("ok", r)
    OBVIOUS
  <2>5. /\ x \in LineState /\ x.kind = "transcript"
        /\ y \in LineState /\ y.kind = "ok" /\ y.of = r
    BY <1>1, <1>3, <2>4 DEF Line
  <2>6. out = <<y>> \/ out = <<x, y>>
    BY <2>4 DEF Answer
  <2>7. /\ out \in Seq(LineState)
        /\ \A i \in 1 .. Len(out) : out[i] = x \/ out[i] = y
    <3>1. CASE out = <<y>>
      BY <2>5, <3>1
    <3>2. CASE out = <<x, y>>
      BY <2>5, <3>2
    <3> QED  BY <2>6, <3>1, <3>2
  <2> HIDE DEF r, p, out
  <2> QED  BY <1>1, <1>2, <2>1, <2>2, <2>3, <2>5, <2>7, HelperWrites DEF Sayable
<1> QED  BY <1>4, <1>5, <1>6, <1>7, <1>8

\* What the lemmas below are asked for.
LEMMA GoodFrom ==
  ASSUME heard' = heard, heard \subseteq 1 .. Shutdown, NEW b, asr' = b,
         AsrOK(b, heard), Steady(asr, b), Goes(asr, b)
  PROVE  AsrGood
BY DEF AsrGood, AsrInv

LEMMA LinesOK ==
  ASSUME AsrInv,
         ReadyLine \/ BadLine \/ TranscriptLine \/ ResultLine \/ ExitLine
  PROVE  AsrGood
<1>1. /\ asr \in AsrState /\ AsrOK(asr, heard) /\ heard \subseteq 1 .. Shutdown
      /\ asr.lines # <<>> /\ asr.processing = "idle" /\ heard' = heard
  BY DEF AsrInv, AsrOK, ReadyLine, BadLine, TranscriptLine, ResultLine, ExitLine, NextLine
<1>2. PICK c : c = Consume
  OBVIOUS
<1>3. /\ AsrOK(c, heard) /\ Steady(asr, c) /\ Uncredited(asr, c)
      /\ c.lines = Tail(asr.lines) /\ c.proc = asr.proc /\ c.child = asr.child
      /\ c.processing = asr.processing /\ c.exit = asr.exit /\ c.stop = asr.stop
      /\ c.answer = asr.answer /\ c.request = asr.request
      /\ Head(asr.lines) \in LineState
      /\ Head(asr.lines).kind = "ok" => Head(asr.lines).of \in heard
      /\ Head(asr.lines).kind \in {"exit 0", "exit 1"} => c.lines = <<>> /\ c.proc = "exited"
  <2>1. c = [asr EXCEPT !.lines = Tail(@)]
    BY <1>2 DEF Consume
  <2>2. AsrOK(asr, heard) /\ asr.lines # <<>>
    BY <1>1
  <2>3. Consumed(asr, heard, c)
    BY <2>1, <2>2, ConsumeOK
  <2> QED  BY <2>3 DEF Consumed
<1>4. asr.child /\ asr.exit = "none"
  BY <1>1 DEF AsrOK, Exits
\* While the process is there, a step is good if the callback that runs is not cut off.
<1>5. ASSUME NEW b, AsrOK(b, heard), Steady(c, b), asr' = b,
             b.exit = c.exit, b.stop = c.stop
      PROVE  AsrGood
  <2>1. Steady(asr, b)
    BY <1>3, <1>5, SteadyTransitive
  <2>2. Goes(asr, b)
    BY <1>1, <1>3, <1>4, <1>5 DEF Goes
  <2> QED  BY <1>1, <1>5, <2>1, <2>2, GoodFrom
<1>6. CASE asr' = c
  BY <1>3, <1>5, <1>6 DEF Steady
<1>7. CASE asr' = SignalRuntimeError(c)
  <2> DEFINE b == SignalRuntimeError(c)
  <2>1. AsrOK(b, heard) /\ Steady(c, b) /\ Alike(c, b)
    BY <1>3, SignalsOK
  <2> HIDE DEF b
  <2> QED  BY <1>5, <1>7, <2>1 DEF Alike, b
<1>8. CASE ReadyLine /\ asr.ready = "waiting"
  <2> DEFINE d == [c EXCEPT !.ready = "ready", !.processing = "ready"]
  <2>1. c \in AsrState
    BY <1>3 DEF AsrOK
  <2>2. /\ d \in AsrState /\ d.processing = "ready"
        /\ d.lines = c.lines /\ d.proc = c.proc /\ d.child = c.child /\ d.exit = c.exit
        /\ d.stop = c.stop /\ d.answer = c.answer /\ d.request = c.request
    BY <2>1 DEF AsrState
  <2>3. asr' = Execute(d)
    BY <1>2, <1>8 DEF ReadyLine
  <2> HIDE DEF d
  <2>4. AsrOK(d, heard) /\ Steady(c, d)
    BY <1>3, <1>4, <2>2, ProcessingOK
  <2> DEFINE b == Execute(d)
  <2>5. AsrOK(b, heard) /\ Steady(d, b) /\ Alike(d, b)
    BY <2>4, ExecuteOK
  <2> HIDE DEF b
  <2>6. Steady(c, b)
    BY <2>4, <2>5, SteadyTransitive
  <2>7. asr' = b
    BY <2>3 DEF b
  <2> QED  BY <1>5, <2>2, <2>5, <2>6, <2>7 DEF Alike
<1>9. CASE TranscriptLine /\ asr' # SignalRuntimeError(c)
  <2> DEFINE d == [c EXCEPT !.processing = "transcript"]
  <2>1. c \in AsrState
    BY <1>3 DEF AsrOK
  <2>2. /\ d \in AsrState /\ d.processing = "transcript"
        /\ d.lines = c.lines /\ d.proc = c.proc /\ d.child = c.child /\ d.exit = c.exit
        /\ d.stop = c.stop /\ d.answer = c.answer /\ d.request = c.request
    BY <2>1 DEF AsrState
  <2>3. asr' = d
    BY <1>2, <1>9 DEF TranscriptLine
  <2> HIDE DEF d
  <2>4. AsrOK(d, heard) /\ Steady(c, d)
    BY <1>3, <1>4, <2>2, ProcessingOK
  <2> QED  BY <1>5, <2>2, <2>3, <2>4
<1>10. CASE ResultLine /\ asr' # SignalRuntimeError(c)
  <2> DEFINE o == IF Head(asr.lines).kind = "ok" THEN "ok" ELSE "failed"
  <2>1. asr' = Settle(c, o) /\ asr.request = Head(asr.lines).of
    BY <1>2, <1>10 DEF ResultLine, ExpectedAnswer
  <2>2. o \in {"ok", "failed"} /\ (o = "ok" => c.request \in heard)
    BY <1>3, <2>1
  <2> HIDE DEF o
  <2> DEFINE b == Settle(c, o)
  <2>3. AsrOK(b, heard) /\ Steady(c, b) /\ Alike(c, b)
    BY <1>3, <2>2, SettleOK
  <2>4. asr' = b
    BY <2>1
  <2> HIDE DEF b
  <2> QED  BY <1>5, <2>3, <2>4 DEF Alike
<1>11. CASE ExitLine
  <2>1. \E d : /\ d = c \/ d = RejectOutstanding(c)
               /\ asr' = [d EXCEPT !.child = FALSE, !.exitError = asr.runtimeError,
                                   !.processing = "exit"]
    BY <1>2, <1>11 DEF ExitLine
  <2>2. PICK d : /\ d = c \/ d = RejectOutstanding(c)
                 /\ asr' = [d EXCEPT !.child = FALSE, !.exitError = asr.runtimeError,
                                     !.processing = "exit"]
    BY <2>1
  <2>3. AsrOK(d, heard) /\ Steady(c, d) /\ Alike(c, d)
    <3>1. CASE d = c
      BY <1>3, <3>1 DEF Steady, Alike
    <3>2. CASE d = RejectOutstanding(c)
      BY <1>3, <3>2, RejectOK
    <3> QED  BY <2>2, <3>1, <3>2
  <2>4. c.lines = <<>> /\ c.proc = "exited"
    BY <1>3, <1>11 DEF ExitLine, NextLine
  <2>5. d \in AsrState /\ asr.runtimeError \in BOOLEAN
    BY <1>1, <2>3 DEF AsrOK, AsrState
  <2>6. PICK b : b = asr'
    OBVIOUS
  <2>7. /\ b \in AsrState /\ b.processing = "exit" /\ ~b.child
        /\ b.lines = d.lines /\ b.proc = d.proc /\ b.exit = d.exit
        /\ b.stop = d.stop /\ b.answer = d.answer /\ b.request = d.request
    BY <2>2, <2>5, <2>6 DEF AsrState
  <2>8. Steady(d, b)
    BY <2>7 DEF Steady
  <2>9. Exits(b)
    BY <1>3, <1>4, <2>3, <2>4, <2>7 DEF Exits, Alike, AsrOK
  <2>10. AsrOK(b, heard)
    BY <2>3, <2>7, <2>9 DEF AsrOK, Credited, Output, Farewells
  <2>11. Steady(c, b)
    BY <2>3, <2>8, SteadyTransitive
  <2> QED  BY <1>5, <2>3, <2>6, <2>7, <2>10, <2>11 DEF Alike
<1> QED  BY <1>2, <1>6, <1>7, <1>8, <1>9, <1>10, <1>11 DEF ReadyLine, BadLine

LEMMA SettlesOK ==
  ASSUME AsrInv,
         RequestTimesOut \/ WriteFails \/ TranscriptStored \/ TranscriptRejected
  PROVE  AsrGood
<1>1. /\ asr \in AsrState /\ AsrOK(asr, heard) /\ heard \subseteq 1 .. Shutdown
      /\ heard' = heard
  BY DEF AsrInv, AsrOK, RequestTimesOut, WriteFails, TranscriptStored, TranscriptRejected
<1>2. CASE RequestTimesOut
  <2> DEFINE c == SignalRuntimeError(asr)
  <2>1. asr' = Settle(c, "failed")
    BY <1>2 DEF RequestTimesOut
  <2>2. AsrOK(c, heard) /\ Steady(asr, c) /\ Alike(asr, c) /\ Uncredited(asr, c)
    BY <1>1, SignalsOK
  <2> HIDE DEF c
  <2> DEFINE b == Settle(c, "failed")
  <2>3. AsrOK(b, heard) /\ Steady(c, b) /\ Alike(c, b) /\ Uncredited(c, b)
    BY <2>2, SettleOK
  <2>4. asr' = b
    BY <2>1
  <2> HIDE DEF b
  <2>5. Steady(asr, b) /\ Uncredited(asr, b) /\ Alike(asr, b)
    BY <2>2, <2>3, SteadyTransitive DEF Alike
  <2> QED  BY <1>1, <2>3, <2>4, <2>5, Quietly, GoodFrom
<1>3. CASE WriteFails
  <2> DEFINE c == [asr EXCEPT !.wire = 0]
             d == Settle(c, "failed")
             b == SignalRuntimeError(d)
  <2>1. asr' = b
    BY <1>3 DEF WriteFails
  <2>2. c \in AsrState /\ Alike(asr, c) /\ c.answer = asr.answer /\ c.request = asr.request
    BY <1>1, Requests DEF AsrState, Alike
  <2> HIDE DEF c
  <2>3. AsrOK(c, heard) /\ Steady(asr, c) /\ Uncredited(asr, c)
    BY <1>1, <2>2, FlagsOK
  <2>4. AsrOK(d, heard) /\ Steady(c, d) /\ Alike(c, d) /\ Uncredited(c, d)
    BY <2>3, SettleOK
  <2> HIDE DEF d
  <2>5. AsrOK(b, heard) /\ Steady(d, b) /\ Alike(d, b) /\ Uncredited(d, b)
    BY <2>4, SignalsOK
  <2> HIDE DEF b
  <2>6. Steady(asr, d) /\ Uncredited(asr, d)
    BY <2>3, <2>4, SteadyTransitive
  <2>7. Steady(asr, b) /\ Uncredited(asr, b) /\ Alike(asr, b)
    BY <2>2, <2>4, <2>5, <2>6, SteadyTransitive DEF Alike
  <2> QED  BY <1>1, <2>1, <2>5, <2>7, Quietly, GoodFrom
<1>4. CASE TranscriptStored \/ TranscriptRejected
  <2> DEFINE c == [asr EXCEPT !.processing = "idle"]
  <2>1. asr' = c \/ asr' = SignalProcessingError(c)
    BY <1>4 DEF TranscriptStored, TranscriptRejected
  <2>2. /\ c \in AsrState /\ c.processing = "idle" /\ asr.processing = "transcript"
        /\ c.lines = asr.lines /\ c.proc = asr.proc /\ c.child = asr.child
        /\ c.exit = asr.exit /\ c.stop = asr.stop /\ c.answer = asr.answer
        /\ c.request = asr.request
    BY <1>1, <1>4 DEF AsrState, TranscriptStored, TranscriptRejected
  <2> HIDE DEF c
  <2>3. AsrOK(c, heard) /\ Steady(asr, c) /\ Uncredited(asr, c)
    BY <1>1, <2>2, ProcessingOK
  <2>4. CASE asr' = c
    BY <1>1, <2>2, <2>3, <2>4, GoodFrom DEF Goes
  <2>5. CASE asr' = SignalProcessingError(c)
    <3> DEFINE b == SignalProcessingError(c)
    <3>1. AsrOK(b, heard) /\ Steady(c, b) /\ Alike(c, b) /\ Uncredited(c, b)
      BY <2>3, SignalsOK
    <3>2. asr' = b
      BY <2>5
    <3> HIDE DEF b
    <3>3. Steady(asr, b) /\ Uncredited(asr, b)
      BY <2>3, <3>1, SteadyTransitive
    <3> QED  BY <1>1, <2>2, <3>1, <3>2, <3>3, GoodFrom DEF Goes, Alike
  <2> QED  BY <2>1, <2>4, <2>5
<1> QED  BY <1>2, <1>3, <1>4

LEMMA GiveUpOK ==
  ASSUME NEW a, NEW h, AsrOK(a, h), a.stop \notin {"no", "ok"}
  PROVE  LET b == GiveUp(a) IN
         /\ AsrOK(b, h) /\ Steady(a, b) /\ Uncredited(a, b) /\ b.stop = "exit"
         /\ b.child = a.child /\ b.processing = a.processing /\ b.exit = a.exit
<1>1. PICK c : c = SignalRuntimeError(a)
  OBVIOUS
<1>2. AsrOK(c, h) /\ Steady(a, c) /\ Alike(a, c) /\ Uncredited(a, c)
  BY <1>1, SignalsOK
<1>3. PICK b : b = [c EXCEPT !.stop = "exit"]
  OBVIOUS
<1>4. GiveUp(a) = b
  BY <1>1, <1>3 DEF GiveUp
<1>5. "exit" \in AsrStops
  BY DEF AsrStops
<1>6. /\ AsrOK(b, h) /\ Steady(c, b) /\ Uncredited(c, b) /\ b.stop = "exit"
      /\ b.child = c.child /\ b.processing = c.processing /\ b.exit = c.exit
  BY <1>2, <1>3, <1>5, StopOK
<1>7. Steady(a, b) /\ Uncredited(a, b)
  BY <1>2, <1>6, SteadyTransitive
<1> QED  BY <1>2, <1>4, <1>6, <1>7 DEF Alike

\* The next request of the stop.
LEMMA AskNextOK ==
  ASSUME NEW a, NEW h, AsrOK(a, h), a.request = 0,
         NEW r, NEW s, \/ r = Drain /\ s = "drain" /\ a.stop = "queue"
                       \/ r = Shutdown /\ s = "shutdown" /\ a.stop \in {"queue", "drain"}
  PROVE  LET b == Ask([a EXCEPT !.stop = s], r) IN
         /\ AsrOK(b, h) /\ Steady(a, b) /\ Uncredited(a, b) /\ b.stop = s
         /\ b.child = a.child /\ b.processing = a.processing /\ b.exit = a.exit
<1>1. a.answer[r] = "none" /\ r \in {Drain, Shutdown} /\ s \in AsrStops
  BY DEF AsrOK, Farewells, AsrStops
<1>2. PICK c : c = [a EXCEPT !.stop = s]
  OBVIOUS
<1>3. /\ AsrOK(c, h) /\ Steady(a, c) /\ Uncredited(a, c) /\ c.stop = s
      /\ c.request = a.request /\ c.answer = a.answer /\ c.child = a.child
      /\ c.processing = a.processing /\ c.exit = a.exit
  BY <1>1, <1>2, StopOK
<1>4. PICK b : b = Ask(c, r)
  OBVIOUS
<1>5. AsrOK(b, h) /\ Steady(c, b) /\ Alike(c, b) /\ Uncredited(c, b)
  <2>1. /\ c.request = 0 /\ c.answer[r] = "none" /\ c.stop \notin {"no", "queue"}
        /\ r = Shutdown => c.stop # "drain"
    BY <1>1, <1>3, Requests
  <2> QED  BY <1>1, <1>3, <1>4, <2>1, AskOK
<1>6. Steady(a, b) /\ Uncredited(a, b)
  BY <1>3, <1>5, SteadyTransitive
<1> QED  BY <1>2, <1>3, <1>4, <1>5, <1>6 DEF Alike

LEMMA AfterDrainOK ==
  ASSUME NEW a, NEW h, AsrOK(a, h), a.request = 0, a.stop \in {"queue", "drain"},
         NEW b \in AfterDrain(a)
  PROVE  /\ AsrOK(b, h) /\ Steady(a, b) /\ Uncredited(a, b) /\ b.stop \in {"shutdown", "exit"}
         /\ b.child = a.child /\ b.processing = a.processing /\ b.exit = a.exit
<1>1. CASE b = AskShutdown(a)
  BY <1>1, AskNextOK DEF AskShutdown
<1>2. CASE b = [a EXCEPT !.stop = "exit"]
  <2>1. "exit" \in AsrStops
    BY DEF AsrStops
  <2> QED  BY <1>2, <2>1, StopOK
<1> QED  BY <1>1, <1>2 DEF AfterDrain

LEMMA AsrStopsOK ==
  ASSUME AsrInv,
         \/ StopQueueDrained \/ StopDrained \/ StopShutDown
         \/ StopTimesOut \/ StopExited \/ StopExitTimesOut
  PROVE  AsrGood
<1>1. /\ asr \in AsrState /\ AsrOK(asr, heard) /\ heard \subseteq 1 .. Shutdown
      /\ heard' = heard /\ asr.stop \notin {"no", "ok"}
  BY DEF AsrInv, AsrOK, StopQueueDrained, StopDrained, StopShutDown, StopTimesOut, StopExited,
         StopExitTimesOut
<1>2. PICK b : b = asr'
  OBVIOUS
<1>3. ASSUME AsrOK(b, heard), Steady(asr, b), Uncredited(asr, b), b.stop # "no",
             b.child = asr.child, b.processing = asr.processing, b.exit = asr.exit
      PROVE  AsrGood
  BY <1>1, <1>2, <1>3, GoodFrom DEF Goes
<1>4. CASE asr' = GiveUp(asr)
  <2>1. /\ AsrOK(b, heard) /\ Steady(asr, b) /\ Uncredited(asr, b) /\ b.stop = "exit"
        /\ b.child = asr.child /\ b.processing = asr.processing /\ b.exit = asr.exit
    BY <1>1, <1>2, <1>4, GiveUpOK
  <2> QED  BY <1>3, <2>1
<1>5. CASE asr' \in AfterDrain(asr) /\ (StopQueueDrained \/ StopDrained)
  <2>1. b \in AfterDrain(asr) /\ asr.request = 0 /\ asr.stop \in {"queue", "drain"}
    BY <1>2, <1>5 DEF StopQueueDrained, StopDrained
  <2>2. /\ AsrOK(b, heard) /\ Steady(asr, b) /\ Uncredited(asr, b)
        /\ b.stop \in {"shutdown", "exit"}
        /\ b.child = asr.child /\ b.processing = asr.processing /\ b.exit = asr.exit
    BY <1>1, <2>1, AfterDrainOK
  <2> QED  BY <1>3, <2>2
<1>6. CASE StopQueueDrained /\ asr.active
  <2>1. b = Ask([asr EXCEPT !.stop = "drain"], Drain) /\ asr.request = 0 /\ asr.stop = "queue"
    BY <1>2, <1>6 DEF StopQueueDrained
  <2>2. /\ AsrOK(b, heard) /\ Steady(asr, b) /\ Uncredited(asr, b) /\ b.stop = "drain"
        /\ b.child = asr.child /\ b.processing = asr.processing /\ b.exit = asr.exit
    BY <1>1, <2>1, AskNextOK
  <2> QED  BY <1>3, <2>2
<1>7. CASE \/ StopShutDown /\ asr' = [asr EXCEPT !.stop = "exit"]
           \/ StopExited
  <2>1. \E s \in AsrStops : /\ s \notin {"no", "ok"} \/ (s = "ok" /\ asr.exit # "none")
                            /\ s \notin {"queue", "drain"} /\ b = [asr EXCEPT !.stop = s]
    <3>1. CASE StopShutDown /\ asr' = [asr EXCEPT !.stop = "exit"]
      BY <1>2, <3>1 DEF AsrStops
    <3>2. CASE StopExited
      BY <1>2, <3>2 DEF StopExited, AsrStopOutcome, AsrStops, Settled
    <3> QED  BY <1>7, <3>1, <3>2
  <2>2. PICK s \in AsrStops : /\ s \notin {"no", "ok"} \/ (s = "ok" /\ asr.exit # "none")
                              /\ s \notin {"queue", "drain"} /\ b = [asr EXCEPT !.stop = s]
    BY <2>1
  <2>3. /\ AsrOK(b, heard) /\ Steady(asr, b) /\ Uncredited(asr, b) /\ b.stop = s
        /\ b.child = asr.child /\ b.processing = asr.processing /\ b.exit = asr.exit
    BY <1>1, <2>2, StopOK
  <2> QED  BY <1>3, <2>2, <2>3
<1>8. CASE StopExitTimesOut
  <2>1. PICK c : c = [asr EXCEPT !.killed = TRUE]
    OBVIOUS
  <2>2. c \in AsrState /\ Alike(asr, c) /\ c.answer = asr.answer /\ c.request = asr.request
    BY <1>1, <2>1 DEF AsrState, Alike
  <2>3. AsrOK(c, heard) /\ Steady(asr, c) /\ Uncredited(asr, c)
    BY <1>1, <2>2, FlagsOK
  <2>4. PICK s : s = IF asr.stop = "exit" THEN "killed" ELSE "failed"
    OBVIOUS
  <2>5. s \in AsrStops /\ s \notin {"no", "ok", "queue", "drain"}
    BY <2>4 DEF AsrStops, Settled
  <2>6. b = [c EXCEPT !.stop = s]
    BY <1>1, <1>2, <1>8, <2>1, <2>4 DEF StopExitTimesOut, AsrState
  <2>7. /\ AsrOK(b, heard) /\ Steady(c, b) /\ Uncredited(c, b) /\ b.stop = s
        /\ b.child = c.child /\ b.processing = c.processing /\ b.exit = c.exit
    BY <2>3, <2>5, <2>6, StopOK
  <2>8. Steady(asr, b) /\ Uncredited(asr, b)
    BY <2>3, <2>7, SteadyTransitive
  <2> QED  BY <1>3, <2>2, <2>5, <2>7, <2>8 DEF Alike
<1> QED
  BY <1>4, <1>5, <1>6, <1>7, <1>8 DEF StopQueueDrained, StopDrained, StopShutDown, StopTimesOut

\* The helper and the adapter by themselves.
AsrAlone ==
  \/ ReadyLine \/ BadLine \/ TranscriptLine \/ ResultLine \/ ExitLine
  \/ StopQueueDrained \/ StopDrained \/ StopShutDown \/ StopExited
  \/ RequestTimesOut \/ StopTimesOut \/ StopExitTimesOut
  \/ TranscriptStored \/ TranscriptRejected \/ WriteFails
  \/ HelperReady \/ HelperAnswers \/ HelperRefuses \/ HelperMisbehaves \/ HelperExits

LEMMA AsrAloneOK ==
  ASSUME AsrInv, AsrAlone
  PROVE  AsrGood
BY HelperOK, LinesOK, SettlesOK, AsrStopsOK DEF AsrAlone

\* The caller makes a request for a segment that it has not made before.
LEMMA SubmitOK ==
  ASSUME AsrInv, NEW s \in Segment, Submit(s), asr.answer[s] = "none", asr.request # s
  PROVE  /\ AsrInv' /\ Alike(asr, asr') /\ Uncredited(asr, asr') /\ heard' = heard
         /\ \A r \in 1 .. Shutdown : asr.answer[r] = "ok" => asr'.answer[r] = "ok"
         /\ \A r \in Segment \ {s} : /\ asr'.answer[r] = asr.answer[r]
                                     /\ asr'.request = r => asr.request = r
<1>1. /\ asr \in AsrState /\ AsrOK(asr, heard) /\ heard \subseteq 1 .. Shutdown
      /\ heard' = heard
  BY DEF AsrInv, AsrOK, Submit
<1>2. s \in 1 .. Shutdown /\ s \in 0 .. Shutdown /\ s # Drain /\ s # Shutdown /\ s # 0
  BY Requests
<1>3. PICK b : b = asr'
  OBVIOUS
<1>4. CASE ~asr.child \/ asr.stop # "no"
  <2>1. b = [asr EXCEPT !.answer = [asr.answer EXCEPT ![s] = "failed"]]
    BY <1>1, <1>3, <1>4 DEF Submit, AsrState
  <2> DEFINE f == [asr.answer EXCEPT ![s] = "failed"]
  <2>2. /\ f \in [1 .. Shutdown -> Outcomes] /\ f[s] = "failed"
        /\ \A r \in 1 .. Shutdown : r # s => f[r] = asr.answer[r]
    BY <1>1, <1>2 DEF AsrState, Outcomes
  <2>3. b = [asr EXCEPT !.answer = f]
    BY <2>1
  <2> HIDE DEF f
  <2>4. /\ b \in AsrState /\ b.answer = f /\ b.request = asr.request /\ Alike(asr, b)
    BY <1>1, <2>2, <2>3 DEF AsrState, Alike
  <2>5. asr.request \in 0 .. Shutdown
    BY <1>1 DEF AsrState
  <2>6. Credited(b, heard) /\ Output(b, heard) /\ Exits(b)
    BY <1>1, <2>2, <2>4 DEF AsrOK, Credited, Output, Exits, Alike
  <2>7. Farewells(b)
    BY <1>1, <1>2, <2>2, <2>4, <2>5, Requests DEF AsrOK, Farewells, Alike
  <2>8. AsrOK(b, heard)
    BY <2>4, <2>6, <2>7 DEF AsrOK
  <2>9. Uncredited(asr, b)
    BY <2>2, <2>4 DEF Uncredited
  <2> QED  BY <1>1, <1>3, <2>2, <2>4, <2>8, <2>9, Requests DEF AsrInv
<1>5. CASE asr.child /\ asr.stop = "no"
  <2>1. PICK c : c = [asr EXCEPT !.request = s]
    OBVIOUS
  <2>2. c \in AsrState /\ Alike(asr, c) /\ c.answer = asr.answer /\ c.request = s
    BY <1>1, <1>2, <2>1 DEF AsrState, Alike
  <2>3. AsrOK(c, heard)
    BY <1>1, <1>2, <2>2 DEF AsrOK, Credited, Output, Exits, Farewells, Alike
  <2>4. b = Execute(c)
    BY <1>3, <1>5, <2>1 DEF Submit, Ask
  <2>5. AsrOK(b, heard) /\ Steady(c, b) /\ Alike(c, b) /\ Uncredited(c, b)
    BY <2>3, <2>4, ExecuteOK
  <2>6. Alike(asr, b) /\ Uncredited(asr, b)
    BY <2>2, <2>5 DEF Alike, Uncredited
  <2>7. /\ \A r \in 1 .. Shutdown : asr.answer[r] = "ok" => b.answer[r] = "ok"
        /\ \A r \in Segment \ {s} : /\ b.answer[r] = asr.answer[r]
                                    /\ b.request = r => asr.request = r
    BY <2>2, <2>5 DEF Steady
  <2> QED  BY <1>1, <1>3, <2>5, <2>6, <2>7 DEF AsrInv
<1> QED  BY <1>4, <1>5

\* The callback that opens the recording ends.
LEMMA ReadyEndsOK ==
  ASSUME AsrInv, asr' = [asr EXCEPT !.processing = "idle"], heard' = heard
  PROVE  /\ AsrInv' /\ Steady(asr, asr') /\ Uncredited(asr, asr')
         /\ asr'.processing = "idle" /\ asr'.exit = asr.exit /\ asr'.stop = asr.stop
         /\ asr'.child = asr.child
<1>1. asr \in AsrState /\ AsrOK(asr, heard) /\ heard \subseteq 1 .. Shutdown
  BY DEF AsrInv, AsrOK
<1>2. PICK b : b = asr'
  OBVIOUS
<1>3. /\ b \in AsrState /\ b.processing = "idle" /\ b.lines = asr.lines /\ b.proc = asr.proc
      /\ b.child = asr.child /\ b.exit = asr.exit /\ b.stop = asr.stop
      /\ b.answer = asr.answer /\ b.request = asr.request
  BY <1>1, <1>2 DEF AsrState
<1>4. AsrOK(b, heard) /\ Steady(asr, b) /\ Uncredited(asr, b)
  BY <1>1, <1>3, ProcessingOK
<1> QED  BY <1>1, <1>2, <1>3, <1>4 DEF AsrInv

\* The callback of the exit ends.
LEMMA ExitedOK ==
  ASSUME AsrInv, Exited, asr.processing = "exit", heard' = heard
  PROVE  /\ AsrInv' /\ Steady(asr, asr') /\ Uncredited(asr, asr')
         /\ asr'.processing = "idle" /\ asr'.stop = asr.stop /\ asr'.child = asr.child
<1>1. asr \in AsrState /\ AsrOK(asr, heard) /\ heard \subseteq 1 .. Shutdown
  BY DEF AsrInv, AsrOK
<1>2. PICK b : b = asr'
  OBVIOUS
<1>3. /\ b \in AsrState /\ b.processing = "idle" /\ b.lines = asr.lines /\ b.proc = asr.proc
      /\ b.child = asr.child /\ b.stop = asr.stop /\ b.exit \in {"resolved", "rejected"}
      /\ b.answer = asr.answer /\ b.request = asr.request
  BY <1>1, <1>2 DEF AsrState, Exited
<1>4. AsrOK(b, heard) /\ Steady(asr, b) /\ Uncredited(asr, b)
  BY <1>1, <1>3 DEF AsrOK, Credited, Output, Exits, Farewells, Steady, Uncredited
<1> QED  BY <1>1, <1>2, <1>3, <1>4 DEF AsrInv

LEMMA StopAsrOK ==
  ASSUME AsrInv, StopAsr
  PROVE  /\ AsrInv' /\ Steady(asr, asr') /\ Uncredited(asr, asr')
         /\ asr'.processing = asr.processing /\ asr'.exit = asr.exit
         /\ asr'.stop = "queue" /\ asr'.child = asr.child
<1>1. AsrOK(asr, heard) /\ heard \subseteq 1 .. Shutdown /\ heard' = heard
  BY DEF AsrInv, StopAsr
<1>2. PICK b : b = asr'
  OBVIOUS
<1>3. b = [asr EXCEPT !.stop = "queue"] /\ asr.stop = "no" /\ "queue" \in AsrStops
  BY <1>2 DEF StopAsr, AsrStops
<1>4. /\ AsrOK(b, heard) /\ Steady(asr, b) /\ Uncredited(asr, b) /\ b.stop = "queue"
      /\ b.child = asr.child /\ b.processing = asr.processing /\ b.exit = asr.exit
  BY <1>1, <1>3, StopOK
<1> QED  BY <1>1, <1>2, <1>4 DEF AsrInv

LEMMA AsrStarts ==
  ASSUME AsrInit
  PROVE  /\ AsrInv /\ asr.processing = "idle" /\ asr.exit = "none" /\ asr.stop = "no"
         /\ asr.request = 0 /\ \A r \in 1 .. Shutdown : asr.answer[r] = "none"
<1>1. <<>> \in Seq(LineState) /\ Len(<<>>) = 0
  BY EmptySeq
<1> DEFINE f == [r \in 1 .. Shutdown |-> "none"]
<1>2. f \in [1 .. Shutdown -> Outcomes] /\ \A r \in 1 .. Shutdown : f[r] = "none"
  BY DEF Outcomes
<1>3. asr.answer = f
  BY DEF AsrInit
<1> HIDE DEF f
<1>4. /\ asr.lines = <<>> /\ asr.request = 0 /\ asr.child /\ asr.processing = "idle"
      /\ asr.exit = "none" /\ asr.stop = "no"
  BY DEF AsrInit
<1>5. asr \in AsrState
  BY <1>1, <1>2, <1>3, Requests DEF AsrInit, AsrState, ProcState, AsrStops, f
<1>6. AsrOK(asr, heard)
  BY <1>1, <1>2, <1>3, <1>4, <1>5, Requests
     DEF AsrOK, Credited, Output, Exits, Farewells
<1> QED  BY <1>2, <1>3, <1>4, <1>6 DEF AsrInv, AsrInit

-----------------------------------------------------------------------------
(* The helper of the system captions: no caption is lost on its way.       *)

CapLine == {"ready", "reconnecting", "unavailable", "caption", "exit"}
CapState ==
  [proc : {"running", "flushed", "exited"}, killed : BOOLEAN, child : BOOLEAN, told : BOOLEAN,
   wrote : Nat, captions : Nat, lines : Seq(CapLine),
   processing : {"idle", "resolved", "rejected"} \cup CapLine, stored : Nat, error : BOOLEAN,
   exit : {"none", "flushed", "cut"}, stop : {"no", "waiting"} \cup Settled]

CaptionsIn(q) == {i \in 1 .. Len(q) : q[i] = "caption"}

\* The exit is the last thing that is processed, and the stop waits for it.
CapLast(c) ==
  /\ \A i \in 1 .. Len(c.lines) : c.lines[i] = "exit" => i = Len(c.lines) /\ c.proc = "exited"
  /\ c.processing \in {"exit", "resolved", "rejected"} => c.lines = <<>> /\ c.proc = "exited"
  /\ c.processing = "resolved" => ~c.error
  /\ c.stop = "ok" => c.processing = "resolved"
  /\ c.exit # "none" <=> c.proc = "exited"
  /\ c.proc = "flushed" \/ c.exit = "flushed" => c.told
  /\ c.told => c.stop # "no"

\* Until a callback rejects, a caption is stored, being stored, or not processed yet.
CaptionsAccounted(c) ==
  ~c.error => c.captions = c.stored + Cardinality(CaptionsIn(c.lines))
                             + IF c.processing = "caption" THEN 1 ELSE 0

CapInv == cap \in CapState /\ CapLast(cap) /\ CaptionsAccounted(cap)

-----------------------------------------------------------------------------
(* The application.                                                        *)

SourceState ==
  [kind : Kinds, status : {"starting", "recording", "failed"}, stopRequested : BOOLEAN]
RuntimeState == [attached : BOOLEAN, timer : BOOLEAN, error : BOOLEAN]
CaptureState == {"none", "opening", "opened", "attached", "loose", "failed"}
RecorderState == [buffered : Seq(Segment), chunk : SUBSET Segment]
StopperState ==
  [at : {"no", "start", "stream", "flush", "flushed", "adapter", "ok", "failed"}, failed : BOOLEAN]
ExiterState ==
  [at : {"no", "start", "stream", "flush", "flushed", "done"}, failed : BOOLEAN]

AppType ==
  /\ source \in SourceState /\ runtime \in RuntimeState /\ capture \in CaptureState
  /\ recorder \in RecorderState /\ saved \subseteq Segment
  /\ doing \in [Segment -> {"none", "saving", "asking"}]
  /\ stopper \in StopperState /\ exiter \in ExiterState

\* How far the source, the runtime and the two that stop it can be from each other.
Life ==
  /\ source.status = "recording" => capture = "attached"
  /\ Local /\ capture = "attached" => source.status \in {"recording", "failed"}
  /\ stopper.at # "no" => source.stopRequested \/ source.status = "failed"
  /\ exiter.at # "no" => ~runtime.attached
  /\ runtime.attached \/ source.status = "failed" \/ exiter.at # "no"

\* What the two that stop the runtime know of a failure.
Failures ==
  /\ stopper.at \in {"no", "start", "stream", "ok"} => ~stopper.failed
  /\ stopper.at = "failed" => stopper.failed
  /\ exiter.at \in {"no", "start", "stream"} => ~exiter.failed
  /\ exiter.at = "done" /\ exiter.failed => runtime.error
  /\ /\ capture = "attached" /\ ~stopper.failed
     /\ stopper.at \in {"flush", "flushed", "adapter", "ok"}
     => session.stop = "ok"

\* Where the adapter is when the application is somewhere.
Links ==
  /\ asr.stop # "no" => stopper.at \in {"adapter", "ok", "failed"}
  /\ cap.stop # "no" => stopper.at \in {"adapter", "ok", "failed"}
  /\ stopper.at = "ok" => AdapterStop = "ok"
  /\ Local => cap.processing = "idle"
  /\ ~Local => asr.processing = "idle"
  /\ Local /\ capture \in {"opening", "opened", "loose"} => asr.processing = "ready"
  /\ exiter.at # "no" => IF Local THEN ~asr.child ELSE cap.proc = "exited"
  /\ exiter.at \in {"start", "stream", "flush", "flushed"}
       => IF Local THEN asr.processing = "exit" ELSE cap.processing = "exit"

\* Where the callback of a segment is, and what its request has come to.
Callbacks ==
  /\ \A s \in calls.active : s <= calls.started
  /\ \A s \in Segment : doing[s] # "none" => s \in calls.active
  /\ recorder.chunk # {} => \E s \in Segment : doing[s] = "saving"
  /\ asr.request \in Segment => doing[asr.request] = "asking"
  /\ \A s \in Segment : asr.answer[s] # "none"
       => s <= calls.started /\ (s \in calls.active => doing[s] = "asking")

\* The sound can still be kept.
Hopeful ==
  /\ source.status # "failed" /\ ~session.failed /\ ~stopper.failed /\ ~exiter.failed
  /\ exiter.at = "no" \/ Farewell
  /\ capture = "attached" \/ (capture \in {"none", "opening", "opened"} /\ MayAttach)

\* The segments that are called and recorded.
Recorded == {s \in Segment : s \in calls.active /\ doing[s] # "none"}

Account ==
  /\ calls.done \cup Recorded = saved \cup recorder.chunk \cup Segments(recorder.buffered)
  /\ Local => \A s \in calls.done : asr.answer[s] = "ok"
  /\ stopper.at \in {"flushed", "adapter", "ok"} => recorder.buffered = <<>>

\* What holds in every state, whatever has failed.
Base == WasapiInv /\ AsrInv /\ CapInv /\ AppType /\ Life /\ Failures /\ Links /\ Callbacks

\* The invariant: while the sound can still be kept, the account of it is right.
JointInv == Base /\ (Hopeful => Account)

-----------------------------------------------------------------------------
(* The steps, by what they are about.                                      *)

RecordingAlone ==
  /\ \/ LoopReads \/ LoopWakes \/ LoopStopped \/ LoopDone
     \/ DeliverNothing \/ Deliver \/ FailureInterrupts
     \/ StopStreamSettles \/ StopLoopSettles
     \/ StartLoop \/ StreamStopTimesOut \/ StopDrainTimesOut
     \/ DeviceSends \/ DeviceCompletes \/ DeviceFails \/ DeviceCloses
  /\ UNCHANGED <<asrVars, cap, app>>

RecogniserAlone == Local /\ AsrAlone /\ UNCHANGED <<wasapi, cap, app>>

CapAlone ==
  \/ SkipLine \/ Process \/ StopCapSettles \/ StopKills \/ CapFlushes \/ CapExits
  \/ \E kind \in {"ready", "reconnecting", "unavailable", "caption"} : CapWrites(kind)

CaptionsAlone == ~Local /\ CapAlone /\ UNCHANGED <<wasapi, asrVars, app>>

SegmentStep(s) ==
  \/ SegmentIgnored(s) \/ RecordSegment(s) \/ SegmentAnswered(s)
  \/ SegmentSaved(s) \/ SegmentNotSaved(s)

CaptureStep ==
  \/ OpenCapture \/ CaptureOpens \/ CaptureStartFails
  \/ AttachCapture \/ LeaveCapture \/ LooseCaptureStopped

StatusStep ==
  \/ StatusReady \/ StatusReconnecting \/ StatusUnavailable
  \/ CaptionStored \/ CaptionRejected

EndStep == StartupTimesOut \/ CaptureReportsFailure \/ EndSession

ExitStep ==
  \/ ExitNoted \/ ExitStopsCapture \/ ExiterStopsCapture \/ ExiterWaits
  \/ ExiterFlushes \/ ExiterEnds

StopStep ==
  \/ StopperStopsCapture \/ StopperWaits \/ StopperFlushes
  \/ StopperStopsAdapter \/ StopperEnds

LEMMA StepsBySubject ==
  ASSUME [Next]_vars
  PROVE  \/ RecordingAlone \/ RecogniserAlone \/ CaptionsAlone \/ UNCHANGED vars
         \/ \E s \in Segment : SegmentStep(s)
         \/ CaptureStep \/ StatusStep \/ EndStep \/ ExitStep \/ StopStep
<1>1. \/ RecordingSettles \/ RecogniserSettles \/ HelperSettles \/ AppSettles
      \/ RecordingTimers \/ RecogniserTimers \/ HelperTimers \/ StartupTimesOut
      \/ Stores \/ Processes \/ EndSession \/ UNCHANGED vars
  BY DEF Next, Promises, Events
<1>2. CASE RecordingSettles \/ RecordingTimers
  BY <1>2 DEF RecordingSettles, RecordingTimers, RecordingAlone
<1>3. CASE RecogniserSettles \/ RecogniserTimers
  BY <1>3 DEF RecogniserSettles, RecogniserTimers, RecogniserAlone, AsrAlone
<1>4. CASE HelperSettles \/ HelperTimers
  BY <1>4 DEF HelperSettles, HelperTimers, CaptionsAlone, CapAlone
<1>5. CASE AppSettles
  BY <1>5 DEF AppSettles, CallbackRuns, SegmentStep, CaptureStep, StatusStep, ExitStep, StopStep
<1>6. CASE Stores
  BY <1>6 DEF Stores, SegmentStep, CaptureStep, StatusStep, EndStep, ExitStep, StopStep,
     RecogniserAlone, AsrAlone
<1>7. CASE Processes
  BY <1>7 DEF Processes, CaptureStep, RecordingAlone, RecogniserAlone, AsrAlone, CaptionsAlone,
     CapAlone
<1>8. CASE StartupTimesOut \/ EndSession
  BY <1>8 DEF EndStep
<1> QED  BY <1>1, <1>2, <1>3, <1>4, <1>5, <1>6, <1>7, <1>8

-----------------------------------------------------------------------------
(* The helper of the system captions.                                      *)

\* A line is written behind the others.
LEMMA CaptionAppended ==
  ASSUME NEW q \in Seq(CapLine), NEW x \in CapLine
  PROVE  /\ Append(q, x) \in Seq(CapLine) /\ Len(Append(q, x)) = Len(q) + 1
         /\ \A i \in 1 .. Len(q) : Append(q, x)[i] = q[i]
         /\ Append(q, x)[Len(q) + 1] = x
         /\ Cardinality(CaptionsIn(Append(q, x)))
              = Cardinality(CaptionsIn(q)) + IF x = "caption" THEN 1 ELSE 0
<1> DEFINE n == Len(q)  p == Append(q, x)
<1>1. /\ p \in Seq(CapLine) /\ Len(p) = n + 1 /\ n \in Nat
      /\ \A i \in 1 .. n : p[i] = q[i]
      /\ p[n + 1] = x
  BY AppendProperties, LenProperties
<1> HIDE DEF p
<1>2. IsFiniteSet(CaptionsIn(q))
  <2>1. IsFiniteSet(1 .. n)
    BY <1>1, FS_Interval
  <2> QED  BY <2>1, FS_Subset DEF CaptionsIn
<1>3. CASE x = "caption"
  <2>1. CaptionsIn(p) = CaptionsIn(q) \cup {n + 1} /\ n + 1 \notin CaptionsIn(q)
    BY <1>1, <1>3 DEF CaptionsIn
  <2>2. Cardinality(CaptionsIn(p)) = Cardinality(CaptionsIn(q)) + 1
    BY <1>2, <2>1, FS_AddElement
  <2> QED  BY <1>1, <1>3, <2>2 DEF p
<1>4. CASE x # "caption"
  <2>1. CaptionsIn(p) = CaptionsIn(q)
    BY <1>1, <1>4 DEF CaptionsIn
  <2>2. Cardinality(CaptionsIn(q)) \in Nat
    BY <1>2, FS_CardinalityType
  <2>3. Cardinality(CaptionsIn(p)) = Cardinality(CaptionsIn(q)) + 0
    BY <2>1, <2>2
  <2> QED  BY <1>1, <1>4, <2>3 DEF p
<1> QED  BY <1>3, <1>4

\* A line is taken from the front.
LEMMA CaptionTaken ==
  ASSUME NEW q \in Seq(CapLine), q # <<>>
  PROVE  /\ Tail(q) \in Seq(CapLine) /\ Head(q) \in CapLine /\ Head(q) = q[1]
         /\ Len(q) \in Nat /\ 1 \in 1 .. Len(q) /\ Len(Tail(q)) = Len(q) - 1
         /\ \A i \in 1 .. Len(Tail(q)) : Tail(q)[i] = q[i + 1]
         /\ Cardinality(CaptionsIn(q))
              = Cardinality(CaptionsIn(Tail(q))) + IF Head(q) = "caption" THEN 1 ELSE 0
<1> DEFINE n == Len(q)  p == Tail(q)
<1>1. /\ p \in Seq(CapLine) /\ Len(p) = n - 1 /\ n \in Nat \ {0}
      /\ Head(q) \in CapLine /\ Head(q) = q[1]
      /\ \A i \in 1 .. Len(p) : p[i] = q[i + 1]
  BY HeadTailProperties, LenProperties, EmptySeq
<1> HIDE DEF p, n
<1> DEFINE T == {i \in 2 .. n : q[i] = "caption"}  f == [i \in CaptionsIn(p) |-> i + 1]
<1>2. IsFiniteSet(CaptionsIn(p)) /\ IsFiniteSet(T)
  <2>1. IsFiniteSet(1 .. Len(p)) /\ IsFiniteSet(2 .. n)
    BY <1>1, FS_Interval
  <2> QED  BY <2>1, FS_Subset DEF CaptionsIn
<1>3. f \in Bijection(CaptionsIn(p), T)
  <2>1. \A i \in CaptionsIn(p) : i + 1 \in T
    BY <1>1 DEF CaptionsIn
  <2>2. \A j \in T : j - 1 \in CaptionsIn(p) /\ (j - 1) + 1 = j
    BY <1>1 DEF CaptionsIn
  <2>3. \A i, j \in CaptionsIn(p) : i + 1 = j + 1 => i = j
    BY <1>1 DEF CaptionsIn
  <2> QED  BY <2>1, <2>2, <2>3 DEF Bijection, Injection, Surjection, IsInjective
<1>4. Cardinality(CaptionsIn(p)) = Cardinality(T)
  <2>1. ExistsBijection(CaptionsIn(p), T)
    BY <1>3 DEF ExistsBijection
  <2> QED  BY <1>2, <2>1, FS_Bijection
<1>5. Cardinality(T) \in Nat
  BY <1>2, FS_CardinalityType
<1>6. CASE Head(q) = "caption"
  <2>1. CaptionsIn(q) = T \cup {1} /\ 1 \notin T
    BY <1>1, <1>6 DEF CaptionsIn, n
  <2>2. Cardinality(CaptionsIn(q)) = Cardinality(T) + 1
    BY <1>2, <2>1, FS_AddElement
  <2> QED  BY <1>1, <1>4, <1>6, <2>2 DEF p, n
<1>7. CASE Head(q) # "caption"
  <2>1. CaptionsIn(q) = T
    BY <1>1, <1>7 DEF CaptionsIn, n
  <2>2. Cardinality(CaptionsIn(q)) = Cardinality(T) + 0
    BY <1>5, <2>1
  <2> QED  BY <1>1, <1>4, <1>7, <2>2 DEF p, n
<1> QED  BY <1>6, <1>7

\* What no step takes back: the stop, the exit, and a callback of the exit that runs.
CapSteady ==
  /\ cap'.stop = "no" <=> cap.stop = "no"
  /\ cap.stop = "ok" => cap'.stop = "ok"
  /\ cap.proc = "exited" => cap'.proc = "exited" /\ cap'.exit = cap.exit
  /\ cap.processing = "exit" => cap'.processing = "exit"

\* The helper writes a line and goes on, or exits.
LEMMA CapWritesOK ==
  ASSUME CapInv, cap.proc # "exited",
         NEW x \in CapLine \ {"exit"}, NEW p \in {"running", "flushed"}, NEW w \in Nat,
         p = "flushed" => cap.told,
         cap' = [cap EXCEPT !.proc = p, !.wrote = w, !.lines = Append(cap.lines, x),
                            !.captions = cap.captions + IF x = "caption" THEN 1 ELSE 0]
  PROVE  CapInv' /\ CapSteady
<1> DEFINE q == Append(cap.lines, x)  c == cap.captions + IF x = "caption" THEN 1 ELSE 0
<1>1. cap \in CapState /\ CapLast(cap) /\ CaptionsAccounted(cap)
  BY DEF CapInv
<1>2. cap.lines \in Seq(CapLine) /\ cap.captions \in Nat /\ x \in CapLine
  BY <1>1 DEF CapState
<1>3. /\ q \in Seq(CapLine) /\ Len(q) = Len(cap.lines) + 1
      /\ \A i \in 1 .. Len(cap.lines) : q[i] = cap.lines[i]
      /\ q[Len(cap.lines) + 1] = x
      /\ Cardinality(CaptionsIn(q))
           = Cardinality(CaptionsIn(cap.lines)) + IF x = "caption" THEN 1 ELSE 0
  BY <1>2, CaptionAppended
<1>4. Len(cap.lines) \in Nat /\ Cardinality(CaptionsIn(cap.lines)) \in Nat /\ cap.stored \in Nat
  <2>1. Len(cap.lines) \in Nat
    BY <1>2, LenProperties
  <2>2. IsFiniteSet(1 .. Len(cap.lines))
    BY <2>1, FS_Interval
  <2>3. IsFiniteSet(CaptionsIn(cap.lines))
    BY <2>2, FS_Subset DEF CaptionsIn
  <2> QED  BY <1>1, <2>1, <2>3, FS_CardinalityType DEF CapState
<1> HIDE DEF q
<1>5. c \in Nat
  BY <1>2
<1> HIDE DEF c
<1>6. cap' = [cap EXCEPT !.proc = p, !.wrote = w, !.lines = q, !.captions = c]
  BY DEF q, c
<1>7. /\ cap' \in CapState /\ cap'.lines = q /\ cap'.captions = c /\ cap'.proc = p
      /\ cap'.processing = cap.processing /\ cap'.stored = cap.stored /\ cap'.error = cap.error
      /\ cap'.exit = cap.exit /\ cap'.told = cap.told /\ cap'.stop = cap.stop
  BY <1>1, <1>3, <1>5, <1>6 DEF CapState
<1>8. CapLast(cap')
  <2>1. \A i \in 1 .. Len(q) : q[i] # "exit"
    BY <1>1, <1>3, <1>4 DEF CapLast
  <2> QED  BY <1>1, <1>7, <2>1 DEF CapLast
<1>9. CaptionsAccounted(cap')
  <2>1. c = cap.captions + IF x = "caption" THEN 1 ELSE 0
    BY DEF c
  <2>2. SUFFICES ASSUME ~cap.error
                 PROVE  c = cap.stored + Cardinality(CaptionsIn(q))
                              + IF cap.processing = "caption" THEN 1 ELSE 0
    BY <1>7 DEF CaptionsAccounted
  <2>3. cap.captions = cap.stored + Cardinality(CaptionsIn(cap.lines))
                         + IF cap.processing = "caption" THEN 1 ELSE 0
    BY <1>1, <2>2 DEF CaptionsAccounted
  <2> DEFINE m == Cardinality(CaptionsIn(cap.lines))  k == Cardinality(CaptionsIn(q))
             u == IF x = "caption" THEN 1 ELSE 0
             v == IF cap.processing = "caption" THEN 1 ELSE 0
  <2>4. /\ cap.captions = cap.stored + m + v /\ c = cap.captions + u /\ k = m + u
        /\ m \in Nat /\ cap.stored \in Nat /\ u \in Nat /\ v \in Nat
    BY <1>3, <1>4, <2>1, <2>3
  <2> HIDE DEF m, k, u, v
  <2>5. c = cap.stored + k + v
    BY <2>4
  <2> QED  BY <2>5 DEF k, v
<1> QED  BY <1>7, <1>8, <1>9 DEF CapInv, CapSteady

LEMMA CapExitsOK ==
  ASSUME CapInv, CapExits
  PROVE  CapInv' /\ CapSteady
<1> DEFINE q == Append(cap.lines, "exit")
           e == IF cap.proc = "flushed" /\ ~cap.killed THEN "flushed" ELSE "cut"
<1>1. cap \in CapState /\ CapLast(cap) /\ CaptionsAccounted(cap) /\ cap.proc # "exited"
  BY DEF CapInv, CapExits
<1>2. cap.lines \in Seq(CapLine) /\ "exit" \in CapLine
  BY <1>1 DEF CapState, CapLine
<1>3. /\ q \in Seq(CapLine) /\ Len(q) = Len(cap.lines) + 1
      /\ \A i \in 1 .. Len(cap.lines) : q[i] = cap.lines[i]
      /\ q[Len(cap.lines) + 1] = "exit"
      /\ Cardinality(CaptionsIn(q)) = Cardinality(CaptionsIn(cap.lines)) + 0
  BY <1>2, CaptionAppended
<1>4. Len(cap.lines) \in Nat /\ Cardinality(CaptionsIn(cap.lines)) \in Nat
  <2>1. Len(cap.lines) \in Nat
    BY <1>2, LenProperties
  <2>2. IsFiniteSet(1 .. Len(cap.lines))
    BY <2>1, FS_Interval
  <2>3. IsFiniteSet(CaptionsIn(cap.lines))
    BY <2>2, FS_Subset DEF CaptionsIn
  <2> QED  BY <1>1, <2>1, <2>3, FS_CardinalityType DEF CapState
<1> HIDE DEF q
<1>5. e \in {"flushed", "cut"} /\ (e = "flushed" => cap.proc = "flushed")
  OBVIOUS
<1> HIDE DEF e
<1>6. cap' = [cap EXCEPT !.proc = "exited", !.lines = q, !.exit = e]
  BY DEF CapExits, q, e
<1>7. /\ cap' \in CapState /\ cap'.lines = q /\ cap'.captions = cap.captions
      /\ cap'.proc = "exited" /\ cap'.exit = e
      /\ cap'.processing = cap.processing /\ cap'.stored = cap.stored /\ cap'.error = cap.error
      /\ cap'.told = cap.told /\ cap'.stop = cap.stop
  BY <1>1, <1>3, <1>5, <1>6 DEF CapState
<1>8. CapLast(cap')
  <2>1. \A i \in 1 .. Len(q) : q[i] = "exit" => i = Len(q)
    BY <1>1, <1>3, <1>4 DEF CapLast
  <2> QED  BY <1>1, <1>5, <1>7, <2>1 DEF CapLast
<1>9. CaptionsAccounted(cap')
  BY <1>1, <1>3, <1>4, <1>7 DEF CaptionsAccounted
<1> QED  BY <1>1, <1>7, <1>8, <1>9 DEF CapInv, CapSteady

\* The queue takes a line.
LEMMA CapQueueOK ==
  ASSUME CapInv, SkipLine \/ Process
  PROVE  CapInv' /\ CapSteady
<1> DEFINE q == Tail(cap.lines)  x == Head(cap.lines)
<1>1. /\ cap \in CapState /\ CapLast(cap) /\ CaptionsAccounted(cap)
      /\ cap.processing = "idle" /\ cap.lines # <<>>
  BY DEF CapInv, SkipLine, Process
<1>2. cap.lines \in Seq(CapLine)
  BY <1>1 DEF CapState
<1>3. /\ q \in Seq(CapLine) /\ x \in CapLine /\ x = cap.lines[1]
      /\ Len(cap.lines) \in Nat /\ 1 \in 1 .. Len(cap.lines) /\ Len(q) = Len(cap.lines) - 1
      /\ \A i \in 1 .. Len(q) : q[i] = cap.lines[i + 1]
      /\ Cardinality(CaptionsIn(cap.lines))
           = Cardinality(CaptionsIn(q)) + IF x = "caption" THEN 1 ELSE 0
  BY <1>1, <1>2, CaptionTaken
<1>4. Cardinality(CaptionsIn(q)) \in Nat
  <2>1. Len(q) \in Nat
    BY <1>3, LenProperties
  <2>2. IsFiniteSet(1 .. Len(q))
    BY <2>1, FS_Interval
  <2>3. IsFiniteSet(CaptionsIn(q))
    BY <2>2, FS_Subset DEF CaptionsIn
  <2> QED  BY <2>3, FS_CardinalityType
<1>5. x = "exit" => q = <<>> /\ cap.proc = "exited"
  BY <1>1, <1>3, EmptySeq DEF CapLast
<1>6. cap' = IF Skipped THEN [cap EXCEPT !.lines = q]
             ELSE IF x = "exit" THEN [cap EXCEPT !.lines = q, !.processing = x, !.child = FALSE]
             ELSE [cap EXCEPT !.lines = q, !.processing = x]
  BY <1>1 DEF SkipLine, Process, CapState
<1>7. Skipped => cap.error /\ x # "exit"
  BY DEF Skipped
<1> HIDE DEF q, x
<1>8. /\ cap' \in CapState /\ cap'.lines = q
      /\ cap'.processing = IF Skipped THEN cap.processing ELSE x
      /\ cap'.captions = cap.captions /\ cap'.stored = cap.stored /\ cap'.error = cap.error
      /\ cap'.exit = cap.exit /\ cap'.told = cap.told /\ cap'.stop = cap.stop
      /\ cap'.proc = cap.proc
  BY <1>1, <1>3, <1>6 DEF CapState
<1>9. CapLast(cap')
  <2>1. \A i \in 1 .. Len(q) : q[i] = "exit" => i = Len(q) /\ cap.proc = "exited"
    BY <1>1, <1>3 DEF CapLast
  <2>2. x \notin {"resolved", "rejected"}
    BY <1>3 DEF CapLine
  <2> QED  BY <1>1, <1>5, <1>7, <1>8, <2>1, <2>2 DEF CapLast
<1>10. CaptionsAccounted(cap')
  <2>1. cap.captions \in Nat /\ cap.stored \in Nat
    BY <1>1 DEF CapState
  <2> QED  BY <1>1, <1>3, <1>4, <1>7, <1>8, <2>1 DEF CaptionsAccounted
<1> QED  BY <1>1, <1>8, <1>9, <1>10 DEF CapInv, CapSteady

LEMMA CapAloneOK ==
  ASSUME CapInv, CapAlone
  PROVE  CapInv' /\ CapSteady
<1>1. cap \in CapState /\ CapLast(cap) /\ CaptionsAccounted(cap)
  BY DEF CapInv
<1>2. CASE SkipLine \/ Process
  BY <1>2, CapQueueOK
<1>3. CASE CapExits
  BY <1>3, CapExitsOK
<1>4. CASE CapFlushes
  <2>1. "caption" \in CapLine \ {"exit"} /\ cap.proc # "exited" /\ cap.told /\ cap.wrote \in Nat
    BY <1>1, <1>4 DEF CapFlushes, CapLine, CapState
  <2>2. cap' = [cap EXCEPT !.proc = "flushed", !.wrote = cap.wrote,
                           !.lines = Append(cap.lines, "caption"),
                           !.captions = cap.captions + IF "caption" = "caption" THEN 1 ELSE 0]
    BY <1>1, <1>4 DEF CapFlushes, CapState
  <2> QED  BY <2>1, <2>2, CapWritesOK
<1>5. ASSUME NEW kind \in {"ready", "reconnecting", "unavailable", "caption"}, CapWrites(kind)
      PROVE  CapInv' /\ CapSteady
  <2>1. /\ kind \in CapLine \ {"exit"} /\ cap.proc = "running" /\ cap.wrote + 1 \in Nat
        /\ cap.captions \in Nat
    BY <1>1, <1>5 DEF CapWrites, CapLine, CapState
  <2>2. cap' = [cap EXCEPT !.proc = "running", !.wrote = cap.wrote + 1,
                           !.lines = Append(cap.lines, kind),
                           !.captions = cap.captions + IF kind = "caption" THEN 1 ELSE 0]
    <3>1. cap' = [cap EXCEPT !.wrote = cap.wrote + 1, !.lines = Append(cap.lines, kind),
                             !.captions = IF kind = "caption" THEN cap.captions + 1
                                          ELSE cap.captions]
      BY <1>5 DEF CapWrites
    <3>2. (IF kind = "caption" THEN cap.captions + 1 ELSE cap.captions)
            = cap.captions + IF kind = "caption" THEN 1 ELSE 0
      BY <2>1
    <3>3. [cap EXCEPT !.proc = "running"] = cap
      BY <1>1, <2>1 DEF CapState
    <3> QED  BY <1>1, <3>1, <3>2, <3>3 DEF CapState
  <2> QED  BY <2>1, <2>2, CapWritesOK
<1>6. CASE StopCapSettles \/ StopKills
  <2>1. /\ cap' \in CapState
        /\ cap'.lines = cap.lines /\ cap'.processing = cap.processing
        /\ cap'.captions = cap.captions /\ cap'.stored = cap.stored /\ cap'.error = cap.error
        /\ cap'.exit = cap.exit /\ cap'.told = cap.told /\ cap'.proc = cap.proc
        /\ cap'.stop # "no" /\ cap.stop = "waiting"
        /\ cap'.stop = "ok" => cap.processing = "resolved"
    BY <1>1, <1>6 DEF StopCapSettles, StopKills, CapState, Settled
  <2> QED  BY <1>1, <2>1 DEF CapInv, CapLast, CaptionsAccounted, CapSteady
<1> QED  BY <1>2, <1>3, <1>4, <1>5, <1>6 DEF CapAlone

\* A callback of the helper ends.
LEMMA CapCallbackOK ==
  ASSUME CapInv,
         \/ cap' = Processed /\ cap.processing \in {"ready", "reconnecting", "unavailable"}
         \/ /\ cap' = [Processed EXCEPT !.stored = @ + 1] \/ cap' = ProcessingFails
            /\ cap.processing = "caption"
  PROVE  CapInv' /\ CapSteady
<1>1. cap \in CapState /\ CapLast(cap) /\ CaptionsAccounted(cap)
  BY DEF CapInv
<1>2. /\ cap' \in CapState
      /\ cap'.lines = cap.lines /\ cap'.processing = "idle" /\ cap'.captions = cap.captions
      /\ cap'.exit = cap.exit /\ cap'.told = cap.told /\ cap'.proc = cap.proc
      /\ cap'.stop = cap.stop
      /\ \/ cap.processing # "caption" /\ cap'.stored = cap.stored /\ cap'.error = cap.error
         \/ /\ cap.processing = "caption"
            /\ cap'.error \/ (cap'.stored = cap.stored + 1 /\ cap'.error = cap.error)
  <2>1. CASE cap' = Processed /\ cap.processing \in {"ready", "reconnecting", "unavailable"}
    BY <1>1, <2>1 DEF Processed, CapState
  <2>2. CASE cap' = [Processed EXCEPT !.stored = @ + 1] /\ cap.processing = "caption"
    <3> DEFINE n == cap.stored + 1
    <3>1. cap' = [cap EXCEPT !.processing = "idle", !.stored = n]
      BY <1>1, <2>2 DEF Processed, CapState
    <3>2. n \in Nat /\ n = cap.stored + 1
      BY <1>1 DEF CapState
    <3> HIDE DEF n
    <3>3. /\ cap' \in CapState
          /\ cap'.lines = cap.lines /\ cap'.processing = "idle" /\ cap'.captions = cap.captions
          /\ cap'.exit = cap.exit /\ cap'.told = cap.told /\ cap'.proc = cap.proc
          /\ cap'.stop = cap.stop /\ cap'.stored = n /\ cap'.error = cap.error
      BY <1>1, <3>1, <3>2 DEF CapState
    <3> QED  BY <2>2, <3>2, <3>3
  <2>3. CASE cap' = ProcessingFails /\ cap.processing = "caption"
    <3>1. cap' = [cap EXCEPT !.processing = "idle", !.error = TRUE, !.killed = TRUE]
      BY <1>1, <2>3 DEF Processed, ProcessingFails, CapState
    <3> QED  BY <1>1, <2>3, <3>1 DEF CapState
  <2> QED  BY <2>1, <2>2, <2>3
<1>3. CapLast(cap')
  BY <1>1, <1>2 DEF CapLast
<1>4. CaptionsAccounted(cap')
  <2>1. IsFiniteSet(CaptionsIn(cap.lines))
    <3>1. cap.lines \in Seq(CapLine)
      BY <1>1 DEF CapState
    <3>2. Len(cap.lines) \in Nat
      BY <3>1, LenProperties
    <3>3. IsFiniteSet(1 .. Len(cap.lines))
      BY <3>2, FS_Interval
    <3> QED  BY <3>3, FS_Subset DEF CaptionsIn
  <2> DEFINE m == Cardinality(CaptionsIn(cap.lines))
  <2>2. m \in Nat /\ cap.stored \in Nat
    BY <1>1, <2>1, FS_CardinalityType DEF CapState
  <2>3. ~cap.error => cap.captions = cap.stored + m + IF cap.processing = "caption" THEN 1 ELSE 0
    BY <1>1 DEF CaptionsAccounted
  <2>4. CaptionsAccounted(cap') <=> (~cap'.error => cap'.captions = cap'.stored + m + 0)
    BY <1>2 DEF CaptionsAccounted
  <2> HIDE DEF m
  <2> QED  BY <1>2, <2>2, <2>3, <2>4
<1>5. cap.processing # "exit" /\ (cap.stop = "ok" => cap.processing = "resolved")
  BY <1>1, <1>2 DEF CapLast
<1> QED  BY <1>1, <1>2, <1>3, <1>4, <1>5 DEF CapInv, CapSteady

\* The callback of the exit ends.
LEMMA CapExitedOK ==
  ASSUME CapInv, cap' = CapExited, cap.processing = "exit"
  PROVE  /\ CapInv' /\ cap'.stop = cap.stop /\ cap'.proc = cap.proc /\ cap'.exit = cap.exit
         /\ cap'.processing \in {"resolved", "rejected"}
<1>1. cap \in CapState /\ CapLast(cap) /\ CaptionsAccounted(cap)
  BY DEF CapInv
<1>2. cap' = [cap EXCEPT !.processing = IF cap.error THEN "rejected" ELSE "resolved"]
  BY <1>1 DEF CapExited, Processed, CapState
<1>3. /\ cap' \in CapState
      /\ cap'.lines = cap.lines /\ cap'.captions = cap.captions /\ cap'.stored = cap.stored
      /\ cap'.error = cap.error /\ cap'.exit = cap.exit /\ cap'.told = cap.told
      /\ cap'.proc = cap.proc /\ cap'.stop = cap.stop
      /\ cap'.processing = IF cap.error THEN "rejected" ELSE "resolved"
  BY <1>1, <1>2 DEF CapState
<1>4. CapLast(cap')
  BY <1>1, <1>3 DEF CapLast
<1>5. CaptionsAccounted(cap')
  BY <1>1, <1>3 DEF CaptionsAccounted
<1> QED  BY <1>3, <1>4, <1>5 DEF CapInv

\* The stop begins.
LEMMA StopCapOK ==
  ASSUME CapInv, StopCap
  PROVE  /\ CapInv' /\ cap'.proc = cap.proc /\ cap'.exit = cap.exit
         /\ cap'.processing = cap.processing /\ cap'.stop = "waiting" /\ cap.stop = "no"
<1>1. cap \in CapState /\ CapLast(cap) /\ CaptionsAccounted(cap) /\ cap.stop = "no"
  BY DEF CapInv, StopCap
<1>2. /\ cap' \in CapState
      /\ cap'.lines = cap.lines /\ cap'.captions = cap.captions /\ cap'.stored = cap.stored
      /\ cap'.error = cap.error /\ cap'.exit = cap.exit /\ cap'.processing = cap.processing
      /\ cap'.proc = cap.proc /\ cap'.stop = "waiting"
  BY <1>1 DEF StopCap, CapState
<1>3. CapLast(cap')
  BY <1>1, <1>2 DEF CapLast
<1>4. CaptionsAccounted(cap')
  BY <1>1, <1>2 DEF CaptionsAccounted
<1> QED  BY <1>1, <1>2, <1>3, <1>4 DEF CapInv

LEMMA CapStarts ==
  ASSUME CapInit
  PROVE  CapInv /\ cap.processing = "idle" /\ cap.stop = "no" /\ cap.exit = "none"
<1>1. /\ cap \in CapState /\ cap.lines = <<>> /\ cap.captions = 0 /\ cap.stored = 0
      /\ cap.processing = "idle" /\ cap.stop = "no" /\ cap.exit = "none"
      /\ cap.proc = "running" /\ ~cap.told
  BY EmptySeq DEF CapInit, CapState
<1>2. Len(cap.lines) = 0
  BY <1>1
<1>3. CaptionsIn(cap.lines) = {}
  BY <1>2 DEF CaptionsIn
<1>4. Cardinality(CaptionsIn(cap.lines)) = 0
  BY <1>3, FS_EmptySet
<1>5. CaptionsAccounted(cap)
  BY <1>1, <1>4 DEF CaptionsAccounted
<1>6. CapLast(cap)
  BY <1>1, <1>2 DEF CapLast
<1> QED  BY <1>1, <1>5, <1>6 DEF CapInv

\* A stop that succeeds has stored every caption that the helper wrote.
LEMMA CaptionsAreKept ==
  ASSUME CapInv, cap.stop = "ok"
  PROVE  cap.stored = cap.captions
<1>1. /\ cap \in CapState /\ cap.processing = "resolved" /\ ~cap.error /\ cap.lines = <<>>
      /\ CaptionsAccounted(cap)
  BY DEF CapInv, CapLast
<1>2. Len(cap.lines) = 0
  BY <1>1
<1>3. CaptionsIn(cap.lines) = {}
  BY <1>2 DEF CaptionsIn
<1>4. Cardinality(CaptionsIn(cap.lines)) = 0
  BY <1>3, FS_EmptySet
<1>5. cap.captions = cap.stored + 0 + 0
  BY <1>1, <1>4 DEF CaptionsAccounted
<1> QED  BY <1>1, <1>5 DEF CapState

-----------------------------------------------------------------------------
(* What the steps of the recording do to the sessions and the callbacks.   *)

RecordingSteady ==
  /\ session.failed => session'.failed
  /\ session.stop = "ok" => session'.stop = "ok"

\* At most one segment is handed over, and only by a session that has not failed.
HandsOver ==
  /\ calls'.done = calls.done
  /\ \/ calls'.active = calls.active /\ calls'.started = calls.started
     \/ /\ ~session.failed /\ calls'.started = calls.started + 1
        /\ calls'.active = calls.active \cup {calls'.started}

LEMMA DeliveryFailsFields ==
  ASSUME WasapiType, NEW c \in CallsState, DeliveryFails(c)
  PROVE  /\ session'.failed /\ session'.stop = session.stop
         /\ calls'.active = c.active /\ calls'.done = c.done /\ calls'.started = c.started
<1>1. session' = ReportFailure(session) /\ calls' = [c EXCEPT !.tail = <<>>, !.broken = TRUE, !.raced = 0]
  BY DEF DeliveryFails
<1> QED  BY <1>1, ReportFields DEF CallsState

LEMMA RecordingEffects ==
  ASSUME WasapiInv, RecordingAlone
  PROVE  WasapiInv' /\ RecordingSteady /\ HandsOver
<1>1. WasapiType /\ calls \in CallsState /\ session \in SessionState
  BY DEF WasapiInv, WasapiType
<1>2. CASE LoopReads \/ LoopWakes \/ LoopStopped \/ LoopDone \/ StartLoop
  <2>1. WasapiInv'
    BY <1>2, LoopStepsSafe
  <2>2. /\ session'.stop = session.stop /\ (session.failed => session'.failed)
        /\ calls'.active = calls.active /\ calls'.started = calls.started
        /\ calls'.done = calls.done
    <3>1. session' = session \/ session' = ReportFailure(session)
      BY <1>2 DEF LoopReads, LoopWakes, LoopStopped, LoopDone, StartLoop, TakeSegment,
         NoMoreSegments, LoopFails
    <3>2. calls' = calls \/ calls' = [calls EXCEPT !.tail = Append(@, Head(stream.queued))]
      BY <1>2 DEF LoopReads, LoopWakes, LoopStopped, LoopDone, StartLoop, TakeSegment,
         NoMoreSegments, LoopFails
    <3> QED  BY <1>1, <3>1, <3>2, ReportFields DEF CallsState
  <2> QED  BY <2>1, <2>2 DEF RecordingSteady, HandsOver
<1>3. CASE DeliverNothing \/ FailureInterrupts
  <2>1. WasapiInv' /\ DeliveryFails(calls)
    BY <1>3, DeliverySafe DEF DeliverNothing, FailureInterrupts
  <2> QED  BY <1>1, <2>1, DeliveryFailsFields DEF RecordingSteady, HandsOver
<1>4. CASE Deliver
  <2>1. WasapiInv' /\ MayCall /\ ~session.failed
    BY <1>4, DeliverySafe DEF Deliver, MayCall
  <2>2. /\ Called \in CallsState /\ Called.started = calls.started + 1 /\ Called.done = calls.done
        /\ Called.active = calls.active \cup {Head(calls.tail)}
        /\ Head(calls.tail) = calls.tail[1]
    BY <1>1, <2>1, CalledFields
  <2>3. Head(calls.tail) = calls.started + 1
    <3>1. Turns
      BY <2>1 DEF WasapiInv
    <3>2. calls.tail \in Seq(Segment) /\ calls.tail # <<>>
      BY <1>1, <2>1 DEF CallsState, MayCall, NextCall
    <3>3. 1 \in 1 .. Len(calls.tail)
      BY <3>2, EmptySeq, LenProperties
    <3> QED  BY <2>2, <3>1, <3>3 DEF Turns
  <2>4. \/ DeliveryFails(Called)
        \/ calls' = Called /\ session' = session
    BY <1>4 DEF Deliver
  <2>5. /\ session'.stop = session.stop
        /\ calls'.active = Called.active /\ calls'.done = Called.done
        /\ calls'.started = Called.started
    BY <1>1, <2>2, <2>4, DeliveryFailsFields
  <2> QED  BY <2>1, <2>2, <2>3, <2>5 DEF RecordingSteady, HandsOver
<1>5. CASE StopStreamSettles \/ StopLoopSettles \/ StopDrainTimesOut
  <2>1. WasapiInv'
    BY <1>5, StopStepsSafe
  <2>2. calls' = calls /\ session.stop # "ok" /\ (session.failed => session'.failed)
    BY <1>1, <1>5 DEF StopStreamSettles, StopLoopSettles, StopDrainTimesOut, ReportFailure,
       SessionState
  <2> QED  BY <2>1, <2>2 DEF RecordingSteady, HandsOver
<1>6. CASE DeviceSends \/ DeviceCompletes \/ DeviceFails \/ DeviceCloses \/ StreamStopTimesOut
  <2>1. WasapiInv'
    BY <1>6, DeviceSendsSafe, HelperStepsSafe
  <2>2. calls' = calls /\ session' = session
    BY <1>6 DEF DeviceSends, DeviceCompletes, DeviceFails, DeviceCloses, StreamStopTimesOut
  <2> QED  BY <2>1, <2>2 DEF RecordingSteady, HandsOver
<1> QED  BY <1>2, <1>3, <1>4, <1>5, <1>6 DEF RecordingAlone

LEMMA CallbackEndsEffects ==
  ASSUME WasapiInv, NEW s, CallbackEnds(s)
  PROVE  /\ WasapiInv' /\ session' = session /\ s \in calls.active
         /\ calls'.active = calls.active \ {s} /\ calls'.done = calls.done \cup {s}
         /\ calls'.started = calls.started
<1>1. calls \in CallsState
  BY DEF WasapiInv, WasapiType
<1> QED  BY <1>1, CallbackSafe DEF CallbackEnds, CallsState

LEMMA CallbackFailsEffects ==
  ASSUME WasapiInv, NEW s, CallbackFails(s)
  PROVE  /\ WasapiInv' /\ session'.failed /\ session'.stop = session.stop /\ s \in calls.active
         /\ calls'.active = calls.active \ {s} /\ calls'.done = calls.done
         /\ calls'.started = calls.started
<1>1. calls \in CallsState /\ WasapiType /\ s \in calls.active
  BY DEF WasapiInv, WasapiType, CallbackFails
<1> DEFINE c == [calls EXCEPT !.active = calls.active \ {s}]
<1>2. /\ c \in CallsState /\ c.active = calls.active \ {s} /\ c.done = calls.done
      /\ c.started = calls.started
  BY <1>1 DEF CallsState
<1>3. IF calls.raced = s THEN DeliveryFails(c) ELSE calls' = c /\ session' = session
  BY <1>1 DEF CallbackFails, CallsState
<1> HIDE DEF c
<1>4. CASE calls.raced = s
  BY <1>1, <1>2, <1>3, <1>4, DeliveryFailsFields, CallbackSafe
<1>5. CASE calls.raced # s
  <2>1. session.failed
    <3>1. SUFFICES ASSUME ~session.failed  PROVE FALSE
      OBVIOUS
    <3>2. Turns
      BY <3>1 DEF WasapiInv
    <3> QED  BY <1>1, <1>5, <3>2 DEF Turns
  <2> QED  BY <1>1, <1>2, <1>3, <1>5, <2>1, CallbackSafe
<1> QED  BY <1>4, <1>5

\* The other calls of the recording leave the callbacks alone.
LEMMA SessionCallsEffects ==
  ASSUME WasapiInv,
         \/ StopRecording
         \/ OpenStream /\ UNCHANGED <<stream, loop, session, calls>>
         \/ StreamReady /\ UNCHANGED <<stream, session, calls>>
         \/ StreamStartFails /\ UNCHANGED <<loop, session, calls>>
  PROVE  WasapiInv' /\ RecordingSteady /\ calls' = calls /\ session'.failed = session.failed
<1>1. session \in SessionState
  BY DEF WasapiInv, WasapiType
<1>2. CASE StopRecording
  BY <1>1, <1>2, StopStepsSafe DEF StopRecording, RecordingSteady, SessionState
<1>3. CASE ~StopRecording
  BY <1>3, HelperStepsSafe DEF RecordingSteady
<1> QED  BY <1>2, <1>3

LEMMA RecordingStutters ==
  ASSUME WasapiInv, UNCHANGED wasapi
  PROVE  WasapiInv' /\ RecordingSteady /\ HandsOver /\ calls' = calls /\ session' = session
BY DEF wasapi, WasapiInv, WasapiType, Together, Turns, Waited, Verdict, RecordingSteady, HandsOver

-----------------------------------------------------------------------------
(* What a step of the whole does to the adapter that the source has.       *)

AsrEffect ==
  /\ AsrInv'
  /\ asr.stop = "no" => asr'.stop = "no" \/ stopper'.at = "adapter"
  /\ asr.stop = "ok" => asr'.stop = "ok"
  /\ ~asr.child => ~asr'.child /\ (asr'.answer[Shutdown] = "ok" => asr.answer[Shutdown] = "ok")
  /\ asr.processing = "exit" => asr'.processing = "exit" \/ exiter'.at \in {"no", "done"}
  /\ asr.processing = "ready" => asr'.processing = "ready" \/ capture' \in {"attached", "failed"}
  /\ ~Local => asr' = asr
  /\ \A r \in Segment : asr.answer[r] = "ok" => asr'.answer[r] = "ok"
  /\ \A r \in Segment : asr'.answer[r] # "none" => asr.answer[r] # "none" \/ doing'[r] = "asking"
  /\ asr'.request \in Segment => doing'[asr'.request] = "asking"

\* A step that changes only what the requests for segments do not depend on.
LEMMA FromSteady ==
  ASSUME Callbacks, AsrInv', Steady(asr, asr'), Local \/ asr' = asr,
         \A s \in Segment : doing[s] = "asking" => doing'[s] = "asking",
         asr.stop = "no" => asr'.stop = "no" \/ stopper'.at = "adapter",
         asr.stop = "ok" => asr'.stop = "ok",
         ~asr.child => ~asr'.child /\ Uncredited(asr, asr'),
         asr.processing = "exit" => asr'.processing = "exit" \/ exiter'.at \in {"no", "done"},
         asr.processing = "ready" => asr'.processing = "ready" \/ capture' \in {"attached", "failed"}
  PROVE  AsrEffect
<1>1. asr.request \in Segment => doing[asr.request] = "asking"
  BY DEF Callbacks
<1>2. \A r \in Segment : asr.answer[r] = "ok" => asr'.answer[r] = "ok"
  BY Requests DEF Steady
<1>3. \A r \in Segment : asr'.answer[r] # "none" => asr.answer[r] # "none" \/ doing'[r] = "asking"
  BY <1>1 DEF Steady
<1>4. asr'.request \in Segment => doing'[asr'.request] = "asking"
  <2>1. ASSUME NEW r \in Segment, asr'.request = r  PROVE doing'[r] = "asking"
    BY <1>1, <2>1 DEF Steady
  <2> QED  BY <2>1
<1>5. ~asr.child => ~asr'.child /\ (asr'.answer[Shutdown] = "ok" => asr.answer[Shutdown] = "ok")
  BY Requests DEF Uncredited
<1> QED  BY <1>2, <1>3, <1>4, <1>5 DEF AsrEffect

LEMMA AsrStutters ==
  ASSUME Callbacks, AsrInv, UNCHANGED asrVars,
         \A s \in Segment : doing[s] = "asking"
           => doing'[s] = "asking" \/ (asr.answer[s] # "none" /\ asr.request # s)
  PROVE  AsrEffect
<1>1. asr' = asr /\ heard' = heard
  BY DEF asrVars
<1>2. AsrInv'
  BY <1>1 DEF AsrInv
<1>3. asr'.request \in Segment => doing'[asr'.request] = "asking"
  <2>1. ASSUME NEW r \in Segment, asr'.request = r  PROVE doing'[r] = "asking"
    BY <1>1, <2>1 DEF Callbacks
  <2> QED  BY <2>1
<1> QED  BY <1>1, <1>2, <1>3 DEF AsrEffect

LEMMA SubmitEffect ==
  ASSUME Callbacks, AsrInv, AppType, NEW s \in Segment, s \in calls.active, Local,
         doing[s] # "asking", Submit(s), doing' = [doing EXCEPT ![s] = "asking"]
  PROVE  AsrEffect
<1>1. asr.answer[s] = "none" /\ asr.request # s
  BY DEF Callbacks
<1>2. /\ AsrInv' /\ Alike(asr, asr') /\ Uncredited(asr, asr')
      /\ \A r \in 1 .. Shutdown : asr.answer[r] = "ok" => asr'.answer[r] = "ok"
      /\ \A r \in Segment \ {s} : /\ asr'.answer[r] = asr.answer[r]
                                  /\ asr'.request = r => asr.request = r
  BY <1>1, SubmitOK
<1>3. doing'[s] = "asking" /\ \A r \in Segment \ {s} : doing'[r] = doing[r]
  BY DEF AppType
<1>4. asr'.request \in Segment => doing'[asr'.request] = "asking"
  <2>1. ASSUME NEW r \in Segment, asr'.request = r  PROVE doing'[r] = "asking"
    BY <1>2, <1>3, <2>1 DEF Callbacks
  <2> QED  BY <2>1
<1>5. \A r \in Segment : /\ asr.answer[r] = "ok" => asr'.answer[r] = "ok"
                         /\ asr'.answer[r] # "none" => asr.answer[r] # "none" \/ doing'[r] = "asking"
  BY <1>2, <1>3, Requests
<1>6. asr'.answer[Shutdown] = "ok" => asr.answer[Shutdown] = "ok"
  BY <1>2, Requests DEF Uncredited
<1> QED  BY <1>2, <1>4, <1>5, <1>6 DEF AsrEffect, Alike

\* The callback that opens the recording ends, if it is still there.
LEMMA ReadyEffect ==
  ASSUME Callbacks, AsrInv, asr' = ReadyCallbackEnds, heard' = heard, doing' = doing,
         Local => asr.processing = "ready", capture' \in {"attached", "failed"}
  PROVE  AsrEffect
<1>1. CASE Local
  <2>1. /\ AsrInv' /\ Steady(asr, asr') /\ Uncredited(asr, asr')
        /\ asr'.stop = asr.stop /\ asr'.child = asr.child
    BY <1>1, ReadyEndsOK DEF ReadyCallbackEnds
  <2> QED  BY <1>1, <2>1, FromSteady
<1>2. CASE ~Local
  BY <1>2, AsrStutters DEF ReadyCallbackEnds, asrVars
<1> QED  BY <1>1, <1>2

\* The callback of the exit ends.
LEMMA ExitEffect ==
  ASSUME Callbacks, AsrInv, AdapterExits, Local => asr.processing = "exit", doing' = doing,
         exiter'.at \in {"no", "done"}
  PROVE  AsrEffect
<1>1. CASE Local
  <2>1. Exited /\ heard' = heard
    BY <1>1 DEF AdapterExits
  <2>2. /\ AsrInv' /\ Steady(asr, asr') /\ Uncredited(asr, asr')
        /\ asr'.stop = asr.stop /\ asr'.child = asr.child
    BY <1>1, <2>1, ExitedOK
  <2> QED  BY <1>1, <2>2, FromSteady
<1>2. CASE ~Local
  BY <1>2, AsrStutters DEF AdapterExits
<1> QED  BY <1>1, <1>2

LEMMA RecogniserEffects ==
  ASSUME Base, [Next]_vars
  PROVE  AsrEffect
<1>1. AsrInv /\ Callbacks /\ AppType /\ Links /\ asr.request \in 0 .. Shutdown
  BY DEF Base, AsrInv, AsrOK, AsrState
<1>2. CASE RecordingAlone \/ CaptionsAlone \/ UNCHANGED vars \/ StatusStep \/ EndStep
  <2>1. UNCHANGED asrVars /\ doing' = doing
    BY <1>2 DEF RecordingAlone, CaptionsAlone, vars, app, StatusStep, EndStep, StatusReady,
       StatusReconnecting, StatusUnavailable, CaptionStored, CaptionRejected, StartupTimesOut,
       CaptureReportsFailure, EndSession
  <2> QED  BY <1>1, <2>1, AsrStutters
<1>3. CASE RecogniserAlone
  <2>1. AsrGood /\ Local /\ doing' = doing
    BY <1>1, <1>3, AsrAloneOK DEF RecogniserAlone, app
  <2> QED  BY <1>1, <2>1, FromSteady DEF AsrGood, Goes
<1>4. ASSUME NEW s \in Segment, SegmentStep(s)  PROVE AsrEffect
  <2>1. CASE SegmentIgnored(s)
    BY <1>1, <2>1, AsrStutters DEF SegmentIgnored, app
  <2>2. CASE SegmentAnswered(s)
    <3>1. /\ UNCHANGED asrVars /\ doing' = [doing EXCEPT ![s] = "none"]
          /\ asr.answer[s] # "none"
      BY <2>2 DEF SegmentAnswered
    <3>2. asr.request # s
      BY <1>1, <3>1, Requests DEF AsrInv, AsrOK, Farewells
    <3> QED  BY <1>1, <3>1, <3>2, AsrStutters DEF AppType
  <2>3. CASE SegmentNotSaved(s)
    <3>1. UNCHANGED asrVars /\ doing' = [doing EXCEPT ![s] = "none"] /\ doing[s] = "saving"
      BY <2>3 DEF SegmentNotSaved
    <3> QED  BY <1>1, <3>1, AsrStutters DEF AppType
  <2>4. CASE RecordSegment(s) \/ SegmentSaved(s)
    <3>1. s \in calls.active /\ doing[s] \in {"none", "saving"}
      BY <1>1, <2>4 DEF RecordSegment, SegmentSaved, Callbacks
    <3>2. \/ Local /\ doing' = [doing EXCEPT ![s] = "asking"] /\ Submit(s)
          \/ UNCHANGED asrVars /\ \A r \in Segment : r # s => doing'[r] = doing[r]
      BY <1>1, <2>4 DEF RecordSegment, SegmentSaved, AppType
    <3>3. CASE Local /\ doing' = [doing EXCEPT ![s] = "asking"] /\ Submit(s)
      BY <1>1, <3>1, <3>3, SubmitEffect
    <3>4. CASE UNCHANGED asrVars /\ \A r \in Segment : r # s => doing'[r] = doing[r]
      BY <1>1, <3>1, <3>4, AsrStutters
    <3> QED  BY <3>2, <3>3, <3>4
  <2> QED  BY <1>4, <2>1, <2>2, <2>3, <2>4 DEF SegmentStep
<1>5. CASE CaptureStep
  <2>1. CASE OpenCapture
    <3>1. doing' = doing /\ heard' = heard
      BY <2>1 DEF OpenCapture
    <3>2. CASE Aborted
      <4>1. capture' = "failed" /\ asr' = ReadyCallbackEnds /\ (Local => asr.processing = "ready")
        BY <2>1, <3>2 DEF OpenCapture
      <4> QED  BY <1>1, <3>1, <4>1, ReadyEffect
    <3>3. CASE ~Aborted
      BY <1>1, <2>1, <3>1, <3>3, AsrStutters DEF OpenCapture, asrVars
    <3> QED  BY <3>2, <3>3
  <2>2. CASE CaptureOpens \/ LeaveCapture
    BY <1>1, <2>2, AsrStutters DEF CaptureOpens, LeaveCapture
  <2>3. CASE CaptureStartFails \/ AttachCapture \/ LooseCaptureStopped
    <3>1. /\ asr' = ReadyCallbackEnds /\ heard' = heard /\ doing' = doing
          /\ capture \in {"opening", "opened", "loose"} /\ capture' \in {"attached", "failed"}
      BY <2>3 DEF CaptureStartFails, AttachCapture, LooseCaptureStopped
    <3>2. Local => asr.processing = "ready"
      BY <1>1, <3>1 DEF Links
    <3> QED  BY <1>1, <3>1, <3>2, ReadyEffect
  <2> QED  BY <1>5, <2>1, <2>2, <2>3 DEF CaptureStep
<1>6. CASE ExitStep
  <2>1. CASE ExitNoted
    <3>1. AdapterExits /\ Exiting /\ exiter'.at = "no" /\ doing' = doing
      BY <2>1 DEF ExitNoted, app
    <3>2. Local => asr.processing = "exit"
      BY <1>1, <3>1 DEF Exiting, Links
    <3> QED  BY <1>1, <3>1, <3>2, ExitEffect
  <2>2. CASE ExiterEnds
    <3>1. AdapterExits /\ exiter.at = "flushed" /\ exiter'.at = "done" /\ doing' = doing
      BY <1>1, <2>2 DEF ExiterEnds, AppType, ExiterState
    <3>2. Local => asr.processing = "exit"
      BY <1>1, <3>1 DEF Links
    <3> QED  BY <1>1, <3>1, <3>2, ExitEffect
  <2>3. CASE ExitStopsCapture \/ ExiterStopsCapture \/ ExiterWaits \/ ExiterFlushes
    BY <1>1, <2>3, AsrStutters DEF ExitStopsCapture, ExiterStopsCapture, ExiterWaits, ExiterFlushes
  <2> QED  BY <1>6, <2>1, <2>2, <2>3 DEF ExitStep
<1>7. CASE StopStep
  <2>1. CASE StopperStopsAdapter
    <3>1. doing' = doing /\ stopper'.at = "adapter"
      BY <1>1, <2>1 DEF StopperStopsAdapter, AppType, StopperState
    <3>2. CASE Local
      <4>1. StopAsr
        BY <2>1, <3>2 DEF StopperStopsAdapter
      <4>2. /\ AsrInv' /\ Steady(asr, asr') /\ Uncredited(asr, asr')
            /\ asr'.processing = asr.processing /\ asr.stop = "no" /\ asr'.child = asr.child
        BY <1>1, <4>1, StopAsrOK DEF StopAsr
      <4> QED  BY <1>1, <3>1, <3>2, <4>2, FromSteady
    <3>3. CASE ~Local
      BY <1>1, <2>1, <3>1, <3>3, AsrStutters DEF StopperStopsAdapter
    <3> QED  BY <3>2, <3>3
  <2>2. CASE StopperStopsCapture \/ StopperWaits \/ StopperFlushes \/ StopperEnds
    BY <1>1, <2>2, AsrStutters DEF StopperStopsCapture, StopperWaits, StopperFlushes, StopperEnds
  <2> QED  BY <1>7, <2>1, <2>2 DEF StopStep
<1> QED  BY <1>2, <1>3, <1>4, <1>5, <1>6, <1>7, StepsBySubject

CapEffect ==
  /\ CapInv'
  /\ cap.stop = "no" => cap'.stop = "no" \/ stopper'.at = "adapter"
  /\ cap.stop = "ok" => cap'.stop = "ok"
  /\ cap.proc = "exited" => cap'.proc = "exited" /\ cap'.exit = cap.exit
  /\ cap.processing = "exit" => cap'.processing = "exit" \/ exiter'.at \in {"no", "done"}
  /\ Local => cap' = cap

LEMMA CapFromSteady ==
  ASSUME ~Local, CapInv', CapSteady
  PROVE  CapEffect
BY DEF CapSteady, CapEffect

LEMMA CapStutters ==
  ASSUME CapInv, UNCHANGED cap
  PROVE  CapEffect
BY DEF CapInv, CapEffect

LEMMA CapExitEffect ==
  ASSUME CapInv, AdapterExits, ~Local => cap.processing = "exit", exiter'.at \in {"no", "done"}
  PROVE  CapEffect
<1>1. CASE Local
  BY <1>1, CapStutters DEF AdapterExits
<1>2. CASE ~Local
  <2>1. /\ CapInv' /\ cap'.stop = cap.stop /\ cap'.proc = cap.proc /\ cap'.exit = cap.exit
    BY <1>2, CapExitedOK DEF AdapterExits
  <2> QED  BY <1>2, <2>1 DEF CapEffect
<1> QED  BY <1>1, <1>2

LEMMA HelperEffects ==
  ASSUME Base, [Next]_vars
  PROVE  CapEffect
<1>1. CapInv /\ Links /\ AppType
  BY DEF Base
<1>2. CASE RecordingAlone \/ RecogniserAlone \/ UNCHANGED vars \/ EndStep
  BY <1>1, <1>2, CapStutters DEF RecordingAlone, RecogniserAlone, vars, EndStep, StartupTimesOut,
     CaptureReportsFailure, EndSession
<1>3. CASE CaptionsAlone
  BY <1>1, <1>3, CapAloneOK, CapFromSteady DEF CaptionsAlone
<1>4. ASSUME NEW s \in Segment, SegmentStep(s)  PROVE CapEffect
  BY <1>1, <1>4, CapStutters DEF SegmentStep, SegmentIgnored, SegmentAnswered, RecordSegment,
     SegmentSaved, SegmentNotSaved
<1>5. CASE CaptureStep
  <2>1. CASE OpenCapture
    <3>1. \/ UNCHANGED cap
          \/ ~Local /\ cap.processing = "ready" /\ cap' = Processed
      BY <2>1 DEF OpenCapture
    <3> QED  BY <1>1, <3>1, CapStutters, CapCallbackOK, CapFromSteady
  <2>2. CASE ~OpenCapture
    BY <1>1, <1>5, <2>2, CapStutters DEF CaptureStep, CaptureOpens, CaptureStartFails,
       AttachCapture, LeaveCapture, LooseCaptureStopped
  <2> QED  BY <2>1, <2>2
<1>6. CASE StatusStep
  <2>1. /\ ~Local
        /\ \/ cap' = Processed /\ cap.processing \in {"ready", "reconnecting", "unavailable"}
           \/ /\ cap' = [Processed EXCEPT !.stored = @ + 1] \/ cap' = ProcessingFails
              /\ cap.processing = "caption"
    BY <1>6 DEF StatusStep, StatusReady, StatusReconnecting, StatusUnavailable, CaptionStored,
       CaptionRejected
  <2> QED  BY <1>1, <2>1, CapCallbackOK, CapFromSteady
<1>7. CASE ExitStep
  <2>1. CASE ExitNoted
    <3>1. AdapterExits /\ Exiting /\ exiter'.at = "no"
      BY <2>1 DEF ExitNoted, app
    <3>2. ~Local => cap.processing = "exit"
      BY <1>1, <3>1 DEF Exiting, Links
    <3> QED  BY <1>1, <3>1, <3>2, CapExitEffect
  <2>2. CASE ExiterEnds
    <3>1. AdapterExits /\ exiter.at = "flushed" /\ exiter'.at = "done"
      BY <1>1, <2>2 DEF ExiterEnds, AppType, ExiterState
    <3>2. ~Local => cap.processing = "exit"
      BY <1>1, <3>1 DEF Links
    <3> QED  BY <1>1, <3>1, <3>2, CapExitEffect
  <2>3. CASE ExitStopsCapture \/ ExiterStopsCapture \/ ExiterWaits \/ ExiterFlushes
    BY <1>1, <2>3, CapStutters DEF ExitStopsCapture, ExiterStopsCapture, ExiterWaits, ExiterFlushes
  <2> QED  BY <1>7, <2>1, <2>2, <2>3 DEF ExitStep
<1>8. CASE StopStep
  <2>1. CASE StopperStopsAdapter
    <3>1. stopper'.at = "adapter"
      BY <1>1, <2>1 DEF StopperStopsAdapter, AppType, StopperState
    <3>2. CASE Local
      BY <1>1, <2>1, <3>2, CapStutters DEF StopperStopsAdapter
    <3>3. CASE ~Local
      <4>1. StopCap
        BY <2>1, <3>3 DEF StopperStopsAdapter
      <4>2. /\ CapInv' /\ cap'.proc = cap.proc /\ cap'.exit = cap.exit
            /\ cap'.processing = cap.processing /\ cap.stop = "no"
        BY <1>1, <4>1, StopCapOK
      <4> QED  BY <3>1, <3>3, <4>2 DEF CapEffect
    <3> QED  BY <3>2, <3>3
  <2>2. CASE StopperStopsCapture \/ StopperWaits \/ StopperFlushes \/ StopperEnds
    BY <1>1, <2>2, CapStutters DEF StopperStopsCapture, StopperWaits, StopperFlushes, StopperEnds
  <2> QED  BY <1>8, <2>1, <2>2 DEF StopStep
<1> QED  BY <1>2, <1>3, <1>4, <1>5, <1>6, <1>7, <1>8, StepsBySubject

-----------------------------------------------------------------------------
(* What it does to the recording.                                          *)

\* All steps but the ones in which a callback runs or ends.
LEMMA RecordingKept ==
  ASSUME Base, [Next]_vars
  PROVE  \/ \E s \in Segment : SegmentStep(s)
         \/ /\ WasapiInv' /\ RecordingSteady /\ HandsOver
            /\ doing' = doing /\ recorder'.chunk = recorder.chunk
            /\ calls' = calls \/ RecordingAlone
<1> SUFFICES ASSUME ~\E s \in Segment : SegmentStep(s)
             PROVE  /\ WasapiInv' /\ RecordingSteady /\ HandsOver
                    /\ doing' = doing /\ recorder'.chunk = recorder.chunk
                    /\ calls' = calls \/ RecordingAlone
  OBVIOUS
<1>1. WasapiInv /\ AppType
  BY DEF Base
<1>2. CASE RecordingAlone
  BY <1>1, <1>2, RecordingEffects DEF RecordingAlone, app
<1>3. CASE RecogniserAlone \/ CaptionsAlone \/ UNCHANGED vars \/ StatusStep \/ EndStep
  <2>1. UNCHANGED wasapi /\ doing' = doing /\ recorder' = recorder
    BY <1>3 DEF RecogniserAlone, CaptionsAlone, vars, app, StatusStep, EndStep, StatusReady,
       StatusReconnecting, StatusUnavailable, CaptionStored, CaptionRejected, StartupTimesOut,
       CaptureReportsFailure, EndSession
  <2> QED  BY <1>1, <2>1, RecordingStutters
<1>4. ASSUME calls' = calls  PROVE HandsOver
  BY <1>4 DEF HandsOver
<1>5. CASE CaptureStep
  <2>1. doing' = doing /\ recorder' = recorder
    BY <1>5 DEF CaptureStep, OpenCapture, CaptureOpens, CaptureStartFails, AttachCapture,
       LeaveCapture, LooseCaptureStopped
  <2>2. \/ UNCHANGED wasapi
        \/ StopRecording
        \/ OpenStream /\ UNCHANGED <<stream, loop, session, calls>>
        \/ StreamReady /\ UNCHANGED <<stream, session, calls>>
        \/ StreamStartFails /\ UNCHANGED <<loop, session, calls>>
    BY <1>5 DEF CaptureStep, OpenCapture, CaptureOpens, CaptureStartFails, AttachCapture,
       LeaveCapture, LooseCaptureStopped, wasapi
  <2> QED  BY <1>1, <1>4, <2>1, <2>2, RecordingStutters, SessionCallsEffects
<1>6. CASE ExitStep
  <2>1. doing' = doing /\ recorder'.chunk = recorder.chunk
    BY <1>1, <1>6 DEF ExitStep, ExitNoted, ExitStopsCapture, ExiterStopsCapture, ExiterWaits,
       ExiterFlushes, FlushesRecorder, ExiterEnds, app, AppType, RecorderState
  <2>2. UNCHANGED wasapi \/ StopRecording
    BY <1>6 DEF ExitStep, ExitNoted, ExitStopsCapture, ExiterStopsCapture, StopsCapture,
       ExiterWaits, ExiterFlushes, ExiterEnds
  <2> QED  BY <1>1, <1>4, <2>1, <2>2, RecordingStutters, SessionCallsEffects
<1>7. CASE StopStep
  <2>1. doing' = doing /\ recorder'.chunk = recorder.chunk
    BY <1>1, <1>7 DEF StopStep, StopperStopsCapture, StopperWaits, StopperStopsAdapter,
       StopperFlushes, FlushesRecorder, StopperEnds, AppType, RecorderState
  <2>2. UNCHANGED wasapi \/ StopRecording
    BY <1>7 DEF StopStep, StopperStopsCapture, StopsCapture, StopperWaits, StopperStopsAdapter,
       StopperFlushes, StopperEnds
  <2> QED  BY <1>1, <1>4, <2>1, <2>2, RecordingStutters, SessionCallsEffects
<1> QED  BY <1>2, <1>3, <1>5, <1>6, <1>7, StepsBySubject

-----------------------------------------------------------------------------
(* The callbacks of the segments.                                          *)

\* A chunk is being stored only in the callback that runs.
LEMMA ChunkIsSaved ==
  ASSUME Base, NEW s \in calls.active, doing[s] # "saving"
  PROVE  recorder.chunk = {}
<1>1. AtMostOne(calls.active)
  BY DEF Base, WasapiInv, Together
<1> QED  BY <1>1 DEF Base, Callbacks, AtMostOne

\* The recorder takes a segment.
LEMMA AppendedFields ==
  ASSUME AppType, NEW s \in Segment, recorder.chunk = {}
  PROVE  LET r == Appended(s) IN
         /\ r \in RecorderState
         /\ r.chunk \cup Segments(r.buffered) = Segments(recorder.buffered) \cup {s}
         /\ r.chunk = {} \/ r.buffered = <<>>
         /\ r.chunk # recorder.chunk <=> r.chunk # {}
<1> DEFINE all == Append(recorder.buffered, s)  n == Len(recorder.buffered)
<1>1. recorder \in RecorderState /\ recorder.buffered \in Seq(Segment)
  BY DEF AppType, RecorderState
<1>2. /\ all \in Seq(Segment) /\ Len(all) = n + 1 /\ n \in Nat
      /\ \A i \in 1 .. n : all[i] = recorder.buffered[i]
      /\ all[n + 1] = s
      /\ DOMAIN all = 1 .. Len(all) /\ DOMAIN recorder.buffered = 1 .. n
  BY <1>1, AppendProperties, LenProperties
<1>3. Segments(all) = Segments(recorder.buffered) \cup {s}
  BY <1>2 DEF Segments
<1>4. Segments(<<>>) = {} /\ <<>> \in Seq(Segment)
  BY EmptySeq DEF Segments
<1>5. Segments(all) \subseteq Segment
  <2>1. \A i \in DOMAIN all : all[i] \in Segment
    BY <1>2, ElementOfSeq
  <2> QED  BY <2>1 DEF Segments
<1>6. Appended(s) = IF Len(all) = ChunkSize THEN [buffered |-> <<>>, chunk |-> Segments(all)]
                    ELSE [recorder EXCEPT !.buffered = all]
  BY DEF Appended
<1> HIDE DEF all
<1>7. CASE Len(all) = ChunkSize
  BY <1>3, <1>4, <1>5, <1>6, <1>7 DEF RecorderState
<1>8. CASE Len(all) # ChunkSize
  <2>1. /\ Appended(s) \in RecorderState /\ Appended(s).buffered = all
        /\ Appended(s).chunk = recorder.chunk
    BY <1>1, <1>2, <1>6, <1>8 DEF RecorderState
  <2> QED  BY <1>3, <2>1
<1> QED  BY <1>7, <1>8

\* A step of a callback ends it, or takes it to its next await.
LEMMA SegmentMoves ==
  ASSUME Base, NEW s \in Segment, SegmentStep(s)
  PROVE  /\ s \in calls.active /\ doing' \in [Segment -> {"none", "saving", "asking"}]
         /\ \A r \in Segment : r # s => doing'[r] = doing[r]
         /\ recorder' \in RecorderState
         /\ recorder'.chunk # {} => doing'[s] = "saving"
         /\ WasapiInv' /\ RecordingSteady /\ calls'.started = calls.started
         /\ \/ UNCHANGED wasapi /\ doing'[s] # "none"
            \/ (CallbackEnds(s) \/ CallbackFails(s)) /\ doing'[s] = "none"
<1>1. WasapiInv /\ AppType /\ Callbacks /\ doing \in [Segment -> {"none", "saving", "asking"}]
      /\ recorder \in RecorderState
  BY DEF Base, AppType
<1>2. s \in calls.active
  BY <1>1 DEF SegmentStep, SegmentIgnored, RecordSegment, SegmentAnswered, SegmentSaved,
     SegmentNotSaved, Callbacks
<1>3. /\ doing' \in [Segment -> {"none", "saving", "asking"}]
      /\ \A r \in Segment : r # s => doing'[r] = doing[r]
      /\ recorder' \in RecorderState
      /\ recorder'.chunk # {} => doing'[s] = "saving"
      /\ \/ UNCHANGED wasapi /\ doing'[s] # "none"
         \/ (CallbackEnds(s) \/ CallbackFails(s)) /\ doing'[s] = "none"
  <2>1. CASE SegmentIgnored(s)
    <3>1. doing[s] = "none" /\ UNCHANGED <<doing, recorder>> /\ CallbackEnds(s)
      BY <2>1 DEF SegmentIgnored, app
    <3>2. recorder.chunk = {}
      BY <1>2, <3>1, ChunkIsSaved
    <3> QED  BY <1>1, <3>1, <3>2
  <2>2. CASE SegmentAnswered(s)
    <3>1. /\ doing[s] = "asking" /\ doing' = [doing EXCEPT ![s] = "none"] /\ recorder' = recorder
          /\ CallbackEnds(s) \/ CallbackFails(s)
      BY <2>2 DEF SegmentAnswered
    <3>2. recorder.chunk = {}
      BY <1>2, <3>1, ChunkIsSaved
    <3> QED  BY <1>1, <3>1, <3>2
  <2>3. CASE SegmentSaved(s) \/ SegmentNotSaved(s)
    <3>1. recorder' \in RecorderState /\ recorder'.chunk = {}
      BY <1>1, <2>3 DEF SegmentSaved, SegmentNotSaved, RecorderState
    <3>2. \/ doing' = [doing EXCEPT ![s] = "asking"] /\ UNCHANGED wasapi
          \/ doing' = [doing EXCEPT ![s] = "none"] /\ (CallbackEnds(s) \/ CallbackFails(s))
      BY <2>3 DEF SegmentSaved, SegmentNotSaved
    <3> QED  BY <1>1, <3>1, <3>2
  <2>4. CASE RecordSegment(s)
    <3>1. doing[s] = "none" /\ recorder' = Appended(s)
      BY <2>4 DEF RecordSegment
    <3>2. recorder.chunk = {}
      BY <1>2, <3>1, ChunkIsSaved
    <3>3. recorder' \in RecorderState /\ (recorder'.chunk # recorder.chunk <=> recorder'.chunk # {})
      BY <1>1, <3>1, <3>2, AppendedFields
    <3>4. \/ recorder'.chunk # recorder.chunk /\ doing' = [doing EXCEPT ![s] = "saving"]
             /\ UNCHANGED wasapi
          \/ recorder'.chunk = recorder.chunk /\ doing' = [doing EXCEPT ![s] = "asking"]
             /\ UNCHANGED wasapi
          \/ recorder'.chunk = recorder.chunk /\ doing' = doing /\ CallbackEnds(s)
      BY <2>4 DEF RecordSegment
    <3> QED  BY <1>1, <3>1, <3>2, <3>3, <3>4
  <2> QED  BY <2>1, <2>2, <2>3, <2>4 DEF SegmentStep
<1>4. WasapiInv' /\ RecordingSteady /\ calls'.started = calls.started
  <2>1. CASE UNCHANGED wasapi
    BY <1>1, <2>1, RecordingStutters
  <2>2. CASE CallbackEnds(s)
    BY <1>1, <2>2, CallbackEndsEffects DEF RecordingSteady
  <2>3. CASE CallbackFails(s)
    BY <1>1, <2>3, CallbackFailsEffects DEF RecordingSteady
  <2> QED  BY <1>3, <2>1, <2>2, <2>3
<1> QED  BY <1>2, <1>3, <1>4

LEMMA CallbacksKept ==
  ASSUME Base, [Next]_vars
  PROVE  Callbacks'
<1>1. /\ WasapiInv /\ AppType /\ Callbacks /\ AsrEffect
      /\ calls.started \in Nat /\ calls.active \subseteq Segment /\ Segment \subseteq Nat
  BY RecogniserEffects, WasapiAssumption
     DEF Base, WasapiInv, WasapiType, CallsState, Segment, WasapiAssumption
<1>2. CASE \E s \in Segment : SegmentStep(s)
  <2>1. PICK s \in Segment : SegmentStep(s)
    BY <1>2
  <2>2. /\ s \in calls.active
        /\ \A r \in Segment : r # s => doing'[r] = doing[r]
        /\ recorder'.chunk # {} => doing'[s] = "saving"
        /\ calls'.started = calls.started
        /\ \/ UNCHANGED wasapi /\ doing'[s] # "none"
           \/ (CallbackEnds(s) \/ CallbackFails(s)) /\ doing'[s] = "none"
    BY <2>1, SegmentMoves
  <2>3. \/ calls'.active = calls.active /\ doing'[s] # "none"
        \/ calls'.active = calls.active \ {s} /\ doing'[s] = "none"
    BY <1>1, <2>2, CallbackEndsEffects, CallbackFailsEffects DEF wasapi
  <2>4. \A r \in calls'.active : r <= calls'.started
    BY <1>1, <2>2, <2>3 DEF Callbacks
  <2>5. \A r \in Segment : doing'[r] # "none" => r \in calls'.active
    BY <1>1, <2>2, <2>3 DEF Callbacks
  <2>6. \A r \in Segment : asr'.answer[r] # "none"
          => r <= calls'.started /\ (r \in calls'.active => doing'[r] = "asking")
    <3>1. SUFFICES ASSUME NEW r \in Segment, asr'.answer[r] # "none"
                   PROVE  r <= calls'.started /\ (r \in calls'.active => doing'[r] = "asking")
      OBVIOUS
    <3>2. CASE doing'[r] = "asking"
      BY <2>4, <2>5, <3>2
    <3>3. CASE doing'[r] # "asking"
      <4>1. asr.answer[r] # "none"
        BY <1>1, <3>1, <3>3 DEF AsrEffect
      <4>2. r <= calls.started /\ (r \in calls.active => doing[r] = "asking")
        BY <1>1, <4>1 DEF Callbacks
      <4>3. r = s => r \notin calls'.active
        <5>1. SUFFICES ASSUME r = s, doing'[s] # "none"  PROVE FALSE
          BY <2>3
        <5>2. doing[s] = "asking" /\ SegmentStep(s)
          BY <2>1, <2>2, <4>2, <5>1
        <5>3. SegmentAnswered(s)
          BY <5>2 DEF SegmentStep, SegmentIgnored, RecordSegment, SegmentSaved, SegmentNotSaved
        <5> QED  BY <1>1, <5>1, <5>3 DEF SegmentAnswered, AppType
      <4> QED  BY <2>2, <2>3, <3>3, <4>2, <4>3
    <3> QED  BY <3>2, <3>3
  <2> QED  BY <1>1, <2>2, <2>4, <2>5, <2>6 DEF Callbacks, AsrEffect
<1>3. CASE ~\E s \in Segment : SegmentStep(s)
  <2>1. HandsOver /\ doing' = doing /\ recorder'.chunk = recorder.chunk
    BY <1>3, RecordingKept
  <2>2. /\ calls'.started >= calls.started /\ calls'.started \in Nat
        /\ calls.active \subseteq calls'.active
        /\ \A r \in calls'.active : r \in calls.active \/ (r = calls'.started /\ r > calls.started)
    BY <1>1, <2>1 DEF HandsOver
  <2>3. ASSUME NEW r \in calls'.active  PROVE r <= calls'.started
    <3>1. CASE r \in calls.active
      <4>1. r \in Nat /\ r <= calls.started
        BY <1>1, <3>1 DEF Callbacks
      <4> QED  BY <1>1, <2>2, <4>1
    <3>2. CASE r = calls'.started
      BY <2>2, <3>2
    <3> QED  BY <2>2, <3>1, <3>2
  <2>4. \A r \in Segment : doing'[r] # "none" => r \in calls'.active
    BY <1>1, <2>1, <2>2 DEF Callbacks
  <2>5. \A r \in Segment : asr'.answer[r] # "none"
          => r <= calls'.started /\ (r \in calls'.active => doing'[r] = "asking")
    <3>1. SUFFICES ASSUME NEW r \in Segment, asr'.answer[r] # "none"
                   PROVE  r <= calls'.started /\ (r \in calls'.active => doing'[r] = "asking")
      OBVIOUS
    <3>2. CASE doing'[r] = "asking"
      BY <2>3, <2>4, <3>2
    <3>3. CASE doing'[r] # "asking"
      <4>1. asr.answer[r] # "none"
        BY <1>1, <3>1, <3>3 DEF AsrEffect
      <4>2. r <= calls.started /\ (r \in calls.active => doing[r] = "asking")
        BY <1>1, <4>1 DEF Callbacks
      <4> QED  BY <1>1, <2>1, <2>2, <3>3, <4>2
    <3> QED  BY <3>2, <3>3
  <2> QED  BY <1>1, <2>1, <2>3, <2>4, <2>5 DEF Callbacks, AsrEffect
<1> QED  BY <1>2, <1>3

-----------------------------------------------------------------------------
(* The application.                                                        *)

\* A failure detaches the runtime and begins its stop, or comes too late.
LEMMA FailsFields ==
  ASSUME AppType, RuntimeFails
  PROVE  /\ source' \in SourceState /\ runtime' \in RuntimeState /\ stopper' \in StopperState
         /\ source'.kind = source.kind /\ source'.stopRequested = source.stopRequested
         /\ runtime'.error = runtime.error /\ stopper'.failed = stopper.failed
         /\ \/ /\ source' = source /\ runtime' = runtime /\ stopper' = stopper
            \/ /\ source'.status = "failed" /\ ~runtime'.attached
               /\ \/ stopper'.at = stopper.at /\ stopper.at # "no"
                  \/ stopper'.at = "start" /\ stopper.at = "no"
<1>1. source \in SourceState /\ runtime \in RuntimeState /\ stopper \in StopperState
  BY DEF AppType
<1>2. CASE MayFail
  <2>1. /\ runtime' = [runtime EXCEPT !.attached = FALSE, !.timer = FALSE]
        /\ source' = [source EXCEPT !.status = "failed"]
        /\ stopper' = Begin(stopper)
    BY <1>2 DEF RuntimeFails
  <2> QED  BY <1>1, <2>1 DEF SourceState, RuntimeState, StopperState, Begin
<1>3. CASE ~MayFail
  BY <1>1, <1>3 DEF RuntimeFails
<1> QED  BY <1>2, <1>3

\* The recorder gives out what it has.
LEMMA FlushFields ==
  ASSUME AppType, NEW stop, NEW next, FlushesRecorder(stop, next)
  PROVE  /\ recorder' \in RecorderState /\ recorder'.buffered = <<>>
         /\ recorder'.chunk = recorder.chunk
         /\ saved' \subseteq Segment
         /\ stop.at = "flush"
         /\ \E lost \in BOOLEAN :
              /\ next = [at |-> "flushed", failed |-> lost]
              /\ stop.failed => lost
              /\ ~lost => saved' = saved \cup Segments(recorder.buffered)
<1>1. recorder \in RecorderState /\ recorder.buffered \in Seq(Segment) /\ saved \subseteq Segment
  BY DEF AppType, RecorderState
<1>2. Segments(recorder.buffered) \subseteq Segment
  <2>1. \A i \in DOMAIN recorder.buffered : recorder.buffered[i] \in Segment
    BY <1>1, ElementOfSeq, LenProperties
  <2> QED  BY <2>1 DEF Segments
<1>3. recorder' = [recorder EXCEPT !.buffered = <<>>] /\ <<>> \in Seq(Segment)
  BY EmptySeq DEF FlushesRecorder
<1>4. PICK stored \in {Segments(recorder.buffered), {}} :
        /\ saved' = saved \cup stored
        /\ next = [at |-> "flushed", failed |-> stop.failed \/ stored # Segments(recorder.buffered)]
  BY DEF FlushesRecorder
<1> DEFINE lost == stop.failed \/ stored # Segments(recorder.buffered)
<1>5. /\ lost \in BOOLEAN /\ (stop.failed => lost)
      /\ ~lost => saved' = saved \cup Segments(recorder.buffered)
  BY <1>4
<1>6. next = [at |-> "flushed", failed |-> lost]
  BY <1>4
<1>7. saved' \subseteq Segment
  BY <1>1, <1>2, <1>4
<1>8. /\ recorder' \in RecorderState /\ recorder'.buffered = <<>>
      /\ recorder'.chunk = recorder.chunk /\ stop.at = "flush"
  BY <1>1, <1>3 DEF FlushesRecorder, RecorderState
<1> HIDE DEF lost
<1> QED  BY <1>5, <1>6, <1>7, <1>8

\* The stop of the recording begins, is not needed, or is settled.
LEMMA StopMoves ==
  ASSUME NEW stop, NEW next, StopsCapture(stop, next) \/ CaptureStopped(stop, next)
  PROVE  \/ /\ stop.at = "start" /\ capture = "attached"
            /\ next = [stop EXCEPT !.at = "stream"]
         \/ \E lost \in BOOLEAN :
              /\ next = [at |-> "flush", failed |-> lost]
              /\ \/ stop.at = "start" /\ capture # "attached"
                 \/ /\ stop.at = "stream" /\ (stop.failed => lost)
                    /\ ~lost => session.stop = "ok"
<1>1. CASE StopsCapture(stop, next)
  <2>1. StartFailed \in BOOLEAN
    BY DEF StartFailed
  <2> QED  BY <1>1, <2>1 DEF StopsCapture
<1>2. CASE CaptureStopped(stop, next)
  <2> DEFINE lost == stop.failed \/ session.stop = "failed"
  <2>1. /\ lost \in BOOLEAN /\ (stop.failed => lost) /\ (~lost => session.stop # "failed")
    OBVIOUS
  <2>3. stop.at = "stream" /\ session.stop \in Settled
    BY <1>2 DEF CaptureStopped
  <2>4. next = [at |-> "flush", failed |-> lost]
    BY <1>2 DEF CaptureStopped
  <2> HIDE DEF lost
  <2> QED  BY <2>1, <2>3, <2>4 DEF Settled
<1> QED  BY <1>1, <1>2

LEMMA AppKept ==
  ASSUME Base, [Next]_vars
  PROVE  AppType' /\ source'.kind = source.kind
<1>1. /\ AppType /\ source \in SourceState /\ runtime \in RuntimeState /\ capture \in CaptureState
      /\ recorder \in RecorderState /\ saved \subseteq Segment
      /\ doing \in [Segment -> {"none", "saving", "asking"}]
      /\ stopper \in StopperState /\ exiter \in ExiterState
  BY DEF Base, AppType
<1>2. CASE RecordingAlone \/ RecogniserAlone \/ CaptionsAlone \/ UNCHANGED vars
  <2>1. UNCHANGED app
    BY <1>2 DEF RecordingAlone, RecogniserAlone, CaptionsAlone, vars
  <2> QED  BY <1>1, <2>1 DEF app, AppType
<1>3. CASE \E s \in Segment : SegmentStep(s)
  <2>1. PICK s \in Segment : SegmentStep(s)
    BY <1>3
  <2>2. recorder' \in RecorderState /\ doing' \in [Segment -> {"none", "saving", "asking"}]
    BY <2>1, SegmentMoves
  <2>3. UNCHANGED <<source, runtime, capture, stopper, exiter>>
    BY <2>1 DEF SegmentStep, SegmentIgnored, RecordSegment, SegmentAnswered, SegmentSaved,
       SegmentNotSaved, app
  <2>4. saved' \subseteq Segment
    <3>1. saved' = saved \/ saved' = saved \cup recorder.chunk
      BY <2>1 DEF SegmentStep, SegmentIgnored, RecordSegment, SegmentAnswered, SegmentSaved,
         SegmentNotSaved, app
    <3> QED  BY <1>1, <3>1 DEF RecorderState
  <2> QED  BY <1>1, <2>2, <2>3, <2>4 DEF AppType
<1>4. CASE CaptureStep
  <2>1. UNCHANGED <<recorder, saved, doing, exiter>>
    BY <1>4 DEF CaptureStep, OpenCapture, CaptureOpens, CaptureStartFails, AttachCapture,
       LeaveCapture, LooseCaptureStopped
  <2>2. CASE OpenCapture \/ CaptureOpens \/ AttachCapture \/ LeaveCapture
    <3>1. /\ source' \in SourceState /\ runtime' \in RuntimeState /\ capture' \in CaptureState
          /\ stopper' = stopper /\ source'.kind = source.kind
      BY <1>1, <2>2 DEF OpenCapture, CaptureOpens, AttachCapture, LeaveCapture, SourceState,
         RuntimeState, CaptureState
    <3> QED  BY <1>1, <2>1, <3>1 DEF AppType
  <2>3. CASE CaptureStartFails \/ LooseCaptureStopped
    <3>1. capture' = "failed" /\ (RuntimeFails \/ UNCHANGED <<runtime, source, stopper>>)
      BY <2>3 DEF CaptureStartFails, LooseCaptureStopped
    <3> QED  BY <1>1, <2>1, <3>1, FailsFields DEF AppType, CaptureState
  <2> QED  BY <1>4, <2>2, <2>3 DEF CaptureStep
<1>5. CASE StatusStep \/ EndStep
  <2>1. UNCHANGED <<capture, recorder, saved, doing, exiter>>
    BY <1>5 DEF StatusStep, StatusReady, StatusReconnecting, StatusUnavailable, CaptionStored,
       CaptionRejected, EndStep, StartupTimesOut, CaptureReportsFailure, EndSession
  <2>2. CASE RuntimeFails
    BY <1>1, <2>1, <2>2, FailsFields DEF AppType
  <2>3. CASE ~RuntimeFails
    <3>1. /\ source' \in SourceState /\ runtime' \in RuntimeState /\ stopper' \in StopperState
          /\ source'.kind = source.kind
      <4>1. CASE StatusReady \/ StatusReconnecting
        <5>1. /\ \/ source' = source \/ source' = [source EXCEPT !.status = "recording"]
                 \/ source' = [source EXCEPT !.status = "starting"]
              /\ \E timer \in BOOLEAN : runtime' = [runtime EXCEPT !.timer = timer]
              /\ stopper' = stopper
          BY <1>1, <4>1 DEF StatusReady, StatusReconnecting, RuntimeState
        <5> QED  BY <1>1, <5>1 DEF SourceState, RuntimeState
      <4>2. CASE CaptionStored \/ CaptionRejected
        <5>1. /\ \E timer \in BOOLEAN : runtime' = [runtime EXCEPT !.timer = timer]
              /\ source' = source /\ stopper' = stopper
          BY <1>1, <4>2 DEF CaptionStored, CaptionRejected, RuntimeState
        <5> QED  BY <1>1, <5>1 DEF RuntimeState
      <4>3. CASE StartupTimesOut
        BY <1>1, <2>3, <4>3 DEF StartupTimesOut, RuntimeState
      <4>4. CASE EndSession
        BY <1>1, <4>4 DEF EndSession, SourceState, StopperState, Begin
      <4> QED  BY <1>5, <2>3, <4>1, <4>2, <4>3, <4>4 DEF StatusStep, StatusUnavailable, EndStep,
               CaptureReportsFailure
    <3> QED  BY <1>1, <2>1, <3>1 DEF AppType
  <2> QED  BY <2>2, <2>3
<1>6. CASE ExitStep
  <2>1. UNCHANGED <<capture, doing, stopper>>
    BY <1>6 DEF ExitStep, ExitNoted, ExitStopsCapture, ExiterStopsCapture, ExiterWaits,
       ExiterFlushes, ExiterEnds, app
  <2>2. CASE ExiterFlushes
    <3>1. FlushesRecorder(exiter, exiter') /\ UNCHANGED <<source, runtime>>
      BY <2>2 DEF ExiterFlushes
    <3>2. /\ recorder' \in RecorderState /\ saved' \subseteq Segment
          /\ \E lost \in BOOLEAN : exiter' = [at |-> "flushed", failed |-> lost]
      BY <1>1, <3>1, FlushFields
    <3>3. exiter' \in ExiterState
      BY <3>2 DEF ExiterState
    <3> QED  BY <1>1, <2>1, <3>1, <3>2, <3>3 DEF AppType
  <2>3. CASE ~ExiterFlushes
    <3>1. UNCHANGED <<recorder, saved>>
      BY <1>6, <2>3 DEF ExitStep, ExitNoted, ExitStopsCapture, ExiterStopsCapture, ExiterWaits,
         ExiterEnds, app
    <3>2. /\ source' \in SourceState /\ runtime' \in RuntimeState /\ exiter' \in ExiterState
          /\ source'.kind = source.kind
      <4>1. CASE ExitNoted \/ ExitStopsCapture
        BY <1>1, <4>1 DEF ExitNoted, ExitStopsCapture, Begin, app, RuntimeState, ExiterState
      <4>2. CASE ExiterStopsCapture \/ ExiterWaits
        <5>1. exiter' \in ExiterState
          <6>1. \/ exiter' = [exiter EXCEPT !.at = "stream"]
                \/ \E lost \in BOOLEAN : exiter' = [at |-> "flush", failed |-> lost]
            BY <4>2, StopMoves DEF ExiterStopsCapture, ExiterWaits
          <6> QED  BY <1>1, <6>1 DEF ExiterState
        <5> QED  BY <1>1, <4>2, <5>1 DEF ExiterStopsCapture, ExiterWaits
      <4>3. CASE ExiterEnds
        <5> DEFINE e == runtime.error \/ exiter.failed \/ ProcessingError
        <5>1. /\ runtime' = [runtime EXCEPT !.error = e] /\ exiter' = [exiter EXCEPT !.at = "done"]
              /\ source' = source \/ source' = [source EXCEPT !.status = "failed"]
          BY <4>3 DEF ExiterEnds
        <5>2. e \in BOOLEAN
          OBVIOUS
        <5> HIDE DEF e
        <5> QED  BY <1>1, <5>1, <5>2 DEF SourceState, RuntimeState, ExiterState
      <4> QED  BY <1>6, <2>3, <4>1, <4>2, <4>3 DEF ExitStep
    <3> QED  BY <1>1, <2>1, <3>1, <3>2 DEF AppType
  <2> QED  BY <2>2, <2>3
<1>7. CASE StopStep
  <2>1. UNCHANGED <<source, capture, doing, exiter>>
    BY <1>7 DEF StopStep, StopperStopsCapture, StopperWaits, StopperFlushes, StopperStopsAdapter,
       StopperEnds
  <2>2. CASE StopperFlushes
    <3>1. FlushesRecorder(stopper, stopper') /\ UNCHANGED runtime
      BY <2>2 DEF StopperFlushes
    <3>2. /\ recorder' \in RecorderState /\ saved' \subseteq Segment
          /\ \E lost \in BOOLEAN : stopper' = [at |-> "flushed", failed |-> lost]
      BY <1>1, <3>1, FlushFields
    <3>3. stopper' \in StopperState
      BY <3>2 DEF StopperState
    <3> QED  BY <1>1, <2>1, <3>1, <3>2, <3>3 DEF AppType
  <2>3. CASE ~StopperFlushes
    <3>1. UNCHANGED <<recorder, saved>>
      BY <1>7, <2>3 DEF StopStep, StopperStopsCapture, StopperWaits, StopperStopsAdapter,
         StopperEnds
    <3>2. runtime' \in RuntimeState /\ stopper' \in StopperState
      <4>1. CASE StopperStopsCapture \/ StopperWaits
        <5>1. stopper' \in StopperState
          <6>1. \/ stopper' = [stopper EXCEPT !.at = "stream"]
                \/ \E lost \in BOOLEAN : stopper' = [at |-> "flush", failed |-> lost]
            BY <4>1, StopMoves DEF StopperStopsCapture, StopperWaits
          <6> QED  BY <1>1, <6>1 DEF StopperState
        <5> QED  BY <1>1, <4>1, <5>1 DEF StopperStopsCapture, StopperWaits
      <4>3. CASE StopperStopsAdapter
        BY <1>1, <4>3 DEF StopperStopsAdapter, StopperState
      <4>2. CASE StopperEnds
        <5> DEFINE f == stopper.failed \/ AdapterStop = "failed"
        <5>1. /\ runtime' = [runtime EXCEPT !.error = @ \/ f]
              /\ stopper' = [at |-> IF f THEN "failed" ELSE "ok", failed |-> f]
          BY <4>2 DEF StopperEnds
        <5>2. f \in BOOLEAN /\ (runtime.error \/ f) \in BOOLEAN
          OBVIOUS
        <5> HIDE DEF f
        <5>3. stopper' \in StopperState
          BY <5>1, <5>2 DEF StopperState
        <5>4. runtime' \in RuntimeState
          BY <1>1, <5>1, <5>2 DEF RuntimeState
        <5> QED  BY <5>3, <5>4
      <4> QED  BY <1>7, <2>3, <4>1, <4>2, <4>3 DEF StopStep
    <3> QED  BY <1>1, <2>1, <3>1, <3>2 DEF AppType
  <2> QED  BY <2>2, <2>3
<1> QED  BY <1>2, <1>3, <1>4, <1>5, <1>6, <1>7, StepsBySubject

LEMMA LifeKept ==
  ASSUME Base, [Next]_vars
  PROVE  Life'
<1>1. /\ AppType /\ Life /\ source \in SourceState /\ runtime \in RuntimeState
      /\ stopper \in StopperState /\ exiter \in ExiterState /\ capture \in CaptureState
  BY DEF Base, AppType
<1>2. Local' <=> Local
  BY AppKept DEF Local
<1>3. CASE \/ RecordingAlone \/ RecogniserAlone \/ CaptionsAlone \/ UNCHANGED vars
           \/ \E s \in Segment : SegmentStep(s)
  <2>1. UNCHANGED <<source, runtime, capture, stopper, exiter>>
    BY <1>3 DEF RecordingAlone, RecogniserAlone, CaptionsAlone, vars, app, SegmentStep,
       SegmentIgnored, RecordSegment, SegmentAnswered, SegmentSaved, SegmentNotSaved
  <2> QED  BY <1>1, <1>2, <2>1 DEF Life
<1>4. CASE CaptureStep
  <2>1. exiter' = exiter
    BY <1>4 DEF CaptureStep, OpenCapture, CaptureOpens, CaptureStartFails, AttachCapture,
       LeaveCapture, LooseCaptureStopped
  <2>2. CASE OpenCapture \/ CaptureOpens \/ LeaveCapture
    <3>1. /\ source' = source /\ stopper' = stopper /\ runtime'.attached = runtime.attached
          /\ capture # "attached" /\ capture' # "attached"
      BY <1>1, <2>2 DEF OpenCapture, CaptureOpens, LeaveCapture, RuntimeState
    <3> QED  BY <1>1, <1>2, <2>1, <3>1 DEF Life
  <2>3. CASE AttachCapture
    <3>1. /\ stopper' = stopper /\ runtime'.attached = runtime.attached /\ capture' = "attached"
          /\ source'.status = "recording" /\ source'.stopRequested = source.stopRequested
          /\ MayAttach
      BY <1>1, <2>3 DEF AttachCapture, RuntimeState, SourceState
    <3> QED  BY <1>1, <1>2, <2>1, <3>1 DEF Life, MayAttach
  <2>4. CASE CaptureStartFails \/ LooseCaptureStopped
    <3>1. /\ capture' = "failed" /\ capture # "attached"
          /\ RuntimeFails \/ UNCHANGED <<runtime, source, stopper>>
      BY <2>4 DEF CaptureStartFails, LooseCaptureStopped
    <3> QED  BY <1>1, <1>2, <2>1, <3>1, FailsFields DEF Life
  <2> QED  BY <1>4, <2>2, <2>3, <2>4 DEF CaptureStep
<1>5. CASE StatusStep \/ EndStep
  <2>1. UNCHANGED <<capture, exiter>>
    BY <1>5 DEF StatusStep, StatusReady, StatusReconnecting, StatusUnavailable, CaptionStored,
       CaptionRejected, EndStep, StartupTimesOut, CaptureReportsFailure, EndSession
  <2>2. CASE RuntimeFails
    BY <1>1, <1>2, <2>1, <2>2, FailsFields DEF Life
  <2>3. CASE StatusReady \/ StatusReconnecting
    <3>1. /\ ~Local /\ runtime'.attached = runtime.attached /\ stopper' = stopper
          /\ source'.stopRequested = source.stopRequested
          /\ \/ source' = source
             \/ source'.status = "recording" /\ capture = "attached" /\ source.status = "starting"
             \/ source'.status = "starting" /\ source.status = "recording"
      BY <1>1, <2>3 DEF StatusReady, StatusReconnecting, SourceState, RuntimeState
    <3> QED  BY <1>1, <1>2, <2>1, <3>1 DEF Life
  <2>4. CASE CaptionStored \/ CaptionRejected
    <3>1. /\ runtime'.attached = runtime.attached /\ stopper' = stopper /\ source' = source
      BY <1>1, <2>4 DEF CaptionStored, CaptionRejected, RuntimeState
    <3> QED  BY <1>1, <1>2, <2>1, <3>1 DEF Life
  <2>5. CASE StartupTimesOut /\ ~RuntimeFails
    <3>1. /\ runtime'.attached = runtime.attached /\ stopper' = stopper /\ source' = source
      BY <1>1, <2>5 DEF StartupTimesOut, RuntimeState
    <3> QED  BY <1>1, <1>2, <2>1, <3>1 DEF Life
  <2>6. CASE EndSession
    <3>1. /\ runtime' = runtime /\ source'.status = source.status /\ source'.stopRequested
      BY <1>1, <2>6 DEF EndSession, SourceState
    <3> QED  BY <1>1, <1>2, <2>1, <3>1 DEF Life
  <2> QED  BY <1>5, <2>2, <2>3, <2>4, <2>5, <2>6 DEF StatusStep, StatusUnavailable, EndStep,
           CaptureReportsFailure
<1>6. CASE ExitStep
  <2>1. UNCHANGED <<capture, stopper>>
    BY <1>6 DEF ExitStep, ExitNoted, ExitStopsCapture, ExiterStopsCapture, ExiterWaits,
       ExiterFlushes, ExiterEnds, app
  <2>2. CASE ExitNoted
    BY <1>1, <1>2, <2>2 DEF ExitNoted, app, Life
  <2>3. CASE ExitStopsCapture
    <3>1. source' = source /\ ~runtime'.attached /\ exiter'.at = "start"
      BY <1>1, <2>3 DEF ExitStopsCapture, Begin, RuntimeState, ExiterState
    <3> QED  BY <1>1, <1>2, <2>1, <3>1 DEF Life
  <2>4. CASE ExiterStopsCapture \/ ExiterWaits \/ ExiterFlushes
    <3>1. UNCHANGED <<source, runtime>> /\ exiter.at # "no"
      BY <2>4 DEF ExiterStopsCapture, StopsCapture, ExiterWaits, CaptureStopped, ExiterFlushes,
         FlushesRecorder
    <3>2. exiter'.at # "no"
      <4>1. CASE ExiterFlushes
        BY <1>1, <4>1, FlushFields DEF ExiterFlushes
      <4>2. CASE ExiterStopsCapture \/ ExiterWaits
        BY <1>1, <4>2, StopMoves DEF ExiterStopsCapture, ExiterWaits, ExiterState
      <4> QED  BY <2>4, <4>1, <4>2
    <3> QED  BY <1>1, <1>2, <2>1, <3>1, <3>2 DEF Life
  <2>5. CASE ExiterEnds
    <3>1. /\ exiter.at = "flushed" /\ exiter'.at = "done" /\ runtime'.attached = runtime.attached
          /\ source' = source \/ source'.status = "failed"
      BY <1>1, <2>5 DEF ExiterEnds, RuntimeState, ExiterState, SourceState
    <3> QED  BY <1>1, <1>2, <2>1, <3>1 DEF Life
  <2> QED  BY <1>6, <2>2, <2>3, <2>4, <2>5 DEF ExitStep
<1>7. CASE StopStep
  <2>1. /\ UNCHANGED <<source, capture, exiter>> /\ runtime'.attached = runtime.attached
        /\ stopper.at # "no"
    BY <1>1, <1>7 DEF StopStep, StopperStopsCapture, StopsCapture, StopperWaits, CaptureStopped,
       StopperFlushes, FlushesRecorder, StopperStopsAdapter, StopperEnds, RuntimeState
  <2> QED  BY <1>1, <1>2, <2>1 DEF Life
<1> QED  BY <1>3, <1>4, <1>5, <1>6, <1>7, StepsBySubject

LEMMA FailuresKept ==
  ASSUME Base, [Next]_vars
  PROVE  Failures'
<1>1. /\ AppType /\ Life /\ Failures /\ source \in SourceState /\ runtime \in RuntimeState
      /\ stopper \in StopperState /\ exiter \in ExiterState /\ capture \in CaptureState
  BY DEF Base, AppType
<1>2. session.stop = "ok" => session'.stop = "ok"
  <2>1. CASE \E s \in Segment : SegmentStep(s)
    BY <2>1, SegmentMoves DEF RecordingSteady
  <2> QED  BY <2>1, RecordingKept DEF RecordingSteady
<1>3. CASE \/ RecordingAlone \/ RecogniserAlone \/ CaptionsAlone \/ UNCHANGED vars
           \/ \E s \in Segment : SegmentStep(s)
  <2>1. UNCHANGED <<source, runtime, capture, stopper, exiter>>
    BY <1>3 DEF RecordingAlone, RecogniserAlone, CaptionsAlone, vars, app, SegmentStep,
       SegmentIgnored, RecordSegment, SegmentAnswered, SegmentSaved, SegmentNotSaved
  <2> QED  BY <1>1, <1>2, <2>1 DEF Failures
<1>4. CASE CaptureStep \/ StatusStep \/ EndStep
  <2>1. exiter' = exiter /\ runtime'.error = runtime.error
    <3>1. exiter' = exiter /\ (RuntimeFails => runtime'.error = runtime.error)
      BY <1>1, <1>4, FailsFields DEF CaptureStep, OpenCapture, CaptureOpens, CaptureStartFails,
         AttachCapture, LeaveCapture, LooseCaptureStopped, StatusStep, StatusReady,
         StatusReconnecting, StatusUnavailable, CaptionStored, CaptionRejected, EndStep,
         StartupTimesOut, CaptureReportsFailure, EndSession
    <3>2. CASE CaptureStep /\ ~RuntimeFails
      BY <1>1, <3>2 DEF CaptureStep, OpenCapture, CaptureOpens, CaptureStartFails,
         AttachCapture, LeaveCapture, LooseCaptureStopped, RuntimeState
    <3>3. CASE (StatusStep \/ EndStep) /\ ~RuntimeFails
      BY <1>1, <3>3 DEF StatusStep, StatusReady, StatusReconnecting, StatusUnavailable,
         CaptionStored, CaptionRejected, EndStep, StartupTimesOut, CaptureReportsFailure,
         EndSession, RuntimeState
    <3> QED  BY <1>4, <3>1, <3>2, <3>3
  <2>2. /\ stopper'.failed = stopper.failed
        /\ stopper'.at = stopper.at \/ (stopper.at = "no" /\ stopper'.at = "start")
    <3>1. CASE RuntimeFails
      BY <1>1, <3>1, FailsFields
    <3>2. CASE stopper' = stopper
      BY <3>2
    <3>3. CASE EndSession
      BY <1>1, <3>3 DEF EndSession, Begin, StopperState
    <3> QED  BY <1>4, <3>1, <3>2, <3>3 DEF CaptureStep, OpenCapture, CaptureOpens,
             CaptureStartFails, AttachCapture, LeaveCapture, LooseCaptureStopped, StatusStep,
             StatusReady, StatusReconnecting, StatusUnavailable, CaptionStored, CaptionRejected,
             EndStep, StartupTimesOut, CaptureReportsFailure
  <2>3. capture' = "attached" => capture = "attached" \/ stopper.at = "no"
    <3>1. CASE AttachCapture
      BY <1>1, <3>1 DEF AttachCapture, MayAttach, Life
    <3>2. CASE ~AttachCapture
      BY <1>4, <3>2 DEF CaptureStep, OpenCapture, CaptureOpens, CaptureStartFails,
         LeaveCapture, LooseCaptureStopped, StatusStep, StatusReady, StatusReconnecting,
         StatusUnavailable, CaptionStored, CaptionRejected, EndStep, StartupTimesOut,
         CaptureReportsFailure, EndSession
    <3> QED  BY <3>1, <3>2
  <2> QED  BY <1>1, <1>2, <2>1, <2>2, <2>3 DEF Failures
<1>5. CASE ExitStep
  <2>1. UNCHANGED <<capture, stopper>>
    BY <1>5 DEF ExitStep, ExitNoted, ExitStopsCapture, ExiterStopsCapture, ExiterWaits,
       ExiterFlushes, ExiterEnds, app
  <2>2. \/ exiter' = exiter /\ runtime' = runtime
        \/ exiter'.at \in {"start", "stream"} /\ exiter'.failed = exiter.failed
           /\ exiter.at \in {"no", "start"} 
        \/ exiter'.at \in {"flush", "flushed"}
        \/ exiter'.at = "done" /\ (exiter'.failed => runtime'.error)
    <3>1. CASE ExitNoted
      BY <3>1 DEF ExitNoted, app
    <3>2. CASE ExitStopsCapture
      BY <1>1, <3>2 DEF ExitStopsCapture, Begin, ExiterState
    <3>3. CASE ExiterStopsCapture \/ ExiterWaits
      BY <1>1, <3>3, StopMoves DEF ExiterStopsCapture, ExiterWaits, ExiterState
    <3>4. CASE ExiterFlushes
      BY <1>1, <3>4, FlushFields DEF ExiterFlushes
    <3>5. CASE ExiterEnds
      BY <1>1, <3>5 DEF ExiterEnds, ExiterState, RuntimeState
    <3> QED  BY <1>5, <3>1, <3>2, <3>3, <3>4, <3>5 DEF ExitStep
  <2> QED  BY <1>1, <1>2, <2>1, <2>2 DEF Failures
<1>6. CASE StopStep
  <2>1. UNCHANGED <<capture, exiter>> /\ (runtime.error => runtime'.error)
    BY <1>1, <1>6 DEF StopStep, StopperStopsCapture, StopperWaits, StopperFlushes,
       StopperStopsAdapter, StopperEnds, RuntimeState
  <2>2. \/ stopper'.at = "stream" /\ stopper'.failed = stopper.failed /\ stopper.at = "start"
        \/ stopper'.at = "flush"
           /\ (capture = "attached" /\ ~stopper'.failed => session.stop = "ok")
        \/ stopper'.at \in {"flushed", "adapter"} /\ (stopper.failed => stopper'.failed)
           /\ stopper.at \in {"flush", "flushed"}
        \/ stopper'.at = "ok" /\ ~stopper'.failed /\ ~stopper.failed /\ stopper.at = "adapter"
        \/ stopper'.at = "failed" /\ stopper'.failed
    <3>1. CASE StopperStopsCapture \/ StopperWaits
      BY <1>1, <3>1, StopMoves DEF StopperStopsCapture, StopperWaits, StopperState
    <3>2. CASE StopperFlushes
      BY <1>1, <3>2, FlushFields DEF StopperFlushes
    <3>3. CASE StopperStopsAdapter
      BY <1>1, <3>3 DEF StopperStopsAdapter, StopperState
    <3>4. CASE StopperEnds
      BY <1>1, <3>4 DEF StopperEnds, StopperState
    <3> QED  BY <1>6, <3>1, <3>2, <3>3, <3>4 DEF StopStep
  <2> QED  BY <1>1, <1>2, <2>1, <2>2 DEF Failures
<1> QED  BY <1>3, <1>4, <1>5, <1>6, StepsBySubject

\* How far those who stop the runtime, and the recording, go in a step.
LEMMA StopsGoOn ==
  ASSUME Base, [Next]_vars
  PROVE  /\ stopper.at \in {"adapter", "ok", "failed"} => stopper'.at \in {"adapter", "ok", "failed"}
         /\ stopper'.at = "ok" => AdapterStop = "ok"
         /\ capture' \in {"opening", "opened", "loose"}
              => \/ capture \in {"opening", "opened"}
                 \/ capture = "loose"
                 \/ asr' = asr /\ (Local => asr.processing = "ready")
         /\ exiter'.at # "no" => exiter.at # "no" \/ (Exiting /\ UNCHANGED <<asr, cap>>)
         /\ exiter'.at \in {"start", "stream", "flush", "flushed"}
              => \/ exiter.at \in {"start", "stream", "flush", "flushed"}
                 \/ Exiting /\ UNCHANGED <<asr, cap>>
<1>1. /\ AppType /\ Links /\ stopper \in StopperState /\ exiter \in ExiterState
      /\ capture \in CaptureState
  BY DEF Base, AppType
<1>2. CASE \/ RecordingAlone \/ RecogniserAlone \/ CaptionsAlone \/ UNCHANGED vars
           \/ \E s \in Segment : SegmentStep(s)
  <2>1. UNCHANGED <<capture, stopper, exiter>>
    BY <1>2 DEF RecordingAlone, RecogniserAlone, CaptionsAlone, vars, app, SegmentStep,
       SegmentIgnored, RecordSegment, SegmentAnswered, SegmentSaved, SegmentNotSaved
  <2> QED  BY <1>1, <2>1 DEF Links, CaptureState
<1>3. CASE CaptureStep \/ StatusStep \/ EndStep
  <2>1. exiter' = exiter
    BY <1>3 DEF CaptureStep, OpenCapture, CaptureOpens, CaptureStartFails, AttachCapture,
       LeaveCapture, LooseCaptureStopped, StatusStep, StatusReady, StatusReconnecting,
       StatusUnavailable, CaptionStored, CaptionRejected, EndStep, StartupTimesOut,
       CaptureReportsFailure, EndSession
  <2>2. stopper'.at = stopper.at \/ (stopper.at = "no" /\ stopper'.at = "start")
    <3>1. CASE RuntimeFails
      BY <1>1, <3>1, FailsFields
    <3>2. CASE stopper' = stopper
      BY <3>2
    <3>3. CASE EndSession
      BY <1>1, <3>3 DEF EndSession, Begin, StopperState
    <3> QED  BY <1>3, <3>1, <3>2, <3>3 DEF CaptureStep, OpenCapture, CaptureOpens,
             CaptureStartFails, AttachCapture, LeaveCapture, LooseCaptureStopped, StatusStep,
             StatusReady, StatusReconnecting, StatusUnavailable, CaptionStored, CaptionRejected,
             EndStep, StartupTimesOut, CaptureReportsFailure
  <2>3. \/ capture' = capture \/ capture' \in {"attached", "failed"}
        \/ capture \in {"opening", "opened"}
        \/ asr' = asr /\ (Local => asr.processing = "ready")
    BY <1>3 DEF CaptureStep, OpenCapture, CaptureOpens, CaptureStartFails, AttachCapture,
       LeaveCapture, LooseCaptureStopped, StatusStep, StatusReady, StatusReconnecting,
       StatusUnavailable, CaptionStored, CaptionRejected, EndStep, StartupTimesOut,
       CaptureReportsFailure, EndSession
  <2> QED  BY <1>1, <2>1, <2>2, <2>3 DEF Links, CaptureState
<1>4. CASE ExitStep
  <2>1. UNCHANGED <<capture, stopper>>
    BY <1>4 DEF ExitStep, ExitNoted, ExitStopsCapture, ExiterStopsCapture, ExiterWaits,
       ExiterFlushes, ExiterEnds, app
  <2>2. \/ exiter' = exiter \/ exiter.at \in {"start", "stream", "flush", "flushed"}
        \/ Exiting /\ UNCHANGED <<asr, cap>>
    BY <1>4 DEF ExitStep, ExitNoted, ExitStopsCapture, ExiterStopsCapture, StopsCapture,
       ExiterWaits, CaptureStopped, ExiterFlushes, FlushesRecorder, ExiterEnds, app, asrVars
  <2> QED  BY <1>1, <2>1, <2>2 DEF Links, CaptureState
<1>5. CASE StopStep
  <2>1. UNCHANGED <<capture, exiter>>
    BY <1>5 DEF StopStep, StopperStopsCapture, StopperWaits, StopperFlushes, StopperStopsAdapter,
       StopperEnds
  <2>2. \/ stopper'.at \in {"stream", "flush", "flushed", "adapter"}
           /\ stopper.at \notin {"adapter", "ok", "failed"}
        \/ stopper'.at = "ok" /\ AdapterStop = "ok"
        \/ stopper'.at = "failed"
    <3>1. CASE StopperStopsCapture \/ StopperWaits
      BY <1>1, <3>1, StopMoves DEF StopperStopsCapture, StopperWaits, StopperState
    <3>2. CASE StopperFlushes
      BY <1>1, <3>2, FlushFields DEF StopperFlushes
    <3>3. CASE StopperStopsAdapter
      BY <1>1, <3>3 DEF StopperStopsAdapter, StopperState
    <3>4. CASE StopperEnds
      BY <1>1, <3>4 DEF StopperEnds, StopperState, Settled
    <3> QED  BY <1>5, <3>1, <3>2, <3>3, <3>4 DEF StopStep
  <2> QED  BY <1>1, <2>1, <2>2 DEF CaptureState
<1> QED  BY <1>2, <1>3, <1>4, <1>5, StepsBySubject

LEMMA LinksKept ==
  ASSUME Base, [Next]_vars
  PROVE  Links'
<1>1. /\ AsrInv /\ CapInv /\ Links /\ AsrEffect /\ CapEffect
      /\ (Local' <=> Local) /\ exiter' \in ExiterState
      /\ stopper' \in StopperState
  BY RecogniserEffects, HelperEffects, AppKept DEF Base, Local, AppType
<1>2. /\ stopper.at \in {"adapter", "ok", "failed"} => stopper'.at \in {"adapter", "ok", "failed"}
      /\ stopper'.at = "ok" => AdapterStop = "ok"
      /\ capture' \in {"opening", "opened", "loose"}
           => \/ capture \in {"opening", "opened"}
              \/ capture = "loose"
              \/ asr' = asr /\ (Local => asr.processing = "ready")
      /\ exiter'.at # "no" => exiter.at # "no" \/ (Exiting /\ UNCHANGED <<asr, cap>>)
      /\ exiter'.at \in {"start", "stream", "flush", "flushed"}
           => \/ exiter.at \in {"start", "stream", "flush", "flushed"}
              \/ Exiting /\ UNCHANGED <<asr, cap>>
  BY StopsGoOn
<1>3. /\ asr'.stop # "no" => stopper'.at \in {"adapter", "ok", "failed"}
      /\ cap'.stop # "no" => stopper'.at \in {"adapter", "ok", "failed"}
  BY <1>1, <1>2 DEF Links, AsrEffect, CapEffect
<1>4. stopper'.at = "ok" => AdapterStop' = "ok"
  BY <1>1, <1>2 DEF AdapterStop, AsrEffect, CapEffect
<1>5. /\ Local => cap'.processing = "idle"
      /\ ~Local => asr'.processing = "idle"
  BY <1>1 DEF Links, AsrEffect, CapEffect
<1>6. Local /\ capture' \in {"opening", "opened", "loose"} => asr'.processing = "ready"
  BY <1>1, <1>2 DEF Links, AsrEffect
<1>7. Exiting => IF Local THEN asr.processing = "exit" /\ ~asr.child
                 ELSE cap.processing = "exit" /\ cap.proc = "exited"
  BY <1>1 DEF Exiting, Links, AsrInv, AsrOK, Exits, CapInv, CapLast
<1>8. exiter'.at # "no" => IF Local THEN ~asr'.child ELSE cap'.proc = "exited"
  BY <1>1, <1>2, <1>7 DEF Links, AsrEffect, CapEffect
<1>9. exiter'.at \in {"start", "stream", "flush", "flushed"}
        => IF Local THEN asr'.processing = "exit" ELSE cap'.processing = "exit"
  BY <1>1, <1>2, <1>7 DEF Links, AsrEffect, CapEffect
<1> QED  BY <1>1, <1>3, <1>4, <1>5, <1>6, <1>8, <1>9 DEF Links

LEMMA BaseKept ==
  ASSUME Base, [Next]_vars
  PROVE  Base'
<1>1. WasapiInv'
  BY WasapiStep DEF Base
<1>2. AsrInv' /\ CapInv'
  BY RecogniserEffects, HelperEffects DEF AsrEffect, CapEffect
<1> QED  BY <1>1, <1>2, AppKept, LifeKept, FailuresKept, LinksKept, CallbacksKept DEF Base

LEMMA BaseStarts == Init => Base
<1> SUFFICES ASSUME Init  PROVE Base
  OBVIOUS
<1>1. WasapiInv
  BY RecordingStarts
<1>2. /\ AsrInv /\ asr.processing = "idle" /\ asr.stop = "no" /\ asr.request = 0
      /\ \A r \in 1 .. Shutdown : asr.answer[r] = "none"
  BY AsrStarts DEF Init
<1>3. CapInv /\ cap.processing = "idle" /\ cap.stop = "no"
  BY CapStarts DEF Init
<1>4. AppType
  <2>1. <<>> \in Seq(Segment)
    BY EmptySeq
  <2>2. /\ source \in SourceState
        /\ runtime \in RuntimeState /\ capture \in CaptureState /\ saved \subseteq Segment
        /\ stopper \in StopperState /\ exiter \in ExiterState
    BY DEF Init, SourceState, RuntimeState, CaptureState, StopperState, ExiterState
  <2>3. recorder \in RecorderState /\ doing \in [Segment -> {"none", "saving", "asking"}]
    BY <2>1 DEF Init, RecorderState, Segment
  <2> QED  BY <2>2, <2>3 DEF AppType
<1>5. Life /\ Failures
  BY DEF Init, Life, Failures
<1>6. Links
  BY <1>2, <1>3 DEF Init, Links
<1>7. Callbacks
  BY <1>2, Requests DEF Init, WasapiInit, Callbacks, Segment
<1> QED  BY <1>1, <1>2, <1>3, <1>4, <1>5, <1>6, <1>7 DEF Base

\* The types of all four parts.
LEMMA BaseTypes == Base => TypeOK
BY DEF Base, TypeOK, WasapiInv, WasapiType, DeviceState, StreamState, LoopState, SessionState,
   CallsState, AsrInv, AsrOK, AsrState, AsrStops, CapInv, CapState, AppType, SourceState,
   CaptureState, RecorderState, StopperState, ExiterState

LEMMA CreditedIsHeard == Base => AnswersAreGenuine
BY DEF Base, AsrInv, AsrOK, Credited, AnswersAreGenuine

\* The state of the recording, of both adapters and of the application stays well
\* formed: no callback takes a place of another, and no index leaves its range.
THEOREM RuntimeTypesOK == Spec => []TypeOK
<1> QED  BY BaseStarts, BaseKept, BaseTypes, PTL DEF Spec

\* A request that the adapter reports as done was carried out by the recogniser, even
\* when answers come late, are cut off by a kill or belong to another request
\* (localAsrProcessAdapter: handleTranscript, handleResult and rejectOutstanding).
THEOREM AnswersAlwaysGenuine == Spec => []AnswersAreGenuine
<1> QED  BY BaseStarts, BaseKept, CreditedIsHeard, PTL DEF Spec

-----------------------------------------------------------------------------
(* The account of the sound.                                               *)

\* The farewell of a helper follows the stop.
LEMMA FarewellIsLate ==
  ASSUME Base, Farewell
  PROVE  stopper.at \in {"adapter", "ok", "failed"}
<1>1. AsrInv /\ CapInv /\ Links
  BY DEF Base
<1>2. CASE Local
  <2>1. asr.stop # "no"
    BY <1>1, <1>2 DEF Farewell, AsrInv, AsrOK, Farewells
  <2> QED  BY <1>1, <2>1 DEF Links
<1>3. CASE ~Local
  <2>1. cap.stop # "no"
    BY <1>1, <1>3 DEF Farewell, CapInv, CapLast
  <2> QED  BY <1>1, <2>1 DEF Links
<1> QED  BY <1>2, <1>3

\* While there is hope, a callback runs only before the recorder is flushed, for a
\* source that wants its segment.
LEMMA HopefulCallback ==
  ASSUME Base, Hopeful, calls.active # {}
  PROVE  stopper.at \in {"no", "start", "stream"} /\ exiter.at = "no" /\ Wanted
<1>1. WasapiInv /\ AppType /\ Life /\ Failures
  BY DEF Base
<1>2. session.stop # "ok"
  BY <1>1, StoppedIsIdle
<1>3. stopper.at \in {"no", "start", "stream"}
  <2>1. CASE capture = "attached"
    <3>1. stopper.at \notin {"flush", "flushed", "adapter", "ok", "failed"}
      BY <1>1, <1>2, <2>1 DEF Failures, Hopeful
    <3> QED  BY <1>1, <3>1 DEF AppType, StopperState
  <2>2. CASE capture # "attached"
    BY <1>1, <2>2 DEF Hopeful, MayAttach, Life
  <2> QED  BY <2>1, <2>2
<1>4. exiter.at = "no"
  BY <1>3, FarewellIsLate DEF Hopeful
<1>5. runtime.attached /\ source.status \in {"starting", "recording"}
  BY <1>1, <1>4 DEF Hopeful, Life, AppType, SourceState
<1>6. ASSUME Local, source.stopRequested  PROVE source.status = "recording"
  BY <1>1, <1>5, <1>6 DEF Hopeful, MayAttach, Life
<1> QED  BY <1>3, <1>4, <1>5, <1>6 DEF Wanted

\* Hope that is lost does not come back.
LEMMA HopeIsLost ==
  ASSUME Base, [Next]_vars, Hopeful'
  PROVE  Hopeful
<1>1. /\ AppType /\ Life /\ Failures /\ Links /\ source \in SourceState
      /\ runtime \in RuntimeState /\ stopper \in StopperState /\ exiter \in ExiterState
      /\ capture \in CaptureState
  BY DEF Base, AppType
<1>2. session.failed => session'.failed
  <2>1. CASE \E s \in Segment : SegmentStep(s)
    BY <2>1, SegmentMoves DEF RecordingSteady
  <2> QED  BY <2>1, RecordingKept DEF RecordingSteady
<1>3. exiter.at # "no" => (Farewell' => Farewell)
  <2>1. AsrEffect /\ CapEffect /\ source'.kind = source.kind
    BY RecogniserEffects, HelperEffects, AppKept
  <2> QED  BY <1>1, <2>1 DEF Links, AsrEffect, CapEffect, Farewell, Local
<1>4. /\ source.status = "failed" => source'.status = "failed"
      /\ stopper.failed => stopper'.failed
      /\ exiter.failed => exiter'.failed
      /\ exiter.at # "no" => exiter'.at # "no"
      /\ capture' = "attached" => capture = "attached" \/ (capture = "opened" /\ MayAttach)
      /\ capture' # "attached" => capture # "attached" /\ (MayAttach' => MayAttach)
      /\ capture' \in {"none", "opening", "opened"} => capture \in {"none", "opening", "opened"}
  <2>1. CASE \/ RecordingAlone \/ RecogniserAlone \/ CaptionsAlone \/ UNCHANGED vars
             \/ \E s \in Segment : SegmentStep(s)
    <3>1. UNCHANGED <<source, runtime, capture, stopper, exiter>>
      BY <2>1 DEF RecordingAlone, RecogniserAlone, CaptionsAlone, vars, app, SegmentStep,
         SegmentIgnored, RecordSegment, SegmentAnswered, SegmentSaved, SegmentNotSaved
    <3> QED  BY <3>1 DEF MayAttach
  <2>2. CASE CaptureStep
    <3>1. exiter' = exiter
      BY <2>2 DEF CaptureStep, OpenCapture, CaptureOpens, CaptureStartFails, AttachCapture,
         LeaveCapture, LooseCaptureStopped
    <3>2. CASE OpenCapture \/ CaptureOpens \/ LeaveCapture
      <4>1. /\ source' = source /\ stopper' = stopper /\ runtime'.attached = runtime.attached
            /\ capture \in {"none", "opening", "opened"} /\ capture' # "attached"
        BY <1>1, <3>2 DEF OpenCapture, CaptureOpens, LeaveCapture, RuntimeState
      <4> QED  BY <3>1, <4>1 DEF MayAttach
    <3>3. CASE AttachCapture
      BY <1>1, <3>1, <3>3 DEF AttachCapture, MayAttach, SourceState
    <3>4. CASE CaptureStartFails \/ LooseCaptureStopped
      <4>1. /\ capture \in {"opening", "loose"} /\ capture' = "failed"
            /\ RuntimeFails \/ UNCHANGED <<runtime, source, stopper>>
        BY <3>4 DEF CaptureStartFails, LooseCaptureStopped
      <4> QED  BY <1>1, <3>1, <4>1, FailsFields DEF MayAttach
    <3> QED  BY <2>2, <3>2, <3>3, <3>4 DEF CaptureStep
  <2>3. CASE StatusStep \/ EndStep
    <3>1. UNCHANGED <<capture, exiter>>
      BY <2>3 DEF StatusStep, StatusReady, StatusReconnecting, StatusUnavailable, CaptionStored,
         CaptionRejected, EndStep, StartupTimesOut, CaptureReportsFailure, EndSession
    <3>2. CASE RuntimeFails
      BY <1>1, <3>1, <3>2, FailsFields DEF MayAttach
    <3>3. CASE StatusReady \/ StatusReconnecting
      <4>1. /\ runtime'.attached = runtime.attached /\ stopper' = stopper
            /\ source'.stopRequested = source.stopRequested
            /\ \/ source' = source
               \/ source.status = "starting"
               \/ source'.status = "starting" /\ source.status = "recording"
        BY <1>1, <3>3 DEF StatusReady, StatusReconnecting, SourceState, RuntimeState
      <4> QED  BY <1>1, <3>1, <4>1 DEF MayAttach, Life
    <3>4. CASE (CaptionStored \/ CaptionRejected \/ StartupTimesOut) /\ ~RuntimeFails
      <4>1. source' = source /\ stopper' = stopper /\ runtime'.attached = runtime.attached
        BY <1>1, <3>4 DEF CaptionStored, CaptionRejected, StartupTimesOut, RuntimeState
      <4> QED  BY <3>1, <4>1 DEF MayAttach
    <3>5. CASE EndSession
      BY <1>1, <3>1, <3>5 DEF EndSession, Begin, SourceState, StopperState, MayAttach
    <3> QED  BY <2>3, <3>2, <3>3, <3>4, <3>5 DEF StatusStep, StatusUnavailable, EndStep,
             CaptureReportsFailure
  <2>4. CASE ExitStep
    <3>1. UNCHANGED <<capture, stopper>>
      BY <2>4 DEF ExitStep, ExitNoted, ExitStopsCapture, ExiterStopsCapture, ExiterWaits,
         ExiterFlushes, ExiterEnds, app
    <3>2. /\ source.status = "failed" => source'.status = "failed"
          /\ MayAttach' => MayAttach
      BY <1>1, <2>4 DEF ExitStep, ExitNoted, ExitStopsCapture, ExiterStopsCapture, ExiterWaits,
         ExiterFlushes, ExiterEnds, app, MayAttach, SourceState, RuntimeState
    <3>3. /\ exiter.failed => exiter'.failed
          /\ exiter.at # "no" => exiter'.at # "no"
      <4>1. CASE ExitNoted \/ ExitStopsCapture \/ ExiterEnds
        BY <1>1, <4>1 DEF ExitNoted, ExitStopsCapture, ExiterEnds, app, Begin, ExiterState
      <4>2. CASE ExiterStopsCapture \/ ExiterWaits
        BY <1>1, <4>2, StopMoves DEF ExiterStopsCapture, ExiterWaits, ExiterState, Failures
      <4>3. CASE ExiterFlushes
        BY <1>1, <4>3, FlushFields DEF ExiterFlushes
      <4> QED  BY <2>4, <4>1, <4>2, <4>3 DEF ExitStep
    <3> QED  BY <3>1, <3>2, <3>3
  <2>5. CASE StopStep
    <3>1. UNCHANGED <<source, capture, exiter>> /\ runtime'.attached = runtime.attached
      BY <1>1, <2>5 DEF StopStep, StopperStopsCapture, StopperWaits, StopperFlushes,
         StopperStopsAdapter, StopperEnds, RuntimeState
    <3>2. stopper.failed => stopper'.failed
      <4>1. CASE StopperStopsCapture \/ StopperWaits
        BY <1>1, <4>1, StopMoves DEF StopperStopsCapture, StopperWaits, StopperState, Failures
      <4>2. CASE StopperFlushes
        BY <1>1, <4>2, FlushFields DEF StopperFlushes
      <4>3. CASE StopperStopsAdapter \/ StopperEnds
        BY <1>1, <4>3 DEF StopperStopsAdapter, StopperEnds, StopperState
      <4> QED  BY <2>5, <4>1, <4>2, <4>3 DEF StopStep
    <3> QED  BY <3>1, <3>2 DEF MayAttach
  <2> QED  BY <2>1, <2>2, <2>3, <2>4, <2>5, StepsBySubject
<1> QED  BY <1>1, <1>2, <1>3, <1>4 DEF Hopeful, CaptureState

\* Only a flush takes segments out of the recorder.
LEMMA SoundKept ==
  ASSUME Base, [Next]_vars, ~\E s \in Segment : SegmentStep(s)
  PROVE  \/ /\ saved' = saved /\ recorder' = recorder
            /\ stopper'.at \in {"flushed", "adapter", "ok"}
                 => stopper.at \in {"flushed", "adapter", "ok"}
         \/ /\ recorder'.buffered = <<>> /\ recorder'.chunk = recorder.chunk
            /\ \/ saved' = saved \cup Segments(recorder.buffered)
               \/ stopper'.failed \/ exiter'.failed
<1>1. AppType /\ stopper \in StopperState /\ exiter \in ExiterState
  BY DEF Base, AppType
<1>2. CASE StopperFlushes \/ ExiterFlushes
  BY <1>1, <1>2, FlushFields DEF StopperFlushes, ExiterFlushes
<1>3. CASE ~(StopperFlushes \/ ExiterFlushes)
  <2>1. saved' = saved /\ recorder' = recorder
    <3>1. CASE \/ RecordingAlone \/ RecogniserAlone \/ CaptionsAlone \/ UNCHANGED vars
               \/ CaptureStep
      BY <3>1 DEF RecordingAlone, RecogniserAlone, CaptionsAlone, vars, app, CaptureStep,
         OpenCapture, CaptureOpens, CaptureStartFails, AttachCapture, LeaveCapture,
         LooseCaptureStopped
    <3>2. CASE StatusStep \/ EndStep
      BY <3>2 DEF StatusStep, StatusReady, StatusReconnecting, StatusUnavailable, CaptionStored,
         CaptionRejected, EndStep, StartupTimesOut, CaptureReportsFailure, EndSession
    <3>3. CASE ExitStep \/ StopStep
      BY <1>3, <3>3 DEF ExitStep, ExitNoted, ExitStopsCapture, ExiterStopsCapture, ExiterWaits,
         ExiterEnds, app, StopStep, StopperStopsCapture, StopperWaits, StopperStopsAdapter,
         StopperEnds
    <3> QED  BY <3>1, <3>2, <3>3, StepsBySubject
  <2>2. stopper'.at \in {"flushed", "adapter", "ok"} => stopper.at \in {"flushed", "adapter", "ok"}
    <3>1. CASE stopper' = stopper
      BY <3>1
    <3>2. CASE RuntimeFails
      BY <1>1, <3>2, FailsFields
    <3>3. CASE EndSession
      BY <1>1, <3>3 DEF EndSession, Begin, StopperState
    <3>4. CASE StopperStopsCapture \/ StopperWaits
      BY <1>1, <3>4, StopMoves DEF StopperStopsCapture, StopperWaits, StopperState
    <3>5. CASE StopperStopsAdapter \/ StopperEnds
      BY <3>5 DEF StopperStopsAdapter, StopperEnds
    <3>6. CASE RecordingAlone \/ RecogniserAlone \/ CaptionsAlone \/ UNCHANGED vars \/ ExitStep
      BY <3>1, <3>6 DEF RecordingAlone, RecogniserAlone, CaptionsAlone, vars, app, ExitStep,
         ExitNoted, ExitStopsCapture, ExiterStopsCapture, ExiterWaits, ExiterFlushes, ExiterEnds
    <3>7. CASE CaptureStep \/ StatusStep \/ EndStep
      BY <3>1, <3>2, <3>3, <3>7 DEF CaptureStep, OpenCapture, CaptureOpens, CaptureStartFails,
         AttachCapture, LeaveCapture, LooseCaptureStopped, StatusStep, StatusReady,
         StatusReconnecting, StatusUnavailable, CaptionStored, CaptionRejected, EndStep,
         StartupTimesOut, CaptureReportsFailure
    <3>8. CASE StopStep
      BY <1>3, <3>4, <3>5, <3>8 DEF StopStep
    <3> QED  BY <3>6, <3>7, <3>8, StepsBySubject
  <2> QED  BY <2>1, <2>2
<1> QED  BY <1>2, <1>3

\* The account, when a callback takes a step.
LEMMA AccountOfCallback ==
  ASSUME Base, Hopeful, Account, Hopeful', NEW s \in Segment, SegmentStep(s), AsrEffect
  PROVE  Account'
<1>1. /\ WasapiInv /\ AppType /\ Callbacks /\ calls \in CallsState
      /\ doing \in [Segment -> {"none", "saving", "asking"}] /\ recorder \in RecorderState
  BY DEF Base, AppType, WasapiInv, WasapiType
<1>2. /\ s \in calls.active /\ doing' \in [Segment -> {"none", "saving", "asking"}]
      /\ \A r \in Segment : r # s => doing'[r] = doing[r]
      /\ \/ UNCHANGED wasapi /\ doing'[s] # "none"
         \/ (CallbackEnds(s) \/ CallbackFails(s)) /\ doing'[s] = "none"
  BY SegmentMoves
<1>3. stopper.at \in {"no", "start", "stream"} /\ Wanted
  BY <1>2, HopefulCallback
<1>4. stopper' = stopper /\ source' = source
  BY DEF SegmentStep, SegmentIgnored, RecordSegment, SegmentAnswered, SegmentSaved,
     SegmentNotSaved, app
<1>5. ~CallbackFails(s)
  BY <1>1, CallbackFailsEffects DEF Hopeful
<1>6. ~SegmentIgnored(s) /\ ~SegmentNotSaved(s)
  BY <1>3, <1>5 DEF SegmentIgnored, SegmentNotSaved
<1>7. \/ UNCHANGED wasapi /\ doing'[s] # "none"
      \/ /\ calls'.active = calls.active \ {s} /\ calls'.done = calls.done \cup {s}
         /\ doing'[s] = "none"
  BY <1>1, <1>2, <1>5, CallbackEndsEffects
<1>8. calls'.done \cup Recorded' = calls.done \cup Recorded \cup {s}
  <2>1. Recorded' = {r \in Segment : r \in calls'.active /\ doing'[r] # "none"}
    BY DEF Recorded
  <2>2. CASE UNCHANGED wasapi /\ doing'[s] # "none"
    <3>1. Recorded' = Recorded \cup {s} /\ calls' = calls
      BY <1>2, <2>1, <2>2 DEF Recorded, wasapi
    <3> QED  BY <3>1
  <2>3. CASE /\ calls'.active = calls.active \ {s} /\ calls'.done = calls.done \cup {s}
             /\ doing'[s] = "none"
    <3>1. Recorded' = Recorded \ {s}
      BY <1>2, <2>1, <2>3 DEF Recorded
    <3> QED  BY <2>3, <3>1
  <2> QED  BY <1>7, <2>2, <2>3
<1>9. saved' \cup recorder'.chunk \cup Segments(recorder'.buffered)
        = saved \cup recorder.chunk \cup Segments(recorder.buffered) \cup {s}
  <2>1. doing[s] # "none"
          => s \in saved \cup recorder.chunk \cup Segments(recorder.buffered)
    BY <1>2 DEF Account, Recorded
  <2>2. CASE RecordSegment(s)
    <3>1. doing[s] = "none" /\ recorder' = Appended(s) /\ saved' = saved
      BY <2>2 DEF RecordSegment
    <3>2. recorder.chunk = {}
      BY <1>2, <3>1, ChunkIsSaved
    <3>3. recorder'.chunk \cup Segments(recorder'.buffered) = Segments(recorder.buffered) \cup {s}
      BY <1>1, <3>1, <3>2, AppendedFields
    <3> QED  BY <3>1, <3>2, <3>3
  <2>3. CASE SegmentSaved(s)
    <3>1. /\ saved' = saved \cup recorder.chunk /\ doing[s] = "saving"
          /\ recorder'.chunk = {} /\ recorder'.buffered = recorder.buffered
      BY <1>1, <2>3 DEF SegmentSaved, RecorderState
    <3> QED  BY <2>1, <3>1
  <2>4. CASE SegmentAnswered(s)
    <3>1. saved' = saved /\ recorder' = recorder /\ doing[s] = "asking"
      BY <2>4 DEF SegmentAnswered
    <3> QED  BY <2>1, <3>1
  <2> QED  BY <1>6, <2>2, <2>3, <2>4 DEF SegmentStep
<1>10. ASSUME Local', NEW r \in calls'.done  PROVE asr'.answer[r] = "ok"
  <2>1. Local /\ calls.done \subseteq Segment
    BY <1>1, <1>4, <1>10 DEF Local, CallsState
  <2>2. CASE r \in calls.done
    <3>1. asr.answer[r] = "ok"
      BY <2>1, <2>2 DEF Account
    <3> QED  BY <2>1, <2>2, <3>1 DEF AsrEffect
  <2>3. CASE r \notin calls.done
    <3>1. r = s /\ doing'[s] = "none" /\ CallbackEnds(s)
      BY <1>2, <1>5, <1>7, <1>10, <2>3 DEF wasapi
    <3>2. SegmentAnswered(s)
      <4>1. ~SegmentSaved(s)
        BY <1>1, <2>1, <3>1 DEF SegmentSaved
      <4>2. ~RecordSegment(s)
        <5>1. SUFFICES ASSUME RecordSegment(s)  PROVE FALSE
          OBVIOUS
        <5>2. doing' = [doing EXCEPT ![s] = "saving"] \/ doing' = [doing EXCEPT ![s] = "asking"]
          BY <2>1, <5>1 DEF RecordSegment
        <5> QED  BY <1>1, <3>1, <5>2
      <4> QED  BY <1>6, <4>1, <4>2 DEF SegmentStep
    <3>3. asr.answer[s] = "ok"
      BY <1>5, <3>2 DEF SegmentAnswered
    <3> QED  BY <3>1, <3>3 DEF AsrEffect
  <2> QED  BY <2>2, <2>3
<1>11. calls'.done \cup Recorded' = saved' \cup recorder'.chunk \cup Segments(recorder'.buffered)
  BY <1>8, <1>9 DEF Account
<1> QED  BY <1>3, <1>4, <1>10, <1>11 DEF Account, Segments

LEMMA AccountKept ==
  ASSUME JointInv, [Next]_vars, Hopeful'
  PROVE  Account'
<1>1. /\ Base /\ Hopeful /\ Account /\ AsrEffect /\ source'.kind = source.kind
      /\ Callbacks /\ calls \in CallsState /\ ~stopper'.failed /\ ~exiter'.failed
  BY HopeIsLost, RecogniserEffects, AppKept
     DEF JointInv, Base, WasapiInv, WasapiType, Hopeful
<1>2. CASE \E s \in Segment : SegmentStep(s)
  BY <1>1, <1>2, AccountOfCallback
<1>3. CASE ~\E s \in Segment : SegmentStep(s)
  <2>1. HandsOver /\ doing' = doing /\ recorder'.chunk = recorder.chunk
    BY <1>1, <1>3, RecordingKept
  <2>2. calls'.done = calls.done /\ calls.active \subseteq calls'.active
    BY <2>1 DEF HandsOver
  <2>3. Recorded' = Recorded
    <3>1. Recorded' = {r \in Segment : r \in calls'.active /\ doing'[r] # "none"}
      BY DEF Recorded
    <3> QED  BY <1>1, <2>1, <2>2, <3>1 DEF Recorded, Callbacks
  <2>4. ASSUME Local', NEW r \in calls'.done  PROVE asr'.answer[r] = "ok"
    BY <1>1, <2>2, <2>4 DEF Local, Account, AsrEffect, CallsState
  <2>5. Segments(<<>>) = {}
    BY DEF Segments
  <2>6. \/ /\ saved' = saved /\ recorder' = recorder
           /\ stopper'.at \in {"flushed", "adapter", "ok"}
                => stopper.at \in {"flushed", "adapter", "ok"}
        \/ /\ recorder'.buffered = <<>> /\ recorder'.chunk = recorder.chunk
           /\ saved' = saved \cup Segments(recorder.buffered)
    BY <1>1, <1>3, SoundKept
  <2>7. saved' \cup recorder'.chunk \cup Segments(recorder'.buffered)
          = saved \cup recorder.chunk \cup Segments(recorder.buffered)
    BY <2>5, <2>6
  <2>8. stopper'.at \in {"flushed", "adapter", "ok"} => recorder'.buffered = <<>>
    BY <1>1, <2>6 DEF Account
  <2>9. calls'.done \cup Recorded' = saved' \cup recorder'.chunk \cup Segments(recorder'.buffered)
    BY <1>1, <2>2, <2>3, <2>7 DEF Account
  <2> QED  BY <2>4, <2>8, <2>9 DEF Account, Segments
<1> QED  BY <1>2, <1>3

LEMMA JointStarts == Init => JointInv
<1> SUFFICES ASSUME Init  PROVE JointInv
  OBVIOUS
<1>1. Recorded = {} /\ Segments(<<>>) = {}
  BY DEF Init, WasapiInit, Recorded, Segments
<1>2. Account
  BY <1>1 DEF Init, WasapiInit, Account
<1> QED  BY <1>2, BaseStarts DEF JointInv

LEMMA JointStep == JointInv /\ [Next]_vars => JointInv'
<1> SUFFICES ASSUME JointInv, [Next]_vars  PROVE JointInv'
  OBVIOUS
<1> QED  BY BaseKept, AccountKept DEF JointInv

\* A stop that succeeds, in the words of the invariant.
LEMMA TailKept == JointInv => TailIsKept
<1> SUFFICES ASSUME JointInv, StopSucceeds, Farewell  PROVE Kept
  BY DEF TailIsKept
<1>1. /\ WasapiInv /\ AsrInv /\ CapInv /\ AppType /\ Failures /\ Links /\ Callbacks
      /\ exiter \in ExiterState /\ runtime \in RuntimeState
  BY DEF JointInv, Base, AppType
<1>2. stopper.at = "ok" /\ ~runtime.error /\ source.status # "failed" /\ AdapterStop = "ok"
  BY <1>1 DEF StopSucceeds, Links
<1>3. ~Local => cap.stored = cap.captions
  BY <1>1, <1>2, CaptionsAreKept DEF AdapterStop
<1>4. ASSUME capture = "attached"
      PROVE  /\ saved = 1 .. device.sent
             /\ Local => \A s \in 1 .. device.sent : asr.answer[s] = "ok"
  <2>1. ~stopper.failed /\ session.stop = "ok" /\ ~session.failed
    BY <1>1, <1>2, <1>4 DEF Failures, WasapiInv, Verdict
  <2>2. ~exiter.failed
    <3>1. exiter.at \notin {"start", "stream", "flush", "flushed"}
      BY <1>1, <1>2 DEF Links, AdapterStop, AsrInv, AsrOK, Exits, CapInv, CapLast
    <3> QED  BY <1>1, <1>2, <3>1 DEF ExiterState, Failures
  <2>3. Hopeful
    BY <1>2, <1>4, <2>1, <2>2 DEF Hopeful
  <2>4. calls.done = 1 .. device.sent /\ calls.active = {}
    BY <1>1, <2>1, StopDelivers, StoppedIsIdle DEF StoppedIsDelivered
  <2>5. Recorded = {} /\ recorder.chunk = {} /\ recorder.buffered = <<>> /\ Account
    BY <1>1, <1>2, <2>3, <2>4 DEF JointInv, Account, Recorded, Callbacks
  <2>6. Segments(recorder.buffered) = {}
    BY <2>5 DEF Segments
  <2>7. saved = calls.done
    BY <2>5, <2>6 DEF Account
  <2> QED  BY <2>4, <2>5, <2>7 DEF Account
<1> QED  BY <1>3, <1>4 DEF Kept

\* When the end of a session stops its source without an error, and the helper answers
\* the stop, every segment that the recording sent is stored and carried out by the
\* recogniser, and every caption of the helper is stored; no order of the end, the exit
\* of the helper, the failures and the timeouts loses one unnoticed (app.ts:
\* stopCaptionRuntime, handleCaptionAdapterExit and stopSystemAudioCapture).
THEOREM TailAlwaysKept == Spec => []TailIsKept
BY JointStarts, JointStep, TailKept, PTL DEF Spec

-----------------------------------------------------------------------------
(* What a stop leaves behind.                                              *)

Dead == {"dying", "gone"}

\* Before the loop of the recording there is nothing to stop; a stop of the stream
\* that has settled has left the helper dead.
Ended ==
  /\ loop = "none" => /\ stream.stop = "no" /\ session.stop = "no"
                      /\ calls.tail = <<>> /\ calls.raced = 0 /\ calls.active = {}
  /\ stream.stop = "given up" => device.at \in Dead
  /\ session.stop \in {"loop"} \cup Settled => device.at \in Dead

\* What is over stays so.
Final ==
  /\ device.at \in Dead => device'.at \in Dead
  /\ session.stop \in Settled => session'.stop = session.stop

\* Nothing happens to a recording that has not begun.
Asleep == loop = "none" => loop' = "none" /\ calls' = calls /\ device.at \notin {"off", "starting"}

LEMMA LoopEnds ==
  ASSUME WasapiInv, Ended, LoopReads \/ LoopWakes \/ LoopStopped \/ LoopDone \/ StartLoop
  PROVE  Ended' /\ Final /\ loop # "none"
<1>1. /\ device \in DeviceState /\ stream \in StreamState /\ session \in SessionState
      /\ loop # "none"
  BY DEF WasapiInv, WasapiType, LoopReads, LoopWakes, LoopStopped, LoopDone, StartLoop
<1>2. loop' # "none"
  BY DEF LoopReads, LoopWakes, LoopStopped, LoopDone, StartLoop, TakeSegment, NoMoreSegments,
     LoopFails
<1>3. session' = session \/ session' = ReportFailure(session)
  BY DEF LoopReads, LoopWakes, LoopStopped, LoopDone, StartLoop, TakeSegment, NoMoreSegments,
     LoopFails
<1>4. device' = device \/ device' = Told
  BY DEF LoopReads, LoopWakes, LoopStopped, LoopDone, StartLoop, TakeSegment, NoMoreSegments,
     LoopFails
<1>5. stream' = stream \/ stream' = StopStream(stream) \/ stream' = [stream EXCEPT !.queued = Tail(@)]
  BY DEF LoopReads, LoopWakes, LoopStopped, LoopDone, StartLoop, TakeSegment, NoMoreSegments,
     LoopFails
<1>6. session'.stop = session.stop
  BY <1>1, <1>3 DEF ReportFailure, SessionState
<1>7. device.at \in Dead => device'.at \in Dead
  BY <1>4 DEF Told, Dead
<1>8. stream'.stop = "given up" => stream.stop = "given up"
  BY <1>1, <1>5 DEF StopStream, StreamState
<1> QED  BY <1>1, <1>2, <1>6, <1>7, <1>8 DEF Ended, Final

LEMMA DeliveryFailsEnds ==
  ASSUME WasapiInv, Ended, loop # "none", NEW c, DeliveryFails(c)
  PROVE  Ended' /\ Final
<1>1. /\ stream \in StreamState /\ session \in SessionState
  BY DEF WasapiInv, WasapiType
<1>2. session' = ReportFailure(session) /\ stream' = StopStream(stream) /\ device' = Told /\ loop' = loop
  BY DEF DeliveryFails
<1>3. session'.stop = session.stop
  BY <1>1, <1>2 DEF ReportFailure, SessionState
<1>4. device.at \in Dead => device'.at \in Dead
  BY <1>2 DEF Told, Dead
<1>5. stream'.stop = "given up" => stream.stop = "given up"
  BY <1>1, <1>2 DEF StopStream, StreamState
<1> QED  BY <1>2, <1>3, <1>4, <1>5 DEF Ended, Final

LEMMA DeliveryEnds ==
  ASSUME WasapiInv, Ended, DeliverNothing \/ Deliver \/ FailureInterrupts
  PROVE  Ended' /\ Final /\ loop # "none"
<1>1. loop # "none"
  BY DEF Ended, DeliverNothing, Deliver, MayCall, NextCall, FailureInterrupts
<1>2. \/ \E c : DeliveryFails(c)
      \/ UNCHANGED <<device, stream, loop, session>>
  BY DEF DeliverNothing, Deliver, FailureInterrupts
<1>3. CASE UNCHANGED <<device, stream, loop, session>>
  BY <1>1, <1>3 DEF Ended, Final
<1> QED  BY <1>1, <1>2, <1>3, DeliveryFailsEnds

LEMMA StopEnds ==
  ASSUME WasapiInv, Ended, StopStreamSettles \/ StopLoopSettles \/ StopDrainTimesOut
  PROVE  Ended' /\ Final /\ loop # "none"
<1>1. session \in SessionState /\ stream \in StreamState /\ (stream.closed => device.at = "gone")
  BY DEF WasapiInv, WasapiType, Together
<1>2. UNCHANGED <<device, stream, loop, calls>> /\ loop # "none"
  BY DEF StopStreamSettles, StopLoopSettles, StopDrainTimesOut, Ended
<1>3. device.at \in Dead /\ session.stop \notin Settled
  BY <1>1 DEF StopStreamSettles, StopLoopSettles, StopDrainTimesOut, StreamStopped, Ended, Dead, Settled
<1> QED  BY <1>2, <1>3 DEF Ended, Final

LEMMA DeviceEnds ==
  ASSUME WasapiInv, Ended,
         DeviceSends \/ DeviceCompletes \/ DeviceFails \/ DeviceCloses \/ StreamStopTimesOut
  PROVE  /\ Ended' /\ Final /\ calls' = calls
         /\ loop = "none" => loop' = "none" /\ device.at \notin {"off", "starting"}
<1>1. /\ device \in DeviceState /\ stream \in StreamState /\ session' = session /\ calls' = calls
  BY DEF WasapiInv, WasapiType, DeviceSends, DeviceCompletes, DeviceFails, DeviceCloses,
     StreamStopTimesOut
<1>2. loop' = loop \/ (loop = "waiting" /\ loop' = "given")
  BY DEF DeviceSends, DeviceCompletes, DeviceFails, DeviceCloses, StreamStopTimesOut
<1>3. device.at \in Dead => device'.at \in Dead
  BY <1>1 DEF DeviceSends, DeviceCompletes, DeviceFails, DeviceCloses, StreamStopTimesOut, Running,
     Dead, DeviceState
<1>4. stream'.stop = stream.stop \/ (stream.stop = "waiting" /\ device'.at \in Dead)
  BY <1>1 DEF DeviceSends, DeviceCompletes, DeviceFails, DeviceCloses, StreamStopTimesOut,
     FailStream, Dead, DeviceState, StreamState
<1>5. loop = "none" => device.at \notin {"off", "starting"}
  BY DEF DeviceSends, DeviceCompletes, DeviceFails, DeviceCloses, StreamStopTimesOut, Running, Ended
<1> QED  BY <1>1, <1>2, <1>3, <1>4, <1>5 DEF Ended, Final

LEMMA AloneEnds ==
  ASSUME WasapiInv, Ended, RecordingAlone
  PROVE  Ended' /\ Final /\ Asleep
BY LoopEnds, DeliveryEnds, StopEnds, DeviceEnds DEF RecordingAlone, Asleep

LEMMA CallbackStepEnds ==
  ASSUME WasapiInv, Ended, NEW s, CallbackEnds(s) \/ CallbackFails(s)
  PROVE  Ended' /\ Final /\ loop # "none"
<1>1. loop # "none"
  BY DEF Ended, CallbackEnds, CallbackFails
<1>2. \/ \E c : DeliveryFails(c)
      \/ UNCHANGED <<device, stream, loop, session>>
  BY DEF CallbackEnds, CallbackFails
<1>3. CASE UNCHANGED <<device, stream, loop, session>>
  BY <1>1, <1>3 DEF Ended, Final
<1> QED  BY <1>1, <1>2, <1>3, DeliveryFailsEnds

LEMMA CallsEnd ==
  ASSUME WasapiInv, Ended,
         \/ StopRecording
         \/ OpenStream /\ UNCHANGED <<stream, loop, session, calls>>
         \/ StreamReady /\ UNCHANGED <<stream, session, calls>>
         \/ StreamStartFails /\ UNCHANGED <<loop, session, calls>>
  PROVE  Ended' /\ Final
<1>1. /\ device \in DeviceState /\ stream \in StreamState /\ session \in SessionState
  BY DEF WasapiInv, WasapiType
<1>2. CASE StopRecording
  <2>1. /\ loop' # "none" /\ session'.stop = "stream" /\ session.stop = "no"
        /\ stream' = StopStream(stream) /\ device' = Told
    BY <1>1, <1>2 DEF StopRecording, SessionState
  <2>2. device.at \in Dead => device'.at \in Dead
    BY <2>1 DEF Told, Dead
  <2>3. stream'.stop = "given up" => stream.stop = "given up"
    BY <1>1, <2>1 DEF StopStream, StreamState
  <2> QED  BY <2>1, <2>2, <2>3 DEF Ended, Final, Settled
<1>3. CASE ~StopRecording
  <2>1. /\ session' = session /\ calls' = calls /\ stream'.stop = stream.stop
        /\ loop' = "none" => loop = "none"
        /\ device.at \notin Dead
    BY <1>1, <1>3 DEF OpenStream, StreamReady, StreamStartFails, StreamState, Dead
  <2> QED  BY <2>1 DEF Ended, Final
<1> QED  BY <1>2, <1>3

LEMMA StutterEnds ==
  ASSUME Ended, UNCHANGED wasapi
  PROVE  Ended' /\ Final
BY DEF wasapi, Ended, Final

LEMMA EndedKept ==
  ASSUME Base, Ended, [Next]_vars
  PROVE  Ended' /\ Final
<1>1. WasapiInv
  BY DEF Base
<1>2. CASE RecordingAlone
  BY <1>1, <1>2, AloneEnds
<1>3. CASE \E s \in Segment : SegmentStep(s)
  <2>1. PICK s \in Segment : UNCHANGED wasapi \/ CallbackEnds(s) \/ CallbackFails(s)
    BY <1>3, SegmentMoves
  <2> QED  BY <1>1, <2>1, StutterEnds, CallbackStepEnds
<1>4. CASE RecogniserAlone \/ CaptionsAlone \/ UNCHANGED vars \/ StatusStep \/ EndStep
  <2>1. UNCHANGED wasapi
    BY <1>4 DEF RecogniserAlone, CaptionsAlone, vars, StatusStep, EndStep, StatusReady,
       StatusReconnecting, StatusUnavailable, CaptionStored, CaptionRejected, StartupTimesOut,
       CaptureReportsFailure, EndSession
  <2> QED  BY <2>1, StutterEnds
<1>5. CASE CaptureStep
  <2>1. \/ UNCHANGED wasapi
        \/ StopRecording
        \/ OpenStream /\ UNCHANGED <<stream, loop, session, calls>>
        \/ StreamReady /\ UNCHANGED <<stream, session, calls>>
        \/ StreamStartFails /\ UNCHANGED <<loop, session, calls>>
    BY <1>5 DEF CaptureStep, OpenCapture, CaptureOpens, CaptureStartFails, AttachCapture,
       LeaveCapture, LooseCaptureStopped, wasapi
  <2> QED  BY <1>1, <2>1, StutterEnds, CallsEnd
<1>6. CASE ExitStep \/ StopStep
  <2>1. UNCHANGED wasapi \/ StopRecording
    BY <1>6 DEF ExitStep, ExitNoted, ExitStopsCapture, ExiterStopsCapture, StopsCapture,
       ExiterWaits, ExiterFlushes, ExiterEnds, StopStep, StopperStopsCapture, StopperWaits,
       StopperStopsAdapter, StopperFlushes, StopperEnds
  <2> QED  BY <1>1, <2>1, StutterEnds, CallsEnd
<1> QED  BY <1>2, <1>3, <1>4, <1>5, <1>6, StepsBySubject

-----------------------------------------------------------------------------
(* Where a recording is when its runtime is being stopped.                 *)

\* The stop of the runtime has waited for the recording; it has flushed the recorder.
Past == {"flush", "flushed", "adapter", "ok", "failed"}
Flushed == Past \ {"flush"}

\* Where the recording is, by where its start is.
Starts ==
  /\ capture = "none" => device.at = "off" /\ loop = "none"
  /\ capture = "opening" => device.at = "starting"
  /\ capture = "failed" => /\ device.at \in {"off"} \cup Dead
                           /\ loop = "none" \/ session.stop \in Settled

\* What the stop of the runtime has waited for.
Waits ==
  /\ stopper.at = "stream" => capture = "attached"
  /\ capture = "attached" /\ stopper.at \in Past => session.stop \in Settled
  /\ ~Local /\ stopper.at \in Past => capture \notin {"opening", "opened", "loose"}

Places == Starts /\ Waits

LEMMA RecordingStays ==
  ASSUME Base, Ended, Places, RecordingAlone \/ \E s \in Segment : SegmentStep(s)
  PROVE  Places'
<1>1. Together
  BY DEF Base, WasapiInv
<1>2. UNCHANGED <<source, capture, stopper>>
  BY DEF RecordingAlone, SegmentStep, SegmentIgnored, RecordSegment, SegmentAnswered, SegmentSaved,
     SegmentNotSaved, app
<1>3. \/ UNCHANGED wasapi
      \/ Final /\ (loop = "none" => loop' = "none" /\ device.at \notin {"off", "starting"})
  <2>1. CASE RecordingAlone
    BY <2>1, AloneEnds DEF Base, Asleep
  <2>2. CASE \E s \in Segment : SegmentStep(s)
    <3>1. PICK s \in Segment : UNCHANGED wasapi \/ CallbackEnds(s) \/ CallbackFails(s)
      BY <2>2, SegmentMoves
    <3> QED  BY <3>1, CallbackStepEnds DEF Base
  <2> QED  BY <2>1, <2>2
<1>4. Waits'
  BY <1>2, <1>3 DEF Places, Waits, Local, Final, wasapi
<1>5. Starts'
  <2>1. CASE UNCHANGED wasapi
    BY <1>2, <2>1 DEF Places, Starts, wasapi
  <2>2. CASE Final /\ (loop = "none" => loop' = "none" /\ device.at \notin {"off", "starting"})
    <3>1. device.at \notin {"off", "starting"}
      BY <1>1, <2>2 DEF Together
    <3>2. capture \notin {"none", "opening"}
      BY <3>1 DEF Places, Starts
    <3> QED  BY <1>2, <2>2, <3>1, <3>2 DEF Places, Starts, Final
  <2> QED  BY <1>3, <2>1, <2>2
<1> QED  BY <1>4, <1>5 DEF Places

LEMMA StartsStay ==
  ASSUME Base, Ended, Places, CaptureStep
  PROVE  Places'
<1>1. /\ AppType /\ Life /\ Together /\ device \in DeviceState /\ stopper \in StopperState
      /\ source \in SourceState
  BY DEF Base, WasapiInv, WasapiType, AppType
<1>2. CASE OpenCapture
  BY <1>1, <1>2 DEF OpenCapture, OpenStream, Aborted, Places, Starts, Waits, Local, DeviceState,
     Past
<1>3. CASE CaptureOpens
  BY <1>3 DEF CaptureOpens, Places, Starts, Waits, Local
<1>4. CASE AttachCapture
  <2>1. stopper.at = "no" /\ stopper' = stopper /\ capture' = "attached"
    BY <1>1, <1>4 DEF AttachCapture, MayAttach, Life
  <2> QED  BY <2>1 DEF Places, Starts, Waits, Past
<1>5. CASE LeaveCapture
  BY <1>5 DEF LeaveCapture, Places, Starts, Waits, Local
<1>6. CASE CaptureStartFails \/ LooseCaptureStopped
  <2>1. /\ capture' = "failed" /\ capture # "attached"
        /\ stopper'.at = stopper.at \/ stopper'.at = "start"
    BY <1>1, <1>6, FailsFields DEF CaptureStartFails, LooseCaptureStopped
  <2>2. Waits'
    BY <2>1 DEF Places, Waits, Past
  <2>3. device'.at \in Dead /\ (loop' = "none" \/ session'.stop \in Settled)
    <3>1. CASE CaptureStartFails
      BY <1>1, <3>1 DEF CaptureStartFails, StreamStartFails, Together, DeviceState, Dead
    <3>2. CASE LooseCaptureStopped
      BY <3>2 DEF LooseCaptureStopped, wasapi, Ended
    <3> QED  BY <1>6, <3>1, <3>2
  <2> QED  BY <2>1, <2>2, <2>3 DEF Places, Starts
<1> QED  BY <1>2, <1>3, <1>4, <1>5, <1>6 DEF CaptureStep

LEMMA PlacesKept ==
  ASSUME Base, Ended, Places, [Next]_vars
  PROVE  Places'
<1>1. AppType /\ stopper \in StopperState /\ (Local' <=> Local)
  BY AppKept DEF Base, AppType, Local
<1>2. CASE RecogniserAlone \/ CaptionsAlone \/ UNCHANGED vars \/ StatusStep \/ EndStep
  <2>1. UNCHANGED wasapi /\ capture' = capture
    BY <1>2 DEF RecogniserAlone, CaptionsAlone, vars, app, StatusStep, EndStep, StatusReady,
       StatusReconnecting, StatusUnavailable, CaptionStored, CaptionRejected, StartupTimesOut,
       CaptureReportsFailure, EndSession
  <2>2. stopper'.at = stopper.at \/ stopper'.at = "start"
    <3>1. CASE RuntimeFails
      BY <1>1, <3>1, FailsFields
    <3>2. CASE EndSession
      BY <1>1, <3>2 DEF EndSession, Begin, StopperState
    <3> QED  BY <1>2, <3>1, <3>2 DEF RecogniserAlone, CaptionsAlone, vars, app, StatusStep, EndStep,
             StatusReady, StatusReconnecting, StatusUnavailable, CaptionStored, CaptionRejected,
             StartupTimesOut, CaptureReportsFailure
  <2> QED  BY <1>1, <2>1, <2>2 DEF Places, Starts, Waits, wasapi, Past
<1>3. CASE ExitStep \/ StopStep
  <2>1. /\ capture' = capture
        /\ UNCHANGED wasapi \/ (StopRecording /\ capture = "attached")
    BY <1>3 DEF ExitStep, ExitNoted, ExitStopsCapture, ExiterStopsCapture, StopsCapture,
       ExiterWaits, ExiterFlushes, ExiterEnds, StopStep, StopperStopsCapture, StopperWaits,
       StopperStopsAdapter, StopperFlushes, StopperEnds, app
  <2>2. Starts'
    BY <2>1 DEF Places, Starts, wasapi
  <2>3. session.stop \in Settled => session'.stop = session.stop
    BY <2>1 DEF wasapi, StopRecording, Settled
  <2>4. CASE ExitStep
    <3>1. stopper' = stopper
      BY <2>4 DEF ExitStep, ExitNoted, ExitStopsCapture, ExiterStopsCapture, ExiterWaits,
         ExiterFlushes, ExiterEnds, app
    <3> QED  BY <1>1, <2>1, <2>2, <2>3, <3>1 DEF Places, Waits
  <2>5. CASE StopperStopsCapture \/ StopperWaits
    <3>1. \/ capture = "attached" /\ stopper'.at = "stream"
          \/ stopper'.at = "flush" /\ stopper.at = "start" /\ capture # "attached" /\ StartSettled
          \/ stopper'.at = "flush" /\ stopper.at = "stream" /\ session.stop \in Settled
      BY <1>1, <2>5 DEF StopperStopsCapture, StopsCapture, StopperWaits, CaptureStopped, StopperState
    <3> QED  BY <1>1, <2>1, <2>2, <2>3, <3>1 DEF Places, Waits, StartSettled, Past
  <2>6. CASE StopperFlushes \/ StopperStopsAdapter \/ StopperEnds
    <3>1. stopper.at \in Past /\ stopper'.at \in Past
      BY <1>1, <2>6, FlushFields DEF StopperFlushes, StopperStopsAdapter, StopperEnds,
         StopperState, Past
    <3> QED  BY <1>1, <2>1, <2>2, <2>3, <3>1 DEF Places, Waits, Past
  <2> QED  BY <1>3, <2>4, <2>5, <2>6 DEF StopStep
<1> QED  BY <1>2, <1>3, RecordingStays, StartsStay, StepsBySubject

-----------------------------------------------------------------------------
(* The recorder stays empty once it was flushed.                           *)

\* Nothing is recorded any more: no segment comes, and every callback that was called
\* has recorded its own, or ignores it.
Still ==
  Recordable => /\ loop = "none" \/ session.stop \in Settled
                /\ \A s \in calls.active : doing[s] # "none"

\* What was flushed stays empty.
Emptied ==
  /\ stopper.at \in Flushed => Still /\ recorder.buffered = <<>>
  /\ exiter.at \in {"flushed", "done"} => recorder.buffered = <<>>

\* What is being stopped does not become recordable.
LEMMA RecordableShrinks ==
  ASSUME Base, [Next]_vars, stopper.at # "no", Recordable'
  PROVE  Recordable
<1>1. /\ AppType /\ Life /\ source \in SourceState /\ runtime \in RuntimeState
      /\ (Local' <=> Local) /\ source' \in SourceState
  BY AppKept DEF Base, AppType, Local
<1>2. /\ runtime'.attached => runtime.attached
      /\ \/ source'.status \in {"failed", source.status}
         \/ ~Local /\ source.status # "failed"
  <2>1. CASE UNCHANGED <<source, runtime>>
    BY <2>1
  <2>2. CASE RuntimeFails
    BY <1>1, <2>2, FailsFields
  <2>3. CASE CaptureStep
    <3>1. ~MayAttach
      BY <1>1 DEF Life, MayAttach
    <3> QED  BY <1>1, <2>1, <2>2, <2>3, <3>1 DEF CaptureStep, OpenCapture, CaptureOpens,
             CaptureStartFails, AttachCapture, LeaveCapture, LooseCaptureStopped, RuntimeState
  <2>4. CASE StatusStep
    BY <1>1, <2>2, <2>4 DEF StatusStep, StatusReady, StatusReconnecting, StatusUnavailable,
       CaptionStored, CaptionRejected, RuntimeState, SourceState
  <2>5. CASE EndStep
    BY <1>1, <2>2, <2>5 DEF EndStep, StartupTimesOut, CaptureReportsFailure, EndSession,
       RuntimeState, SourceState
  <2>6. CASE ExitStep
    BY <1>1, <2>6 DEF ExitStep, ExitNoted, ExitStopsCapture, ExiterStopsCapture, ExiterWaits,
       ExiterFlushes, ExiterEnds, app, RuntimeState, SourceState
  <2>7. CASE StopStep
    BY <1>1, <2>7 DEF StopStep, StopperStopsCapture, StopperWaits, StopperFlushes,
       StopperStopsAdapter, StopperEnds, RuntimeState
  <2>8. CASE \/ RecordingAlone \/ RecogniserAlone \/ CaptionsAlone \/ UNCHANGED vars
             \/ \E s \in Segment : SegmentStep(s)
    BY <2>1, <2>8 DEF RecordingAlone, RecogniserAlone, CaptionsAlone, vars, app, SegmentStep,
       SegmentIgnored, RecordSegment, SegmentAnswered, SegmentSaved, SegmentNotSaved
  <2> QED  BY <2>3, <2>4, <2>5, <2>6, <2>7, <2>8, StepsBySubject
<1> QED  BY <1>1, <1>2 DEF Recordable, Wanted, SourceState

\* The flush of a stop waits for the event loop: a callback that can record does so first.
LEMMA FlushWaits ==
  ASSUME Base, [Next]_vars, stopper'.at \in Flushed, stopper.at \notin Flushed
  PROVE  StopperFlushes /\ \A s \in Segment : ~MayRecord(s)
<1>1. AppType /\ stopper \in StopperState
  BY DEF Base, AppType
<1>2. /\ ~UNCHANGED stopper /\ ~RuntimeFails /\ ~EndSession
      /\ ~StopperStopsCapture /\ ~StopperWaits /\ ~StopperStopsAdapter /\ ~StopperEnds
  <2>1. ~UNCHANGED stopper
    OBVIOUS
  <2>2. ~RuntimeFails
    BY <1>1, FailsFields DEF Flushed, Past
  <2>3. ~EndSession
    BY <1>1 DEF EndSession, Begin, StopperState, Flushed, Past
  <2>4. ~StopperStopsCapture /\ ~StopperWaits
    BY <1>1 DEF StopperStopsCapture, StopsCapture, StopperWaits, CaptureStopped, StopperState,
       Flushed, Past
  <2>5. ~StopperStopsAdapter /\ ~StopperEnds
    BY DEF StopperStopsAdapter, StopperEnds, Flushed, Past
  <2> QED  BY <2>1, <2>2, <2>3, <2>4, <2>5
<1>3. ~Promises
  BY <1>2 DEF Promises, RecordingSettles, RecogniserSettles, HelperSettles, AppSettles,
     CallbackRuns, SegmentIgnored, RecordSegment, SegmentAnswered, OpenCapture, StatusReady,
     ExitNoted, ExitStopsCapture, ExiterStopsCapture, ExiterWaits, app
<1>4. ~Settling
  BY <1>2, <1>3 DEF Next, vars, app
<1>5. StopperFlushes
  BY <1>2, StepsBySubject DEF RecordingAlone, RecogniserAlone, CaptionsAlone, vars, app,
     SegmentStep, SegmentIgnored, RecordSegment, SegmentAnswered, SegmentSaved, SegmentNotSaved,
     CaptureStep, OpenCapture, CaptureOpens, CaptureStartFails, AttachCapture, LeaveCapture,
     LooseCaptureStopped, StatusStep, StatusReady, StatusReconnecting, StatusUnavailable,
     CaptionStored, CaptionRejected, EndStep, StartupTimesOut, CaptureReportsFailure, ExitStep,
     ExitNoted, ExitStopsCapture, ExiterStopsCapture, ExiterWaits, ExiterFlushes, ExiterEnds,
     StopStep
<1> QED  BY <1>4, <1>5 DEF Settling

\* The recorder is filled only by a callback that can record.
LEMMA BufferKept ==
  ASSUME AppType, [Next]_vars, recorder.buffered = <<>>, \A s \in Segment : ~MayRecord(s)
  PROVE  recorder'.buffered = <<>>
<1>1. recorder \in RecorderState
  BY DEF AppType
<1>2. CASE recorder' = recorder
  BY <1>2
<1>3. CASE StopperFlushes \/ ExiterFlushes
  BY <1>3, FlushFields DEF StopperFlushes, ExiterFlushes
<1>4. CASE \E s \in Segment : SegmentStep(s)
  BY <1>1, <1>4 DEF SegmentStep, SegmentIgnored, RecordSegment, MayRecord, SegmentAnswered,
     SegmentSaved, SegmentNotSaved, app, RecorderState
<1> QED  BY <1>2, <1>3, <1>4, StepsBySubject DEF RecordingAlone, RecogniserAlone, CaptionsAlone,
         vars, app, CaptureStep, OpenCapture, CaptureOpens, CaptureStartFails, AttachCapture,
         LeaveCapture, LooseCaptureStopped, StatusStep, StatusReady, StatusReconnecting,
         StatusUnavailable, CaptionStored, CaptionRejected, EndStep, StartupTimesOut,
         CaptureReportsFailure, EndSession, ExitStep, ExitNoted, ExitStopsCapture,
         ExiterStopsCapture, ExiterWaits, ExiterEnds, StopStep, StopperStopsCapture, StopperWaits,
         StopperStopsAdapter, StopperEnds

LEMMA StillKept ==
  ASSUME Base, Ended, [Next]_vars, stopper.at # "no", Still
  PROVE  Still'
<1> SUFFICES ASSUME Recordable'
             PROVE  /\ loop' = "none" \/ session'.stop \in Settled
                    /\ \A s \in calls'.active : doing'[s] # "none"
  BY DEF Still
<1>1. /\ loop = "none" \/ session.stop \in Settled
      /\ \A s \in calls.active : doing[s] # "none"
  BY RecordableShrinks DEF Still
<1>2. Final /\ Ended' /\ WasapiInv /\ calls \in CallsState
  BY EndedKept DEF Base, WasapiInv, WasapiType
<1>3. CASE \E s \in Segment : SegmentStep(s)
  <2>1. PICK s \in Segment : SegmentStep(s)
    BY <1>3
  <2>2. /\ \A r \in Segment : r # s => doing'[r] = doing[r]
        /\ \/ UNCHANGED wasapi /\ doing'[s] # "none"
           \/ (CallbackEnds(s) \/ CallbackFails(s)) /\ doing'[s] = "none"
    BY <2>1, SegmentMoves
  <2>3. \/ UNCHANGED wasapi /\ doing'[s] # "none"
        \/ loop # "none" /\ calls'.active = calls.active \ {s}
    BY <1>2, <2>2, CallbackStepEnds, CallbackEndsEffects, CallbackFailsEffects
  <2> QED  BY <1>1, <1>2, <2>2, <2>3 DEF Final, CallsState, wasapi
<1>4. CASE ~\E s \in Segment : SegmentStep(s)
  <2>1. HandsOver /\ doing' = doing /\ (calls' = calls \/ RecordingAlone)
    BY <1>4, RecordingKept
  <2>2. CASE session.stop \in Settled
    <3>1. calls'.started = calls.started
      BY <1>2, <2>2, StopSilences
    <3>2. calls.started \in Nat
      BY <1>2 DEF CallsState
    <3>3. calls'.active = calls.active
      BY <2>1, <3>1, <3>2 DEF HandsOver
    <3> QED  BY <1>1, <1>2, <2>1, <2>2, <3>3 DEF Final
  <2>3. CASE loop = "none"
    <3>1. calls' = calls
      BY <1>2, <2>1, <2>3, AloneEnds DEF Asleep
    <3>2. loop' = "none"
      <4>1. CASE RecordingAlone
        BY <1>2, <2>3, <4>1, AloneEnds DEF Asleep
      <4>2. CASE loop' = loop
        BY <2>3, <4>2
      <4> QED  BY <1>4, <2>3, <4>1, <4>2, StepsBySubject DEF RecogniserAlone, CaptionsAlone, vars,
               wasapi, CaptureStep, OpenCapture, CaptureOpens, Aborted, CaptureStartFails,
               AttachCapture, LeaveCapture, LooseCaptureStopped, StopRecording, StatusStep,
               StatusReady, StatusReconnecting, StatusUnavailable, CaptionStored, CaptionRejected,
               EndStep, StartupTimesOut, CaptureReportsFailure, EndSession, ExitStep, ExitNoted,
               ExitStopsCapture, ExiterStopsCapture, StopsCapture, ExiterWaits, ExiterFlushes,
               ExiterEnds, StopStep, StopperStopsCapture, StopperWaits, StopperFlushes,
               StopperStopsAdapter, StopperEnds
    <3> QED  BY <1>1, <2>1, <3>1, <3>2
  <2> QED  BY <1>1, <2>2, <2>3
<1> QED  BY <1>3, <1>4

LEMMA EmptiedKept ==
  ASSUME Base, Ended, Places, Emptied, [Next]_vars
  PROVE  Emptied'
<1>1. AppType /\ AppType' /\ Life /\ stopper \in StopperState /\ (Local' <=> Local)
      /\ calls.active \subseteq Segment /\ capture \in CaptureState
  BY AppKept DEF Base, AppType, Local, WasapiInv, WasapiType, CallsState
<1>2. ASSUME stopper.at \in Flushed  PROVE Still' /\ recorder'.buffered = <<>>
  <2>1. stopper.at # "no" /\ Still /\ recorder.buffered = <<>>
    BY <1>2 DEF Emptied, Flushed, Past
  <2>2. \A s \in Segment : ~MayRecord(s)
    BY <2>1 DEF Still, MayRecord
  <2> QED  BY <1>1, <2>1, <2>2, StillKept, BufferKept
<1>3. ASSUME stopper'.at \in Flushed, stopper.at \notin Flushed
      PROVE  Still' /\ recorder'.buffered = <<>>
  <2>1. StopperFlushes /\ \A s \in Segment : ~MayRecord(s)
    BY <1>3, FlushWaits
  <2>2. /\ recorder'.buffered = <<>> /\ stopper.at = "flush"
        /\ UNCHANGED <<source, runtime, doing, wasapi>>
    BY <1>1, <2>1, FlushFields DEF StopperFlushes
  <2>3. Recordable => loop = "none" \/ session.stop \in Settled
    <3>1. CASE capture \in {"attached", "none", "failed"}
      BY <2>2, <3>1 DEF Places, Starts, Waits, Past
    <3>2. CASE capture \in {"opening", "opened", "loose"}
      BY <1>1, <2>2, <3>2 DEF Places, Waits, Past, Recordable, Life
    <3> QED  BY <1>1, <3>1, <3>2 DEF CaptureState
  <2> QED  BY <1>1, <2>1, <2>2, <2>3 DEF Still, MayRecord, Recordable, Wanted, Local, wasapi
<1>4. ASSUME exiter'.at \in {"flushed", "done"}  PROVE recorder'.buffered = <<>>
  <2>1. CASE ExiterFlushes
    BY <1>1, <2>1, FlushFields DEF ExiterFlushes
  <2>2. CASE ~ExiterFlushes
    <3>1. exiter.at \in {"flushed", "done"}
      <4>1. CASE exiter' = exiter
        BY <1>4, <4>1
      <4>2. CASE ExiterStopsCapture \/ ExiterWaits
        BY <1>4, <1>1, <4>2, StopMoves DEF ExiterStopsCapture, ExiterWaits, AppType, ExiterState
      <4>3. CASE ExitStopsCapture \/ ExiterEnds
        BY <1>4, <1>1, <4>3 DEF ExitStopsCapture, Begin, ExiterEnds, AppType, ExiterState
      <4> QED  BY <2>2, <4>1, <4>2, <4>3, StepsBySubject DEF RecordingAlone, RecogniserAlone,
               CaptionsAlone, vars, app, SegmentStep, SegmentIgnored, RecordSegment,
               SegmentAnswered, SegmentSaved, SegmentNotSaved, CaptureStep, OpenCapture,
               CaptureOpens, CaptureStartFails, AttachCapture, LeaveCapture, LooseCaptureStopped,
               StatusStep, StatusReady, StatusReconnecting, StatusUnavailable, CaptionStored,
               CaptionRejected, EndStep, StartupTimesOut, CaptureReportsFailure, EndSession,
               ExitStep, ExitNoted, StopStep, StopperStopsCapture, StopperWaits, StopperFlushes,
               StopperStopsAdapter, StopperEnds
    <3>2. recorder.buffered = <<>> /\ \A s \in Segment : ~MayRecord(s)
      BY <1>1, <3>1 DEF Emptied, Life, MayRecord, Recordable, Wanted
    <3> QED  BY <1>1, <3>2, BufferKept
  <2> QED  BY <2>1, <2>2
<1> QED  BY <1>2, <1>3, <1>4 DEF Emptied

\* The stop of a recording that is gone, never begun or stopped has reached the helper.
LEMMA NothingIsLeft ==
  ASSUME Base, Ended, Places, Emptied
  PROVE  NothingLeftBehind
<1>1. NothingBuffered
  BY DEF NothingBuffered, Emptied, Flushed, Past
<1>2. ASSUME stopper.at = "ok"  PROVE device.at \in {"off", "dying", "gone"}
  <2>1. AdapterStop = "ok" /\ capture \in CaptureState
    BY <1>2 DEF Base, Links, AppType
  <2>2. capture \notin {"opening", "opened", "loose"}
    <3>1. CASE Local
      <4>1. asr.stop = "ok" /\ Exits(asr)
        BY <2>1, <3>1 DEF AdapterStop, Base, AsrInv, AsrOK
      <4>2. asr.processing # "ready"
        BY <4>1 DEF Exits
      <4> QED  BY <3>1, <4>2 DEF Base, Links
    <3>2. CASE ~Local
      BY <1>2, <3>2 DEF Places, Waits, Past
    <3> QED  BY <3>1, <3>2
  <2>3. capture = "attached" => session.stop \in Settled
    BY <1>2 DEF Places, Waits, Past
  <2> QED  BY <2>1, <2>2, <2>3 DEF CaptureState, Places, Starts, Ended, Dead
<1> QED  BY <1>1, <1>2 DEF NothingLeftBehind, NoStrayRecording

\* A stop leaves nothing behind: the recorder is empty once the runtime is stopped, by
\* the end or by the exit of the helper, and no recording still runs, not even one that
\* was being started (app.ts: stopCaptionRuntime, handleCaptionAdapterExit and the
\* start of the loopback, which the stop aborts and waits for).
THEOREM NothingIsEverLeft == Spec => []NothingLeftBehind
<1> DEFINE Inv == Base /\ Ended /\ Places /\ Emptied
<1>1. Init => Inv
  <2> SUFFICES ASSUME Init  PROVE Inv
    OBVIOUS
  <2>1. Base
    BY BaseStarts
  <2>2. /\ device.at = "off" /\ stream.stop = "no" /\ session.stop = "no" /\ loop = "none"
        /\ calls.tail = <<>> /\ calls.raced = 0 /\ calls.active = {}
        /\ capture = "none" /\ stopper.at = "no" /\ exiter.at = "no"
    BY DEF Init, WasapiInit
  <2>3. Ended /\ Places /\ Emptied
    BY <2>2 DEF Ended, Settled, Places, Starts, Waits, Emptied, Flushed, Past
  <2> QED  BY <2>1, <2>3
<1>2. Inv /\ [Next]_vars => Inv'
  BY BaseKept, EndedKept, PlacesKept, EmptiedKept
<1>3. Inv => NothingLeftBehind
  BY NothingIsLeft
<1> QED  BY <1>1, <1>2, <1>3, PTL DEF Spec

=============================================================================
