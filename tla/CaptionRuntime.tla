---------------------------- MODULE CaptionRuntime ----------------------------
(***************************************************************************)
(* One caption source of a session, as LiteServerApp runs it: a helper     *)
(* process that writes captions (the speech recogniser that is fed with    *)
(* the sound, or the system-caption reader beside a recording), the        *)
(* recording of the sound, the recorder that packs it into chunks, and the *)
(* three ways in which all of this is stopped: the end of the session, a   *)
(* failure, and the exit of the helper.                                    *)
(*                                                                         *)
(* What the steps append to the event log, and when the log refuses it, is *)
(* in SessionLifecycle; here the source has a status and the session is    *)
(* asked to stop once.                                                     *)
(***************************************************************************)
EXTENDS WasapiSession, LocalAsrAdapter, ExternalCaptionAdapter

CONSTANTS
  Kinds,      \* the kinds of source that are started: a subset of ProcessKinds
  ChunkSize   \* the segments of one chunk of the recorder

ProcessKinds == {"local-asr", "system-captions"}

ASSUME RuntimeAssumption ==
  Kinds \subseteq ProcessKinds /\ ChunkSize \in Nat \ {0} /\ MaxRequests = MaxSegments

VARIABLES
  source,    \* its kind and status, and whether the session was asked to stop
  runtime,   \* the CaptionAdapterRuntime: attached to the session, its timer, its error
  capture,   \* the recording: not opened, being opened, opened, attached or loose
  recorder,  \* PcmWavRecorder: the segments it buffers, and the chunk being stored
  saved,     \* the segments whose chunk is stored
  doing,     \* where the callback of a segment is
  stopper,   \* stopCaptionRuntime
  exiter     \* handleCaptionAdapterExit

app == <<source, runtime, capture, recorder, saved, doing, stopper, exiter>>
vars == <<wasapi, asrVars, cap, app>>

Init ==
  /\ WasapiInit /\ AsrInit /\ CapInit
  /\ \E k \in Kinds : source = [kind |-> k, status |-> "starting", stopRequested |-> FALSE]
  /\ runtime = [attached |-> TRUE, timer |-> TRUE, error |-> FALSE]
  /\ capture = "none"
  /\ recorder = [buffered |-> <<>>, chunk |-> {}] /\ saved = {}
  /\ doing = [s \in 1 .. MaxSegments |-> "none"]
  /\ stopper = [at |-> "no", failed |-> FALSE]
  /\ exiter = [at |-> "no", failed |-> FALSE]

Local == source.kind = "local-asr"

-----------------------------------------------------------------------------
(* Failing and stopping.                                                   *)

\* loopbackAbortController
Aborted == stopper.at # "no" \/ exiter.at # "no"

Begin(stop) == IF stop.at = "no" THEN [stop EXCEPT !.at = "start"] ELSE stop

MayFail ==
  /\ runtime.attached /\ ~source.stopRequested
  /\ source.status \in {"starting", "recording"}

\* handleCaptionRuntimeFailure: the runtime is detached and its stop is tracked.
RuntimeFails ==
  IF MayFail
  THEN /\ runtime' = [runtime EXCEPT !.attached = FALSE, !.timer = FALSE]
       /\ source' = [source EXCEPT !.status = "failed"]
       /\ stopper' = Begin(stopper)
  ELSE UNCHANGED <<runtime, source, stopper>>

\* handleCaptionStartupTimeout
StartupTimesOut ==
  /\ runtime.timer
  /\ IF source.status = "starting" /\ MayFail THEN RuntimeFails
     ELSE runtime' = [runtime EXCEPT !.timer = FALSE] /\ UNCHANGED <<source, stopper>>
  /\ UNCHANGED <<wasapi, asrVars, cap, capture, recorder, saved, doing, exiter>>

\* onError of the recording.
CaptureReportsFailure ==
  /\ session.failed /\ MayFail /\ RuntimeFails
  /\ UNCHANGED <<wasapi, asrVars, cap, capture, recorder, saved, doing, exiter>>

\* endSessionOnce: the stop is requested, and the runtime, if attached, is stopped.
EndSession ==
  /\ ~source.stopRequested /\ source' = [source EXCEPT !.stopRequested = TRUE]
  /\ stopper' = IF runtime.attached THEN Begin(stopper) ELSE stopper
  /\ UNCHANGED <<wasapi, asrVars, cap, runtime, capture, recorder, saved, doing, exiter>>

-----------------------------------------------------------------------------
(* Starting the recording.                                                 *)

\* The callback that a failed start ends.
ReadyCallbackEnds == IF Local THEN [asr EXCEPT !.processing = "idle"] ELSE asr

\* onReady of the recogniser, or the status "ready" of the system captions.  A start
\* that is aborted already fails, and the failure finds the runtime being stopped.
OpenCapture ==
  /\ capture = "none"
  /\ \/ Local /\ asr.processing = "ready" /\ runtime' = runtime /\ UNCHANGED cap
     \/ ~Local /\ cap.processing = "ready" /\ cap' = Processed
        /\ runtime' = [runtime EXCEPT !.timer = @ /\ ~runtime.attached]
  /\ IF Aborted
     THEN capture' = "failed" /\ asr' = ReadyCallbackEnds /\ UNCHANGED device
     ELSE capture' = "opening" /\ OpenStream /\ UNCHANGED asr
  /\ UNCHANGED <<stream, loop, session, calls, heard, source, recorder, saved, doing, stopper,
                 exiter>>

CaptureOpens ==
  /\ capture = "opening" /\ ~Aborted /\ StreamReady
  /\ capture' = "opened"
  /\ UNCHANGED <<stream, session, calls, asrVars, cap, source, runtime, recorder, saved, doing,
                 stopper, exiter>>

CaptureStartFails ==
  /\ capture = "opening" /\ StreamStartFails
  /\ capture' = "failed" /\ asr' = ReadyCallbackEnds /\ RuntimeFails
  /\ UNCHANGED <<loop, session, calls, heard, cap, recorder, saved, doing, exiter>>

\* The transition that gives the recording to the runtime, or finds it too late.
MayAttach == runtime.attached /\ ~source.stopRequested /\ source.status = "starting"

AttachCapture ==
  /\ capture = "opened" /\ MayAttach
  /\ capture' = "attached" /\ source' = [source EXCEPT !.status = "recording"]
  /\ runtime' = IF Local THEN [runtime EXCEPT !.timer = FALSE] ELSE runtime
  /\ asr' = ReadyCallbackEnds
  /\ UNCHANGED <<wasapi, heard, cap, recorder, saved, doing, stopper, exiter>>

LeaveCapture ==
  /\ capture = "opened" /\ ~MayAttach
  /\ capture' = "loose" /\ StopRecording
  /\ UNCHANGED <<asrVars, cap, source, runtime, recorder, saved, doing, stopper, exiter>>

\* The stop of a recording that nobody took; when it fails, so does the callback.
LooseCaptureStopped ==
  /\ capture = "loose" /\ session.stop \in Settled
  /\ capture' = "failed" /\ asr' = ReadyCallbackEnds
  /\ IF session.stop = "failed" THEN RuntimeFails ELSE UNCHANGED <<runtime, source, stopper>>
  /\ UNCHANGED <<wasapi, heard, cap, recorder, saved, doing, exiter>>

-----------------------------------------------------------------------------
(* The callback of a segment: onSegment.                                   *)

Wanted ==
  /\ runtime.attached /\ source.status \in {"starting", "recording"}
  /\ Local /\ source.stopRequested => source.status = "recording"

SegmentIgnored(s) ==
  /\ s \in calls.active /\ doing[s] = "none" /\ ~Wanted /\ CallbackEnds(s)
  /\ UNCHANGED <<asrVars, cap, app>>

\* A recogniser's segment waits for the transition that makes the source record.
Recordable == Wanted /\ (Local => source.status = "recording")

\* PcmWavRecorder.append: the segment that fills the chunk makes it leave.
Segments(q) == {q[i] : i \in DOMAIN q}

Appended(s) ==
  LET all == Append(recorder.buffered, s) IN
    IF Len(all) = ChunkSize THEN [buffered |-> <<>>, chunk |-> Segments(all)]
    ELSE [recorder EXCEPT !.buffered = all]

RecordSegment(s) ==
  /\ s \in calls.active /\ doing[s] = "none" /\ Recordable
  /\ recorder' = Appended(s)
  /\ IF recorder'.chunk # recorder.chunk
     THEN doing' = [doing EXCEPT ![s] = "saving"] /\ UNCHANGED <<wasapi, asrVars>>
     ELSE IF Local
     THEN doing' = [doing EXCEPT ![s] = "asking"] /\ Submit(s) /\ UNCHANGED wasapi
     ELSE doing' = doing /\ CallbackEnds(s) /\ UNCHANGED asrVars
  /\ UNCHANGED <<cap, source, runtime, capture, saved, stopper, exiter>>

SegmentSaved(s) ==
  /\ doing[s] = "saving" /\ saved' = saved \cup recorder.chunk
  /\ recorder' = [recorder EXCEPT !.chunk = {}]
  /\ IF Local
     THEN doing' = [doing EXCEPT ![s] = "asking"] /\ Submit(s) /\ UNCHANGED wasapi
     ELSE doing' = [doing EXCEPT ![s] = "none"] /\ CallbackEnds(s) /\ UNCHANGED asrVars
  /\ UNCHANGED <<cap, source, runtime, capture, stopper, exiter>>

SegmentNotSaved(s) ==
  /\ doing[s] = "saving" /\ doing' = [doing EXCEPT ![s] = "none"] /\ CallbackFails(s)
  /\ recorder' = [recorder EXCEPT !.chunk = {}]
  /\ UNCHANGED <<asrVars, cap, source, runtime, capture, saved, stopper, exiter>>

SegmentAnswered(s) ==
  /\ doing[s] = "asking" /\ asr.answer[s] # "none"
  /\ doing' = [doing EXCEPT ![s] = "none"]
  /\ IF asr.answer[s] = "ok" THEN CallbackEnds(s) ELSE CallbackFails(s)
  /\ UNCHANGED <<asrVars, cap, source, runtime, capture, recorder, saved, stopper, exiter>>

-----------------------------------------------------------------------------
(* The other callbacks of the system-caption helper.                       *)

\* onStatus "ready" after the first: the source records again if it may.
StatusReady ==
  /\ ~Local /\ cap.processing = "ready" /\ capture # "none"
  /\ cap' = Processed /\ runtime' = [runtime EXCEPT !.timer = @ /\ ~runtime.attached]
  /\ source' = IF capture = "attached" /\ runtime.attached /\ source.status = "starting"
               THEN [source EXCEPT !.status = "recording"] ELSE source
  /\ UNCHANGED <<wasapi, asrVars, capture, recorder, saved, doing, stopper, exiter>>

StatusReconnecting ==
  /\ ~Local /\ cap.processing = "reconnecting" /\ cap' = Processed
  /\ runtime' = [runtime EXCEPT !.timer = runtime.attached]
  /\ source' = IF source.status = "recording" THEN [source EXCEPT !.status = "starting"] ELSE source
  /\ UNCHANGED <<wasapi, asrVars, capture, recorder, saved, doing, stopper, exiter>>

StatusUnavailable ==
  /\ ~Local /\ cap.processing = "unavailable" /\ cap' = Processed /\ RuntimeFails
  /\ UNCHANGED <<wasapi, asrVars, capture, recorder, saved, doing, exiter>>

\* onCaption stores the caption.
CaptionStored ==
  /\ ~Local /\ cap.processing = "caption"
  /\ cap' = [Processed EXCEPT !.stored = @ + 1]
  /\ runtime' = [runtime EXCEPT !.timer = @ /\ ~runtime.attached]
  /\ UNCHANGED <<wasapi, asrVars, source, capture, recorder, saved, doing, stopper, exiter>>

CaptionRejected ==
  /\ ~Local /\ cap.processing = "caption" /\ cap' = ProcessingFails
  /\ runtime' = [runtime EXCEPT !.timer = @ /\ ~runtime.attached]
  /\ UNCHANGED <<wasapi, asrVars, source, capture, recorder, saved, doing, stopper, exiter>>

-----------------------------------------------------------------------------
(* handleCaptionAdapterExit and stopCaptionRuntime; both stop the capture. *)

Exiting == asr.processing = "exit" \/ cap.processing = "exit"

AdapterExits == IF Local THEN Exited /\ UNCHANGED <<heard, cap>>
                ELSE cap' = CapExited /\ UNCHANGED asrVars

ExitNoted ==
  /\ Exiting /\ exiter.at = "no" /\ ~runtime.attached /\ AdapterExits
  /\ UNCHANGED <<wasapi, app>>

ExitStopsCapture ==
  /\ Exiting /\ exiter.at = "no" /\ runtime.attached
  /\ runtime' = [runtime EXCEPT !.attached = FALSE, !.timer = FALSE]
  /\ exiter' = Begin(exiter)
  /\ UNCHANGED <<wasapi, asrVars, cap, source, capture, recorder, saved, doing, stopper>>

StartIgnored == TRUE

\* recordingStartPromise, which only the system captions have.
StartSettled == Local \/ capture \notin {"opening", "opened", "loose"}
StartFailed == ~Local /\ capture = "failed"

\* The recording is told to stop; a stop that goes on is shared.
StopsCapture(stop, next) ==
  /\ stop.at = "start" /\ StartSettled
  /\ IF capture = "attached"
     THEN /\ next = [stop EXCEPT !.at = "stream"]
          /\ IF session.stop = "no" THEN StopRecording ELSE UNCHANGED wasapi
     ELSE next = [at |-> "flush", failed |-> StartFailed] /\ UNCHANGED wasapi

CaptureStopped(stop, next) ==
  /\ stop.at = "stream" /\ session.stop \in Settled
  /\ next = [at |-> "flush", failed |-> stop.failed \/ session.stop = "failed"]

FlushForgives(stop, next) ==
  /\ stop.at = "flush" /\ recorder' = [recorder EXCEPT !.buffered = <<>>]
  /\ LET rest == Segments(recorder.buffered) IN
       \E stored \in {rest, {}} : saved' = saved \cup stored
  /\ next = [at |-> "flushed", failed |-> stop.failed]

\* recorder.flush, and the write of the chunk it returns.
FlushesRecorder(stop, next) ==
  /\ stop.at = "flush" /\ recorder' = [recorder EXCEPT !.buffered = <<>>]
  /\ LET rest == Segments(recorder.buffered) IN
       \E stored \in {rest, {}} : /\ saved' = saved \cup stored
                                 /\ next = [at |-> "flushed", failed |-> stop.failed \/ stored # rest]

StopperStopsCapture ==
  /\ StopsCapture(stopper, stopper')
  /\ UNCHANGED <<asrVars, cap, source, runtime, capture, recorder, saved, doing, exiter>>
ExiterStopsCapture ==
  /\ StopsCapture(exiter, exiter')
  /\ UNCHANGED <<asrVars, cap, source, runtime, capture, recorder, saved, doing, stopper>>
StopperWaits ==
  /\ CaptureStopped(stopper, stopper')
  /\ UNCHANGED <<wasapi, asrVars, cap, source, runtime, capture, recorder, saved, doing, exiter>>
ExiterWaits ==
  /\ CaptureStopped(exiter, exiter')
  /\ UNCHANGED <<wasapi, asrVars, cap, source, runtime, capture, recorder, saved, doing, stopper>>
StopperFlushes ==
  /\ FlushesRecorder(stopper, stopper')
  /\ UNCHANGED <<wasapi, asrVars, cap, source, runtime, capture, doing, exiter>>
ExiterFlushes ==
  /\ FlushesRecorder(exiter, exiter')
  /\ UNCHANGED <<wasapi, asrVars, cap, source, runtime, capture, doing, stopper>>

\* The rest of handleCaptionAdapterExit.
ProcessingError == asr.processingError \/ cap.error

ExiterEnds ==
  /\ exiter.at = "flushed" /\ exiter' = [exiter EXCEPT !.at = "done"]
  /\ runtime' = [runtime EXCEPT !.error = @ \/ exiter.failed \/ ProcessingError]
  /\ source' = IF ProcessingError \/ source.stopRequested THEN source
               ELSE [source EXCEPT !.status = "failed"]
  /\ AdapterExits
  /\ UNCHANGED <<wasapi, capture, recorder, saved, doing, stopper>>

AdapterStop == IF Local THEN asr.stop ELSE cap.stop

StopperStopsAdapter ==
  /\ stopper.at = "flushed" /\ stopper' = [stopper EXCEPT !.at = "adapter"]
  /\ IF Local THEN StopAsr /\ UNCHANGED cap ELSE StopCap /\ UNCHANGED asrVars
  /\ UNCHANGED <<wasapi, source, runtime, capture, recorder, saved, doing, exiter>>

StopperEnds ==
  /\ stopper.at = "adapter" /\ AdapterStop \in Settled
  /\ LET failed == stopper.failed \/ AdapterStop = "failed" IN
       /\ stopper' = [at |-> IF failed THEN "failed" ELSE "ok", failed |-> failed]
       /\ runtime' = [runtime EXCEPT !.error = @ \/ failed]
  /\ UNCHANGED <<wasapi, asrVars, cap, source, capture, recorder, saved, doing, exiter>>

-----------------------------------------------------------------------------
(* The specification.                                                      *)

Segment == 1 .. MaxSegments

\* What runs as soon as it can: the continuations of settled promises, the
\* callbacks up to their first await, and the lines of an idle processing queue.
RecordingSettles ==
  /\ \/ LoopReads \/ LoopWakes \/ LoopStopped \/ LoopDone
     \/ DeliverNothing \/ Deliver \/ FailureInterrupts
     \/ StopStreamSettles \/ StopLoopSettles
  /\ UNCHANGED <<asrVars, cap, app>>

RecogniserSettles ==
  /\ Local /\ UNCHANGED <<wasapi, cap, app>>
  /\ \/ ReadyLine \/ BadLine \/ TranscriptLine \/ ResultLine \/ ExitLine
     \/ StopQueueDrained \/ StopDrained \/ StopShutDown \/ StopExited

HelperSettles ==
  /\ ~Local /\ UNCHANGED <<wasapi, asrVars, app>>
  /\ SkipLine \/ Process \/ StopCapSettles

CallbackRuns(s) == SegmentIgnored(s) \/ RecordSegment(s) \/ SegmentAnswered(s)

AppSettles ==
  \/ \E s \in Segment : CallbackRuns(s)
  \/ OpenCapture \/ StatusReady \/ ExitNoted \/ ExitStopsCapture
  \/ StopperStopsCapture \/ ExiterStopsCapture \/ StopperWaits \/ ExiterWaits
  \/ StopperStopsAdapter \/ StopperEnds

Promises == RecordingSettles \/ RecogniserSettles \/ HelperSettles \/ AppSettles

\* What waits for the event loop.  Timers:
RecordingTimers ==
  (StartLoop \/ StreamStopTimesOut \/ StopDrainTimesOut) /\ UNCHANGED <<asrVars, cap, app>>

RecogniserTimers ==
  /\ Local /\ UNCHANGED <<wasapi, cap, app>>
  /\ RequestTimesOut \/ StopTimesOut \/ StopExitTimesOut

HelperTimers == ~Local /\ StopKills /\ UNCHANGED <<wasapi, asrVars, app>>

\* Writes to the event log, and transitions that contain one:
Stores ==
  \/ \E s \in Segment : SegmentSaved(s) \/ SegmentNotSaved(s)
  \/ AttachCapture \/ LeaveCapture \/ LooseCaptureStopped
  \/ Local /\ (TranscriptStored \/ TranscriptRejected) /\ UNCHANGED <<wasapi, cap, app>>
  \/ StatusReconnecting \/ StatusUnavailable \/ CaptionStored \/ CaptionRejected
  \/ CaptureReportsFailure \/ StopperFlushes \/ ExiterFlushes \/ ExiterEnds

\* The processes:
Processes ==
  \/ /\ DeviceSends \/ DeviceCompletes \/ DeviceFails \/ DeviceCloses
     /\ UNCHANGED <<asrVars, cap, app>>
  \/ /\ Local /\ UNCHANGED <<wasapi, cap, app>>
     /\ \/ WriteFails
        \/ HelperReady \/ HelperAnswers \/ HelperRefuses \/ HelperMisbehaves \/ HelperExits
  \/ /\ ~Local /\ UNCHANGED <<wasapi, asrVars, app>>
     /\ \/ CapFlushes \/ CapExits
        \/ \E kind \in {"ready", "reconnecting", "unavailable", "caption"} : CapWrites(kind)
  \/ CaptureOpens \/ CaptureStartFails

Events ==
  \/ RecordingTimers \/ RecogniserTimers \/ HelperTimers \/ StartupTimesOut
  \/ Stores \/ Processes \/ EndSession

\* A promise can settle.  That a callback can record its segment is one such case,
\* which is named for the proofs.
MayRecord(s) == s \in calls.active /\ doing[s] = "none" /\ Recordable
Settling == (\E s \in Segment : MayRecord(s)) \/ ENABLED Promises

Next == Promises \/ (Events /\ ~Settling)

Spec == Init /\ [][Next]_vars

\* The program never rests while a promise can settle, a timer is armed or a write
\* is under way; a process that was killed exits, and nothing else is expected of
\* a process.  No step can be repeated for ever, so one condition is enough.
Killed ==
  \/ Local /\ asr.killed /\ HelperExits /\ UNCHANGED <<wasapi, cap, app>>
  \/ ~Local /\ cap.killed /\ CapExits /\ UNCHANGED <<wasapi, asrVars, app>>
  \/ CaptureStartFails

Progress ==
  \/ Promises
  \/ /\ RecordingTimers \/ RecogniserTimers \/ HelperTimers \/ Stores \/ Killed
     /\ ~Settling

FairSpec == Spec /\ WF_vars(Progress)

-----------------------------------------------------------------------------
(* Properties.                                                             *)

Outcomes == {"none", "ok", "failed"}

\* The state is well formed.
TypeOK ==
  /\ device.at \in {"off", "starting", "running", "stopping", "completed", "dying", "gone"}
  /\ device.sent \in 0 .. MaxSegments
  /\ stream.queued \in Seq(Segment) /\ stream.stop \in {"no", "waiting", "given up"}
  /\ loop \in {"none", "created", "reading", "waiting", "given", "stopping", "draining", "done"}
  /\ session.stop \in {"no", "stream", "loop"} \cup Settled
  /\ calls.tail \in Seq(Segment) /\ calls.active \cup calls.done \subseteq Segment
  /\ asr.request \in 0 .. Shutdown /\ asr.answer \in [1 .. Shutdown -> Outcomes]
  /\ asr.stop \in {"no", "queue", "drain", "shutdown", "exit", "killed"} \cup Settled
  /\ cap.stored \in Nat /\ cap.stop \in {"no", "waiting"} \cup Settled
  /\ source.status \in {"starting", "recording", "failed"}
  /\ capture \in {"none", "opening", "opened", "attached", "loose", "failed"}
  /\ saved \subseteq Segment /\ recorder.buffered \in Seq(Segment)
  /\ stopper.at \in {"no", "start", "stream", "flush", "flushed", "adapter", "ok", "failed"}
  /\ exiter.at \in {"no", "start", "stream", "flush", "flushed", "done"}

\* The callbacks of two segments never run at the same time, whatever fails
\* while one of them waits.
OneSegmentAtATime == Cardinality(calls.active) <= 1

\* A recording whose stop succeeds has handed over every segment that its helper
\* sent, the ones sent after the stop included.
StoppedIsDelivered == session.stop = "ok" => calls.done = 1 .. device.sent

\* An answer that is credited to a request was given to that request.
AnswersAreGenuine == \A r \in 1 .. Shutdown : asr.answer[r] = "ok" => r \in heard

\* The helper has answered the stop.
Farewell == IF Local THEN asr.answer[Shutdown] = "ok" ELSE cap.exit = "flushed"

StopSucceeds == stopper.at = "ok" /\ ~runtime.error /\ source.status # "failed"

Kept ==
  /\ capture = "attached" =>
       /\ saved = 1 .. device.sent
       /\ Local => \A s \in 1 .. device.sent : asr.answer[s] = "ok"
  /\ ~Local => cap.stored = cap.captions

\* A stop that succeeds, of a helper that answers it, has kept all of the sound
\* and all of the captions.
TailIsKept == StopSucceeds /\ Farewell => Kept

\* No sound is left in the recorder when the runtime is stopped, whoever stops it.
NothingBuffered ==
  stopper.at \in {"ok", "failed"} \/ exiter.at = "done" => recorder.buffered = <<>>

\* A stop that succeeds leaves no recording behind that still runs, not even one
\* that was being started.
NoStrayRecording == stopper.at = "ok" => device.at \in {"off", "dying", "gone"}

\* A stop, of the end or of an exit, leaves nothing behind.
NothingLeftBehind == NothingBuffered /\ NoStrayRecording

\* Once the stop of the recording has settled, no segment is handed over.
QuietAfterStop == [][session.stop \in Settled => calls'.started = calls.started]_vars

\* The segments are handed over one at a time, all of them before a stop succeeds, and
\* none after it.
SegmentsInTurn == [](OneSegmentAtATime /\ StoppedIsDelivered) /\ QuietAfterStop

\* A stop settles: nobody waits for somebody who waits for the stop.
StopSettles == stopper.at # "no" ~> stopper.at \in {"ok", "failed"}

=============================================================================
