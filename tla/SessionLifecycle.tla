------------------------- MODULE SessionLifecycle -------------------------
(***************************************************************************)
(* The sessions of the local service, their capture sources and the        *)
(* processes behind a caption source: a captioner (the Windows captions    *)
(* helper or a local ASR runtime) and a loopback recording of the audio.   *)
(*                                                                         *)
(* An HTTP request or a callback changes a session by appending events;    *)
(* the state is what reduceLiteEvent makes of them, and every event is     *)
(* offered to the receiver's ownership rules as it is written.  Capture    *)
(* transitions of a session run one at a time and check their conditions   *)
(* when they run, so each is one action; what a callback or a request does *)
(* before and after an await is a separate action.                         *)
(*                                                                         *)
(* Each session has at most one caption runtime per life of the process.   *)
(* runtime[s].at says who owns it:                                         *)
(*   "attached"  captionAdapters holds it, its callbacks count             *)
(*   "detached"  it has failed; it is stopped in the background            *)
(*   "exiting"   its process has exited; the exit handler stops the audio  *)
(*   "exited"    ... and has still to record the failure of the source     *)
(*                                                                         *)
(* runtime[s].timer is the startup timer: "armed", "off", or "presumed"    *)
(* when it is off because a preview was taken for the start, and nothing   *)
(* has said since that the captioner is ready, or reconnecting.            *)
(*                                                                         *)
(* runtime[s].loopback is "off", "starting", "on", or "over" once it has   *)
(* been stopped; runtime[s].buffered: the recorder holds audio that is in  *)
(* no chunk yet.                                                           *)
(*                                                                         *)
(* A definition whose comment is missing and which only precedes the one   *)
(* it resembles is a mutated form of it: see the README.                   *)
(***************************************************************************)
EXTENDS Naturals, CloudOwnership

CONSTANTS
  NoEvent,      \* no event has been refused
  MaxFailures   \* bound on the crashes and the failed writes

ASSUME LifecycleAssumption ==
  /\ NoSession \notin Session
  /\ NoEvent \notin Event
  /\ MaxFailures \in Nat

VARIABLES
  lifecycle,   \* "down", "initializing", "ready" or "closing"
  state,       \* LiteState: the phase, mode, tail and source status of the sessions
  mutation,    \* the rest of an event mutation that appends several events
  runtime,     \* the caption runtimes
  endAt,       \* where the endSession of the open session is
  endTail,     \* and its tailDisposition
  erred,       \* captionProcessingErrors: the sessions that have one
  cloud,       \* what the receiver knows, from the events accepted
  refused,     \* the first event the receiver refuses
  failures     \* number of injected failures

vars == <<lifecycle, state, mutation, runtime, endAt, endTail, erred, cloud, refused, failures>>
endVars == <<endAt, endTail>>

-----------------------------------------------------------------------------
NoRuntime == [at |-> "none", timer |-> "off", loopback |-> "off", buffered |-> FALSE, failed |-> FALSE]

\* A runtime just started: the startup timer is armed.
StartedRuntime == [NoRuntime EXCEPT !.at = "attached", !.timer = "armed"]

Init ==
  /\ lifecycle = "down"
  /\ state = [phase |-> [s \in Session |-> "none"],
              mode |-> [s \in Session |-> "none"],
              tail |-> [s \in Session |-> "none"],
              status |-> [s \in Session |-> [k \in Kind |-> "none"]]]
  /\ mutation = "none"
  /\ runtime = [s \in Session |-> NoRuntime]
  /\ endAt = "idle" /\ endTail = "none"
  /\ erred = {}
  /\ cloud = NothingOwned /\ refused = NoEvent
  /\ failures = 0

Inject == failures < MaxFailures /\ failures' = failures + 1

-----------------------------------------------------------------------------
(* Events.                                                                 *)

Started(s, m) == [type |-> "session.started", session |-> s, mode |-> m]
StopRequested(s, t) == [type |-> "session.stop.requested", session |-> s, tail |-> t]
Ended(s) == [type |-> "session.ended", session |-> s]

Attached(s, k, st) == [type |-> "source.attached", session |-> s, kind |-> k, status |-> st]
Changed(s, k, st) == [type |-> "source.status.changed", session |-> s, kind |-> k, status |-> st]
CaptionReceived(s, k) == [type |-> "caption.received", session |-> s, kind |-> k]
AudioSaved(s, k) == [type |-> "audio.chunk.saved", session |-> s, kind |-> k]

\* reduceLiteEvent.
Reduce(e) ==
  LET s == e.session IN
  CASE e.type = "session.started" ->
         [state EXCEPT !.phase[s] = "open", !.mode[s] = e.mode]
    [] e.type = "session.stop.requested" ->
         [state EXCEPT !.phase[s] = "stopping", !.tail[s] = e.tail]
    [] e.type = "session.ended" ->
         [state EXCEPT !.phase[s] = "ended",
                       !.status[s] = [k \in Kind |->
                          IF @[k] \in {"none", "failed"} THEN @[k] ELSE "stopped"]]
    [] e.type \in {"source.attached", "source.status.changed"} ->
         [state EXCEPT !.status[s][e.kind] = e.status]
    [] OTHER -> state

\* appendEvent.  The outbox offers the event to the receiver; a refused event
\* stays first in the outbox and no later one is offered.
AppendEvent(e) ==
  /\ state' = Reduce(e)
  /\ IF refused = NoEvent /\ Accepts(cloud, e)
       THEN cloud' = After(cloud, e) /\ UNCHANGED refused
       ELSE refused' = (IF refused = NoEvent THEN e ELSE refused) /\ UNCHANGED cloud

NoAppend == UNCHANGED <<state, cloud, refused>>

IsOpen(s) == state.phase[s] \in {"open", "stopping"}

CaptionStatus(s, k, sts) == k \in CaptureKind /\ state.status[s][k] \in sts

Up == lifecycle \in {"ready", "closing"}

\* No event mutation is in the middle of its events.
QueueFree == mutation = "none"

-----------------------------------------------------------------------------
(* startSession.                                                           *)

MayStartBesideStopping == \A s \in Session : state.phase[s] # "open"

\* hasOpenSession.
MayStart == \A s \in Session : ~IsOpen(s)

StartSession(s, m) ==
  /\ lifecycle = "ready" /\ QueueFree
  /\ MayStart
  /\ state.phase[s] = "none"
  /\ AppendEvent(Started(s, m))
  /\ mutation' = IF m = "captions" THEN "attach-caption" ELSE "attach-mic"
  /\ erred' = erred \ {s}
  /\ UNCHANGED <<lifecycle, runtime, endVars, failures>>

AttachCaptionSource(s, k) ==
  /\ Up /\ mutation = "attach-caption"
  /\ state.phase[s] = "open"
  /\ AppendEvent(Attached(s, k, "starting"))
  /\ mutation' = "attach-mic"
  /\ UNCHANGED <<lifecycle, runtime, endVars, erred, failures>>

\* The last append of the mutation; then the captioner is started.
AttachMic(s) ==
  /\ Up /\ mutation = "attach-mic"
  /\ state.phase[s] = "open"
  /\ AppendEvent(Attached(s, "browser-mic", "available"))
  /\ mutation' = "none"
  /\ runtime' = IF state.mode[s] = "captions" THEN [runtime EXCEPT ![s] = StartedRuntime] ELSE runtime
  /\ UNCHANGED <<lifecycle, endVars, erred, failures>>

\* An append fails: the rest of the mutation is not done.
StartSessionFails ==
  /\ Up /\ mutation \in {"attach-caption", "attach-mic"}
  /\ Inject
  /\ mutation' = "none"
  /\ NoAppend
  /\ UNCHANGED <<lifecycle, runtime, endVars, erred>>

-----------------------------------------------------------------------------
(* The caption runtime: its callbacks.                                     *)

Idle == UNCHANGED <<lifecycle, mutation, endVars, failures>>

AttachedTo(s, k) == Up /\ QueueFree /\ runtime[s].at = "attached" /\ state.status[s][k] # "none"

\* The captioner is heard until a callback of it rejects: then it is killed.
Heard(s, k) == AttachedTo(s, k) /\ ~runtime[s].failed

\* The helper says it is ready: the recording of the audio is started, once.
\* The captions helper also disarms the timer, and says so after a reconnection.
HelperReady(s, k) ==
  /\ Heard(s, k) /\ k \in CaptureKind
  /\ runtime' = [runtime EXCEPT
       ![s].timer = IF k = "system-captions" THEN "off" ELSE @,
       ![s].loopback = IF @ = "off" THEN "starting" ELSE @]
  /\ IF k = "system-captions" /\ runtime[s].loopback = "on" /\ CaptionStatus(s, k, {"starting"})
       THEN AppendEvent(Changed(s, k, "recording"))
       ELSE NoAppend
  /\ Idle /\ UNCHANGED erred

WantedByTheSource(s, k) == state.phase[s] = "open" /\ CaptionStatus(s, k, {"starting"})

\* The transition that follows the start of the recording looks again.
Wanted(s, k) ==
  /\ runtime[s].at = "attached"
  /\ CaptionStatus(s, k, {"starting"})
  /\ state.phase[s] = "open"
  /\ k = "local-asr" => lifecycle # "closing"

\* What is done once the start of a captions recording has settled does not ask
\* whether the recording was kept, nor whether a stop is requested.
StillStarting(s, k) ==
  k = "system-captions" /\ runtime[s].at = "attached" /\ CaptionStatus(s, k, {"starting"})

\* The recording has started: it is the runtime's, or it is stopped at once.
LoopbackStarted(s, k) ==
  /\ Up /\ QueueFree
  /\ runtime[s].loopback = "starting"
  /\ k \in CaptureKind /\ state.status[s][k] # "none"
  /\ IF Wanted(s, k)
       THEN /\ runtime' = [runtime EXCEPT
                 ![s].loopback = "on",
                 ![s].timer = IF k = "local-asr" THEN "off" ELSE @]
            /\ AppendEvent(Changed(s, k, "recording"))
       ELSE /\ runtime' = [runtime EXCEPT ![s].loopback = "over"]
            /\ IF StillStarting(s, k) THEN AppendEvent(Changed(s, k, "recording")) ELSE NoAppend
  /\ Idle /\ UNCHANGED erred

\* The captions helper has lost its source and looks for it again.
ReconnectingUnarmed(s, k) ==
  /\ Heard(s, k) /\ k = "system-captions"
  /\ UNCHANGED runtime
  /\ IF CaptionStatus(s, k, {"recording"})
       THEN AppendEvent(Changed(s, k, "starting"))
       ELSE NoAppend
  /\ Idle /\ UNCHANGED erred

Reconnecting(s, k) ==
  /\ Heard(s, k) /\ k = "system-captions"
  /\ runtime' = [runtime EXCEPT ![s].timer = "armed"]
  /\ IF CaptionStatus(s, k, {"recording"})
       THEN AppendEvent(Changed(s, k, "starting"))
       ELSE NoAppend
  /\ Idle /\ UNCHANGED erred

\* A preview of the captions helper is taken for its start, as a caption is: no
\* timer watches a source that is still starting.
Preview(s, k) ==
  /\ Heard(s, k) /\ k = "system-captions"
  /\ runtime' = [runtime EXCEPT ![s].timer = IF @ = "armed" THEN "presumed" ELSE @]
  /\ NoAppend /\ Idle /\ UNCHANGED erred

\* A piece of audio: it is buffered, and may complete a chunk.
Segment(s, k) ==
  /\ AttachedTo(s, k) /\ k \in CaptureKind
  /\ state.phase[s] # "ended"
  /\ IF k = "system-captions"
       THEN runtime[s].loopback # "off" /\ CaptionStatus(s, k, {"starting", "recording"})
       ELSE runtime[s].loopback = "on" /\ CaptionStatus(s, k, {"recording"})
  /\ \/ runtime' = [runtime EXCEPT ![s].buffered = TRUE] /\ NoAppend
     \/ /\ \E b \in BOOLEAN : runtime' = [runtime EXCEPT ![s].buffered = b]
        /\ AppendEvent(AudioSaved(s, k))
  /\ Idle /\ UNCHANGED erred

\* markCaptionAdapterStarted, on a caption of the captions helper.
Settled(s, k) ==
  IF k = "system-captions" THEN [runtime EXCEPT ![s].timer = "off"] ELSE runtime

\* receiveCaption: over HTTP while the session is open, or from the runtime.
Caption(s, k) ==
  /\ Up /\ QueueFree
  /\ \/ state.phase[s] = "open" /\ UNCHANGED runtime
     \/ IsOpen(s) /\ Heard(s, k) /\ runtime' = Settled(s, k)
  /\ IF k = "browser-mic"
       THEN state.mode[s] = "recording-only" /\ state.status[s][k] = "available"
       ELSE state.status[s][k] = "recording"
  /\ AppendEvent(CaptionReceived(s, k))
  /\ Idle /\ UNCHANGED erred

\* A caption of the helper comes while its source is not recording: the
\* service rejects it.  The timer is disarmed before that.
CaptionRejected(s, k) ==
  /\ Heard(s, k) /\ k = "system-captions"
  /\ CaptionStatus(s, k, {"starting"})
  /\ runtime' = [runtime EXCEPT ![s].failed = TRUE, ![s].timer = "off"]
  /\ NoAppend /\ Idle /\ UNCHANGED erred

\* saveAudioChunk: an upload of the browser.
MicChunk(s) ==
  /\ lifecycle = "ready" /\ QueueFree
  /\ state.phase[s] = "open"
  /\ state.status[s]["browser-mic"] # "none"
  /\ AppendEvent(AudioSaved(s, "browser-mic"))
  /\ UNCHANGED <<runtime, erred>> /\ Idle

\* handleCaptionRuntimeFailure: the conditions under which a failure counts.
CanFail(s, k, sts) ==
  /\ lifecycle # "closing"
  /\ runtime[s].at = "attached"
  /\ state.phase[s] = "open"
  /\ CaptionStatus(s, k, sts)

Fails(s, k) ==
  /\ runtime' = [runtime EXCEPT ![s].at = "detached", ![s].timer = "off"]
  /\ AppendEvent(Changed(s, k, "failed"))

\* The helper reports an error, or the recording stops with one.
RuntimeFails(s, k) ==
  /\ Up /\ QueueFree
  /\ CanFail(s, k, {"starting", "recording"})
  /\ Fails(s, k)
  /\ Idle /\ UNCHANGED erred

\* The recording cannot be started, in time or at all.
LoopbackFails(s, k) ==
  /\ Up /\ QueueFree
  /\ runtime[s].loopback = "starting"
  /\ k \in CaptureKind /\ state.status[s][k] # "none"
  /\ IF CanFail(s, k, {"starting", "recording"})
       THEN /\ runtime' = [runtime EXCEPT ![s].at = "detached", ![s].timer = "off", ![s].loopback = "over"]
            /\ AppendEvent(Changed(s, k, "failed"))
       ELSE runtime' = [runtime EXCEPT ![s].loopback = "over"] /\ NoAppend
  /\ Idle /\ UNCHANGED erred

\* The startup timer fires.
StartupTimeout(s, k) ==
  /\ AttachedTo(s, k) /\ k \in CaptureKind
  /\ runtime[s].timer = "armed"
  /\ IF CanFail(s, k, {"starting"})
       THEN Fails(s, k)
       ELSE runtime' = [runtime EXCEPT ![s].timer = "off"] /\ NoAppend
  /\ Idle /\ UNCHANGED erred

-----------------------------------------------------------------------------
(* The caption runtime: how it is stopped.                                 *)

\* stopSystemAudioCapture waits for a captions recording that is starting.
AudioCanStop(s) ==
  runtime[s].loopback = "starting" => state.status[s]["system-captions"] = "none"

\* It then stops the recording and saves the buffered tail, which fails once
\* the session has ended.
StopsAudio(s, next) ==
  /\ runtime' = [runtime EXCEPT ![s] =
       [next EXCEPT !.loopback = IF @ = "on" THEN "over" ELSE @, !.buffered = FALSE]]
  /\ IF runtime[s].buffered /\ state.phase[s] # "ended"
       THEN \E k \in CaptureKind : state.status[s][k] # "none" /\ AppendEvent(AudioSaved(s, k))
       ELSE NoAppend

TailIsLost(s) == runtime[s].buffered /\ state.phase[s] = "ended"

\* The background stop of a failed runtime, tracked by trackCaptionRuntimeStop.
DetachedStops(s) ==
  /\ Up /\ QueueFree
  /\ runtime[s].at = "detached" /\ AudioCanStop(s)
  /\ StopsAudio(s, [runtime[s] EXCEPT !.at = "none"])
  /\ erred' = IF TailIsLost(s) THEN erred \cup {s} ELSE erred
  /\ Idle

\* The process of an attached runtime exits, by itself or killed.  The exit
\* carries a processingError when a callback has rejected, as one also does
\* when its write fails.
AdapterExits(s) ==
  /\ Up /\ QueueFree
  /\ runtime[s].at = "attached"
  /\ \/ /\ runtime' = [runtime EXCEPT ![s].at = "exiting", ![s].timer = "off"]
        /\ UNCHANGED failures
     \/ /\ runtime' = [runtime EXCEPT ![s].at = "exiting", ![s].timer = "off", ![s].failed = TRUE]
        /\ Inject
  /\ NoAppend /\ UNCHANGED <<lifecycle, mutation, endVars, erred>>

\* The exit handler has stopped the audio.  Nothing more is done on closing
\* or after a processing error.
ExitStopsAudio(s) ==
  /\ Up /\ QueueFree
  /\ runtime[s].at = "exiting" /\ AudioCanStop(s)
  /\ LET gone == lifecycle = "closing" \/ runtime[s].failed IN
       StopsAudio(s, [runtime[s] EXCEPT !.at = IF gone THEN "none" ELSE "exited", !.failed = FALSE])
  /\ erred' = IF TailIsLost(s) \/ (lifecycle # "closing" /\ runtime[s].failed) THEN erred \cup {s} ELSE erred
  /\ Idle

ExitMarksRecording(s) ==
  state.phase[s] = "open" /\ \E k \in CaptureKind : state.status[s][k] = "recording"

\* A stop in progress has its own account of the runtime.
ExitMarks(s) == state.phase[s] = "open"

\* Its last transition records the failure of the source.
ExitRecorded(s) ==
  /\ Up /\ QueueFree
  /\ runtime[s].at = "exited"
  /\ runtime' = [runtime EXCEPT ![s].at = "none"]
  /\ IF ExitMarks(s)
       THEN \E k \in CaptureKind : state.status[s][k] # "none" /\ AppendEvent(Changed(s, k, "failed"))
       ELSE NoAppend
  /\ Idle /\ UNCHANGED erred

-----------------------------------------------------------------------------
(* endSession.                                                             *)

\* requestSessionStopUnlocked: a request is repeated only to confirm a loss.
NewRequest(s, t) ==
  \/ state.phase[s] = "open"
  \/ t = "loss-confirmed" /\ state.tail[s] # "loss-confirmed"

\* The first transition of endSessionOnce.
RequestStop(s, t) ==
  /\ lifecycle = "ready" /\ QueueFree
  /\ endAt = "idle"
  /\ IsOpen(s)
  /\ IF NewRequest(s, t) THEN AppendEvent(StopRequested(s, t)) ELSE NoAppend
  /\ endAt' = IF runtime[s].at = "attached" THEN "draining" ELSE "drained"
  /\ endTail' = t
  /\ UNCHANGED <<lifecycle, mutation, runtime, erred, failures>>

\* stopCaptionRuntime, of the runtime attached at the request: the audio,
\* then the captioner, whose exit is awaited.  An error ends the request
\* unless the loss is confirmed.
DrainRuntime(s) ==
  /\ Up /\ QueueFree
  /\ endAt = "draining" /\ IsOpen(s)
  /\ runtime[s].at \in {"attached", "none"} /\ AudioCanStop(s)
  /\ StopsAudio(s, [runtime[s] EXCEPT !.at = "none", !.timer = "off"])
  /\ \E failed \in BOOLEAN :
       /\ erred' = IF failed THEN erred \cup {s} ELSE erred
       /\ endAt' = IF failed /\ endTail # "loss-confirmed" THEN "idle" ELSE "drained"
       /\ endTail' = IF failed /\ endTail # "loss-confirmed" THEN "none" ELSE endTail
  /\ UNCHANGED <<lifecycle, mutation, failures>>

EndRefusedWhateverTheTail(s) ==
  s \in erred /\ \A k \in CaptureKind : state.status[s][k] # "failed"

\* A processing error the user does not know of stops the request.
EndRefused(s) ==
  /\ s \in erred
  /\ endTail # "loss-confirmed"
  /\ \A k \in CaptureKind : state.status[s][k] # "failed"

\* The rest of endSessionOnce.
FinishEnd(s) ==
  /\ Up /\ QueueFree
  /\ endAt = "drained" /\ IsOpen(s)
  /\ endAt' = "idle" /\ endTail' = "none"
  /\ IF EndRefused(s)
       THEN NoAppend
       ELSE AppendEvent(Ended(s))
  /\ UNCHANGED <<lifecycle, mutation, runtime, erred, failures>>

-----------------------------------------------------------------------------
(* The process.                                                            *)

Forget ==
  /\ runtime' = [s \in Session |-> NoRuntime]
  /\ mutation' = "none"
  /\ endAt' = "idle" /\ endTail' = "none"
  /\ erred' = {}

Crash ==
  /\ lifecycle # "down"
  /\ Inject
  /\ lifecycle' = "down"
  /\ Forget
  /\ NoAppend

Close ==
  /\ lifecycle = "ready"
  /\ lifecycle' = "closing"
  /\ NoAppend
  /\ UNCHANGED <<mutation, runtime, endVars, erred, failures>>

\* The requests have finished: closeReadyApp stops the attached runtimes.
CloseStops(s) ==
  /\ lifecycle = "closing" /\ QueueFree /\ endAt = "idle"
  /\ runtime[s].at = "attached" /\ AudioCanStop(s)
  /\ StopsAudio(s, [runtime[s] EXCEPT !.at = "none", !.timer = "off"])
  /\ Idle /\ UNCHANGED erred

\* The attached runtimes are stopped, drainPendingCaptionRuntimeStops waits for
\* the failed ones and the capture queue for the transitions in it.  An
\* exit handler that is still stopping its audio is in none of these.
Drained == \A s \in Session : runtime[s].at \in {"none", "exiting"}

CloseDone ==
  /\ lifecycle = "closing" /\ QueueFree /\ endAt = "idle"
  /\ Drained
  /\ lifecycle' = "down"
  /\ Forget
  /\ NoAppend
  /\ UNCHANGED failures

Start ==
  /\ lifecycle = "down"
  /\ lifecycle' = "initializing"
  /\ NoAppend
  /\ UNCHANGED <<mutation, runtime, endVars, erred, failures>>

-----------------------------------------------------------------------------
(* recoverOpenCaptureSessions, the last step of initialize.                *)

Recovering == lifecycle = "initializing"

Recovers == UNCHANGED <<mutation, endVars, erred, failures>>

MustEnd(s) == state.phase[s] = "stopping" /\ state.tail[s] = "loss-confirmed"

Interrupted(s, k) ==
  /\ state.phase[s] = "stopping" /\ state.tail[s] # "loss-confirmed"
  /\ state.status[s][k] \notin {"none", "failed", "stopped"}

NeverCaptured(s) ==
  /\ state.phase[s] = "open" /\ state.mode[s] = "captions"
  /\ \A k \in CaptureKind : state.status[s][k] = "none"

Resumable(s, k) ==
  /\ state.phase[s] = "open" /\ state.mode[s] = "captions"
  /\ CaptionStatus(s, k, {"starting", "recording"})

\* The stop was requested with the loss confirmed: the session is ended.
RecoverEnd(s) ==
  /\ Recovering /\ QueueFree
  /\ MustEnd(s)
  /\ AppendEvent(Ended(s))
  /\ lifecycle' = "ready"
  /\ Recovers /\ UNCHANGED runtime

\* The stop was requested, its drain was interrupted: the sources have failed.
RecoverInterrupted(s, k) ==
  /\ Recovering
  /\ Interrupted(s, k)
  /\ AppendEvent(Changed(s, k, "failed"))
  /\ UNCHANGED lifecycle
  /\ Recovers /\ UNCHANGED runtime

\* The session has no caption source: it is stopped and ended.
RecoverStop(s) ==
  /\ Recovering /\ QueueFree
  /\ NeverCaptured(s)
  /\ AppendEvent(StopRequested(s, "not-recording"))
  /\ mutation' = "recover-end"
  /\ UNCHANGED <<lifecycle, runtime, endVars, erred, failures>>

RecoverStopped(s) ==
  /\ Recovering /\ mutation = "recover-end"
  /\ state.phase[s] = "stopping"
  /\ AppendEvent(Ended(s))
  /\ mutation' = "none"
  /\ lifecycle' = "ready"
  /\ UNCHANGED <<runtime, endVars, erred, failures>>

RestartsAlways(s, k) == CaptionStatus(s, k, {"starting", "recording"})

\* A source that was only starting is not started twice.
Restarts(s, k) == CaptionStatus(s, k, {"recording"})

\* The session was capturing: its source starts again, with a new runtime.
RecoverSource(s, k) ==
  /\ Recovering /\ Resumable(s, k)
  /\ Restarts(s, k)
  /\ AppendEvent(Changed(s, k, "starting"))
  /\ UNCHANGED lifecycle
  /\ Recovers /\ UNCHANGED runtime

RecoverAdapter(s, k) ==
  /\ Recovering /\ Resumable(s, k)
  /\ CaptionStatus(s, k, {"starting"})
  /\ \/ runtime' = [runtime EXCEPT ![s] = StartedRuntime] /\ NoAppend
     \/ AppendEvent(Changed(s, k, "failed")) /\ UNCHANGED runtime
  /\ lifecycle' = "ready"
  /\ Recovers

RecoverNothing ==
  /\ Recovering /\ QueueFree
  /\ \A s \in Session :
       ~MustEnd(s) /\ ~NeverCaptured(s) /\ \A k \in Kind : ~Interrupted(s, k) /\ ~Resumable(s, k)
  /\ lifecycle' = "ready"
  /\ NoAppend
  /\ Recovers /\ UNCHANGED runtime

-----------------------------------------------------------------------------
Requests ==
  \/ \E s \in Session : \E m \in Mode : StartSession(s, m)
  \/ \E s \in Session : \E k \in CaptureKind : AttachCaptionSource(s, k)
  \/ \E s \in Session : AttachMic(s)
  \/ StartSessionFails
  \/ \E s \in Session : MicChunk(s)
  \/ \E s \in Session : \E t \in Tail : RequestStop(s, t)
  \/ \E s \in Session : DrainRuntime(s) \/ FinishEnd(s)

Callbacks ==
  \/ \E s \in Session : \E k \in CaptureKind :
       \/ HelperReady(s, k) \/ Reconnecting(s, k) \/ Preview(s, k)
       \/ Segment(s, k) \/ CaptionRejected(s, k)
       \/ LoopbackStarted(s, k) \/ LoopbackFails(s, k)
       \/ RuntimeFails(s, k) \/ StartupTimeout(s, k)
  \/ \E s \in Session : \E k \in Kind : Caption(s, k)
  \/ \E s \in Session :
       AdapterExits(s) \/ ExitStopsAudio(s) \/ ExitRecorded(s) \/ DetachedStops(s)

Process ==
  \/ Start \/ Crash \/ Close \/ CloseDone
  \/ \E s \in Session : CloseStops(s) \/ RecoverEnd(s) \/ RecoverStop(s) \/ RecoverStopped(s)
  \/ \E s \in Session : \E k \in Kind : RecoverInterrupted(s, k)
  \/ \E s \in Session : \E k \in CaptureKind : RecoverSource(s, k) \/ RecoverAdapter(s, k)
  \/ RecoverNothing

Next == Requests \/ Callbacks \/ Process

Spec == Init /\ [][Next]_vars

-----------------------------------------------------------------------------
(* Properties.                                                             *)

RuntimeState ==
  [at : {"none", "attached", "detached", "exiting", "exited"}, timer : {"off", "armed", "presumed"},
   loopback : {"off", "starting", "on", "over"}, buffered : BOOLEAN, failed : BOOLEAN]

\* The values the state can hold.
TypeOK ==
  /\ lifecycle \in {"down", "initializing", "ready", "closing"}
  /\ state \in [phase : [Session -> Phase],
                mode : [Session -> Mode \cup {"none"}],
                tail : [Session -> Tail \cup {"none"}],
                status : [Session -> [Kind -> CaptureStatus \cup {"none"}]]]
  /\ mutation \in {"none", "attach-caption", "attach-mic", "recover-end"}
  /\ runtime \in [Session -> RuntimeState]
  /\ endAt \in {"idle", "draining", "drained"}
  /\ endTail \in Tail \cup {"none"}
  /\ erred \subseteq Session
  /\ cloud \in Ownership
  /\ refused \in Event \cup {NoEvent}
  /\ failures \in Nat

\* At most one session is open, across crashes and partly made sessions: with
\* two, the service would refuse to start (hasOpenSession,
\* recoverOpenCaptureSessions).
OneOpenSession ==
  \A s, t \in Session : IsOpen(s) /\ IsOpen(t) => s = t

\* The receiver refuses nothing the service writes, except the three kinds of
\* event on which service and receiver disagree: a status of the microphone, a repeated
\* stop request, and audio of a captioner that is not recording.
\* Every other interleaving of requests, callbacks, timeouts, exits, crashes
\* and recoveries writes events in an order the ownership rules allow
\* (validateDeviceEventOwnership).
OtherEventsAccepted ==
  refused # NoEvent =>
    \/ refused.type = "source.status.changed" /\ refused.kind = "browser-mic"
    \/ refused.type = "session.stop.requested" /\ cloud.phase[refused.session] = "stopping"
    \/ /\ refused.type = "audio.chunk.saved" /\ refused.kind \in CaptureKind
       /\ cloud.status[refused.session][refused.kind] \in {"starting", "failed"}

\* To whoever reads its events the service is CaptureSession: whatever callbacks,
\* timers, exits, failed appends, crashes and recoveries do, each event is the next
\* step of one session, taken while no other is open (startSession, endSession,
\* recoverOpenCaptureSessions and the checks of the transitions).
Sessions == INSTANCE CaptureSession WITH phase <- state.phase, mode <- state.mode, status <- state.status

ImplementsCaptureSession == Sessions!Spec

\* No late callback, timer or exit handler changes a session that has ended,
\* or reopens it (finishSessionEndUnlocked and the checks of the transitions).
EndedIsFinal ==
  [][\A s \in Session : state.phase[s] = "ended" =>
       state'.phase[s] = "ended" /\ state'.status[s] = state.status[s]]_vars

\* A native recording always has an owner that will stop it: the attached
\* runtime, or the failed or exited one that is being stopped
\* (startLocalAsrCaptionAdapter and startSystemCaptionRecording,
\* stopDetachedLoopback).
RecordingHasOwner ==
  \A s \in Session : runtime[s].loopback = "on" \/ runtime[s].buffered =>
    runtime[s].at \in {"attached", "detached", "exiting"}

\* A captioner that is gone is not taken for a live one: in an open session,
\* a source is starting or recording only with its runtime, unless a
\* processing error has been recorded, which makes the end of the session
\* refuse any disposition but the confirmed loss, or the start of the session
\* itself failed (handleCaptionAdapterExit).
DeadCaptionerIsKnown ==
  \A s \in Session : \A k \in CaptureKind :
    /\ lifecycle = "ready" /\ QueueFree
    /\ state.phase[s] = "open" /\ CaptionStatus(s, k, {"starting", "recording"})
    /\ state.status[s]["browser-mic"] # "none"
    /\ runtime[s].at = "none"
    => s \in erred

-----------------------------------------------------------------------------
(* Progress.                                                               *)

\* What happens without being asked: armed timers fire, a recording starts or
\* fails by its deadline, stops and drains finish by theirs.  Requests, the
\* helpers and failures are not fair.
Fairness ==
  \A s \in Session :
    /\ \A k \in CaptureKind :
         WF_vars(StartupTimeout(s, k)) /\ WF_vars(LoopbackStarted(s, k) \/ LoopbackFails(s, k))
    /\ WF_vars(AdapterExits(s) /\ runtime[s].failed)
    /\ WF_vars(DetachedStops(s)) /\ WF_vars(ExitStopsAudio(s)) /\ WF_vars(ExitRecorded(s))
    /\ WF_vars(DrainRuntime(s)) /\ WF_vars(FinishEnd(s))

FairSpec == Spec /\ Fairness

Waiting(s, k) ==
  lifecycle = "ready" /\ runtime[s].at = "attached" /\ CaptionStatus(s, k, {"starting"})

\* A preview has been taken for the start, and no recording is on its way.
Presumed(s) == runtime[s].timer = "presumed" /\ runtime[s].loopback # "starting"

\* A source whose captioner is attached does not stay starting: it records, it
\* fails by its timer, or its runtime goes, also after reconnections.  Only a
\* preview that the helper sends before it is ready may leave it starting
\* (armSystemCaptionStartupTimer, markCaptionAdapterStarted).
StartingResolves ==
  \A s \in Session : \A k \in CaptureKind :
    Waiting(s, k) ~> (~Waiting(s, k) \/ Presumed(s))

\* Once a user has confirmed the loss, the session ends, whatever errors the
\* drain meets and whatever became of the captioner (endSessionOnce).
ConfirmedEndCompletes ==
  <>[](lifecycle = "ready") =>
    \A s \in Session :
      (endAt # "idle" /\ endTail = "loss-confirmed" /\ IsOpen(s)) ~> (state.phase[s] = "ended")

-----------------------------------------------------------------------------
(* What documents, comments and assertions say, and the code does not do.  *)

\* syncReceiver.ts: "browser-mic sources do not emit status changes", and other
\* changes are "not produced by Lite".
StatusChangesAccepted ==
  ~(refused # NoEvent /\ refused.type = "source.status.changed")

=============================================================================
