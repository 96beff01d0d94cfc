---------------------- MODULE SessionLifecycle_proofs ----------------------
(***************************************************************************)
(* Proofs about SessionLifecycle, for every set of sessions and any number *)
(* of failures: its types, that at most one session is open, that a        *)
(* recording has an owner, that an ended session does not change, that the *)
(* receiver follows what the service writes, that no captioner dies        *)
(* unnoticed, and that the events are the steps of CaptureSession.         *)
(***************************************************************************)
EXTENDS SessionLifecycle, TLAPS

-----------------------------------------------------------------------------
(* Events.                                                                 *)

StateType ==
  [phase : [Session -> Phase],
   mode : [Session -> Mode \cup {"none"}],
   tail : [Session -> Tail \cup {"none"}],
   status : [Session -> [Kind -> CaptureStatus \cup {"none"}]]]

\* What the service writes about a session are events.
LEMMA Events ==
  ASSUME NEW s \in Session, NEW m \in Mode, NEW t \in Tail, NEW k \in Kind, NEW st \in CaptureStatus
  PROVE /\ Started(s, m) \in Event
        /\ StopRequested(s, t) \in Event
        /\ Ended(s) \in Event
        /\ Attached(s, k, st) \in Event
        /\ Changed(s, k, st) \in Event
        /\ CaptionReceived(s, k) \in Event
        /\ AudioSaved(s, k) \in Event
BY DEF Started, StopRequested, Ended, Attached, Changed, CaptionReceived, AudioSaved, Event

\* The state stays well typed under any event.
LEMMA ReduceType ==
  ASSUME NEW e \in Event, state \in StateType
  PROVE Reduce(e) \in StateType
<1>0. e.session \in Session BY DEF Event
<1>1. CASE e.type = "session.started"
  <2>1. e.mode \in Mode BY <1>1 DEF Event
  <2> QED BY <1>0, <1>1, <2>1 DEF Reduce, StateType, Phase
<1>2. CASE e.type = "session.stop.requested"
  <2>1. e.tail \in Tail BY <1>2 DEF Event
  <2> QED BY <1>0, <1>2, <2>1 DEF Reduce, StateType, Phase
<1>3. CASE e.type = "session.ended"
  <2>1. state.status[e.session] \in [Kind -> CaptureStatus \cup {"none"}] BY <1>0 DEF StateType
  <2> QED BY <1>0, <1>3, <2>1 DEF Reduce, StateType, Phase, CaptureStatus
<1>4. CASE e.type \in {"source.attached", "source.status.changed"}
  <2>1. e.kind \in Kind /\ e.status \in CaptureStatus BY <1>4 DEF Event
  <2>2. state.status[e.session] \in [Kind -> CaptureStatus \cup {"none"}] BY <1>0 DEF StateType
  <2> QED BY <1>0, <1>4, <2>1, <2>2 DEF Reduce, StateType
<1>5. CASE e.type \in {"caption.received", "audio.chunk.saved"}
  BY <1>5 DEF Reduce
<1> QED BY <1>1, <1>2, <1>3, <1>4, <1>5 DEF Event

\* What the receiver knows stays well typed under any event.
LEMMA AfterType ==
  ASSUME NEW e \in Event, cloud \in Ownership
  PROVE After(cloud, e) \in Ownership
<1>0. e.session \in Session BY DEF Event
<1>1. CASE e.type = "session.started"
  <2>1. e.mode \in Mode BY <1>1 DEF Event
  <2> QED BY <1>0, <1>1, <2>1 DEF After, Ownership, Phase
<1>2. CASE e.type = "session.stop.requested"
  BY <1>0, <1>2 DEF After, Ownership, Phase
<1>3. CASE e.type = "session.ended"
  <2>1. cloud.status[e.session] \in [Kind -> CaptureStatus \cup {"none"}] BY <1>0 DEF Ownership
  <2> QED BY <1>0, <1>3, <2>1 DEF After, Ownership, Phase, CaptureStatus
<1>4. CASE e.type \in {"source.attached", "source.status.changed"}
  <2>1. e.kind \in Kind /\ e.status \in CaptureStatus BY <1>4 DEF Event
  <2>2. cloud.status[e.session] \in [Kind -> CaptureStatus \cup {"none"}] BY <1>0 DEF Ownership
  <2>3. cloud.capture[e.session] \in CaptureKind \cup {"none"} BY <1>0 DEF Ownership
  <2> QED BY <1>0, <1>4, <2>1, <2>2, <2>3 DEF After, Ownership, Kind
<1>5. CASE e.type \in {"caption.received", "audio.chunk.saved"}
  BY <1>5 DEF After
<1> QED BY <1>1, <1>2, <1>3, <1>4, <1>5 DEF Event

LogType == state \in StateType /\ cloud \in Ownership /\ refused \in Event \cup {NoEvent}

\* Appending an event, or none, keeps the types of the state and the receiver.
LEMMA AppendType ==
  ASSUME NEW e \in Event, LogType, AppendEvent(e)
  PROVE LogType'
<1>1. state' \in StateType BY ReduceType DEF LogType, AppendEvent
<1>2. cloud' \in Ownership BY AfterType DEF LogType, AppendEvent
<1>3. refused' \in Event \cup {NoEvent} BY DEF LogType, AppendEvent
<1> QED BY <1>1, <1>2, <1>3 DEF LogType

LEMMA NoAppendType == LogType /\ NoAppend => LogType'
BY DEF LogType, NoAppend


-----------------------------------------------------------------------------
(* What an action may write.                                               *)

\* An event is written about a session that has not ended; a session is
\* started when none is open, and stopped or ended while it is open.
Legal(e) ==
  /\ state.phase[e.session] # "ended"
  /\ e.type = "session.started" => \A s \in Session : ~IsOpen(s)
  /\ e.type \in {"session.stop.requested", "session.ended"} => IsOpen(e.session)

EventStep == \E e \in Event : AppendEvent(e) /\ Legal(e)

\* The sources of a session that has ended are at rest.
EndedIsQuiet ==
  \A s \in Session : state.phase[s] = "ended" =>
    \A k \in Kind : state.status[s][k] \in {"none", "stopped", "failed"}

\* A status is written about a session that has not ended.
LEMMA StatusWrite ==
  ASSUME NEW s \in Session, NEW k \in Kind, NEW st \in CaptureStatus,
         state.phase[s] # "ended",
         AppendEvent(Changed(s, k, st)) \/ AppendEvent(Attached(s, k, st))
  PROVE EventStep
<1>1. /\ Changed(s, k, st) \in Event /\ Attached(s, k, st) \in Event
  BY Events DEF Tail, Mode
<1>2. Legal(Changed(s, k, st)) /\ Legal(Attached(s, k, st))
  BY DEF Legal, Changed, Attached
<1> QED BY <1>1, <1>2 DEF EventStep

\* So are captions and audio.
LEMMA MediaWrite ==
  ASSUME NEW s \in Session, NEW k \in Kind,
         state.phase[s] # "ended",
         AppendEvent(CaptionReceived(s, k)) \/ AppendEvent(AudioSaved(s, k))
  PROVE EventStep
<1>1. /\ CaptionReceived(s, k) \in Event /\ AudioSaved(s, k) \in Event
  BY Events DEF Tail, Mode, CaptureStatus
<1>2. Legal(CaptionReceived(s, k)) /\ Legal(AudioSaved(s, k))
  BY DEF Legal, CaptionReceived, AudioSaved
<1> QED BY <1>1, <1>2 DEF EventStep

LEMMA StopWrite ==
  ASSUME NEW s \in Session, NEW t \in Tail, IsOpen(s), AppendEvent(StopRequested(s, t))
  PROVE EventStep
<1>1. StopRequested(s, t) \in Event BY Events DEF Kind, Mode, CaptureStatus
<1>2. Legal(StopRequested(s, t)) BY DEF Legal, StopRequested, IsOpen
<1> QED BY <1>1, <1>2 DEF EventStep

LEMMA EndWrite ==
  ASSUME NEW s \in Session, IsOpen(s), AppendEvent(Ended(s))
  PROVE EventStep
<1>1. Ended(s) \in Event BY Events DEF Kind, Mode, CaptureStatus, Tail
<1>2. Legal(Ended(s)) BY DEF Legal, Ended, IsOpen
<1> QED BY <1>1, <1>2 DEF EventStep

LEMMA StartWrite ==
  ASSUME NEW s \in Session, NEW m \in Mode, MayStart, state.phase[s] = "none", AppendEvent(Started(s, m))
  PROVE EventStep
<1>1. Started(s, m) \in Event BY Events DEF Kind, CaptureStatus, Tail
<1>2. Legal(Started(s, m)) BY DEF Legal, Started, MayStart
<1> QED BY <1>1, <1>2 DEF EventStep

\* Stopping the audio writes its tail, or nothing.
LEMMA TailWrite ==
  ASSUME NEW s \in Session, NEW next, StopsAudio(s, next)
  PROVE EventStep \/ NoAppend
<1>1. CASE runtime[s].buffered /\ state.phase[s] # "ended"
  <2>1. PICK k \in CaptureKind : AppendEvent(AudioSaved(s, k)) BY <1>1 DEF StopsAudio
  <2>2. k \in Kind BY DEF Kind
  <2> QED BY <1>1, <2>1, <2>2, MediaWrite
<1>2. CASE ~(runtime[s].buffered /\ state.phase[s] # "ended")
  BY <1>2 DEF StopsAudio
<1> QED BY <1>1, <1>2

\* A source that is starting or recording is that of a session not ended.
LEMMA LiveSource ==
  ASSUME NEW s \in Session, NEW k, NEW sts, EndedIsQuiet,
         sts \subseteq {"starting", "recording"}, CaptionStatus(s, k, sts)
  PROVE k \in Kind /\ state.phase[s] # "ended"
BY DEF CaptionStatus, EndedIsQuiet, Kind

-----------------------------------------------------------------------------
\* Every step writes nothing, or one event that is legal where it is written.
LEMMA Writes ==
  ASSUME EndedIsQuiet, Next
  PROVE EventStep \/ NoAppend
<1> USE DEF Kind, CaptureStatus
<1>1. ASSUME NEW s \in Session, NEW m \in Mode, StartSession(s, m) PROVE EventStep
  BY <1>1, StartWrite DEF StartSession
<1>2. ASSUME NEW s \in Session, NEW k \in CaptureKind, AttachCaptionSource(s, k) PROVE EventStep
  BY <1>2, StatusWrite DEF AttachCaptionSource
<1>3. ASSUME NEW s \in Session, AttachMic(s) PROVE EventStep
  BY <1>3, StatusWrite DEF AttachMic
<1>4. ASSUME NEW s \in Session, MicChunk(s) PROVE EventStep
  BY <1>4, MediaWrite DEF MicChunk
<1>5. ASSUME NEW s \in Session, NEW t \in Tail, RequestStop(s, t) PROVE EventStep \/ NoAppend
  BY <1>5, StopWrite DEF RequestStop
<1>6. ASSUME NEW s \in Session, DrainRuntime(s) PROVE EventStep \/ NoAppend
  BY <1>6, TailWrite DEF DrainRuntime
<1>7. ASSUME NEW s \in Session, FinishEnd(s) PROVE EventStep \/ NoAppend
  BY <1>7, EndWrite DEF FinishEnd
<1>8. ASSUME NEW s \in Session, NEW k \in CaptureKind, HelperReady(s, k) PROVE EventStep \/ NoAppend
  BY <1>8, StatusWrite, LiveSource DEF HelperReady
<1>9. ASSUME NEW s \in Session, NEW k \in CaptureKind, Reconnecting(s, k) PROVE EventStep \/ NoAppend
  BY <1>9, StatusWrite, LiveSource DEF Reconnecting
<1>10. ASSUME NEW s \in Session, NEW k \in CaptureKind, Segment(s, k) PROVE EventStep \/ NoAppend
  BY <1>10, MediaWrite DEF Segment
<1>11. ASSUME NEW s \in Session, NEW k \in CaptureKind, LoopbackStarted(s, k) PROVE EventStep \/ NoAppend
  BY <1>11, StatusWrite, LiveSource DEF LoopbackStarted, Wanted, StillStarting
<1>12. ASSUME NEW s \in Session, NEW k \in CaptureKind, LoopbackFails(s, k) PROVE EventStep \/ NoAppend
  BY <1>12, StatusWrite DEF LoopbackFails, CanFail
<1>13. ASSUME NEW s \in Session, NEW k \in CaptureKind, RuntimeFails(s, k) PROVE EventStep
  BY <1>13, StatusWrite DEF RuntimeFails, CanFail, Fails
<1>14. ASSUME NEW s \in Session, NEW k \in CaptureKind, StartupTimeout(s, k) PROVE EventStep \/ NoAppend
  BY <1>14, StatusWrite DEF StartupTimeout, CanFail, Fails
<1>15. ASSUME NEW s \in Session, NEW k \in Kind, Caption(s, k) PROVE EventStep
  BY <1>15, MediaWrite DEF Caption, IsOpen
<1>16. ASSUME NEW s \in Session, ExitStopsAudio(s) PROVE EventStep \/ NoAppend
  BY <1>16, TailWrite DEF ExitStopsAudio
<1>17. ASSUME NEW s \in Session, ExitRecorded(s) PROVE EventStep \/ NoAppend
  BY <1>17, StatusWrite DEF ExitRecorded, ExitMarks
<1>18. ASSUME NEW s \in Session, DetachedStops(s) PROVE EventStep \/ NoAppend
  BY <1>18, TailWrite DEF DetachedStops
<1>19. ASSUME NEW s \in Session, CloseStops(s) PROVE EventStep \/ NoAppend
  BY <1>19, TailWrite DEF CloseStops
<1>20. ASSUME NEW s \in Session, RecoverEnd(s) PROVE EventStep
  BY <1>20, EndWrite DEF RecoverEnd, MustEnd, IsOpen
<1>21. ASSUME NEW s \in Session, RecoverStop(s) PROVE EventStep
  BY <1>21, StopWrite DEF RecoverStop, NeverCaptured, IsOpen, Tail
<1>22. ASSUME NEW s \in Session, RecoverStopped(s) PROVE EventStep
  BY <1>22, EndWrite DEF RecoverStopped, IsOpen
<1>23. ASSUME NEW s \in Session, NEW k \in Kind, RecoverInterrupted(s, k) PROVE EventStep
  BY <1>23, StatusWrite DEF RecoverInterrupted, Interrupted
<1>24. ASSUME NEW s \in Session, NEW k \in CaptureKind, RecoverSource(s, k) PROVE EventStep
  BY <1>24, StatusWrite DEF RecoverSource, Resumable
<1>25. ASSUME NEW s \in Session, NEW k \in CaptureKind, RecoverAdapter(s, k) PROVE EventStep \/ NoAppend
  BY <1>25, StatusWrite DEF RecoverAdapter, Resumable
<1>26. \/ StartSessionFails \/ Start \/ Crash \/ Close \/ CloseDone \/ RecoverNothing
       \/ \E s \in Session : \/ AdapterExits(s)
                             \/ \E k \in CaptureKind : Preview(s, k) \/ CaptionRejected(s, k)
       => NoAppend
  BY DEF StartSessionFails, Start, Crash, Close, CloseDone, RecoverNothing, AdapterExits, Preview,
     CaptionRejected
<1>27. CASE Requests
  BY <1>27, <1>1, <1>2, <1>3, <1>4, <1>5, <1>6, <1>7, <1>26 DEF Requests
<1>28. CASE Callbacks
  BY <1>28, <1>8, <1>9, <1>10, <1>11, <1>12, <1>13, <1>14, <1>15, <1>16, <1>17, <1>18, <1>26 DEF Callbacks
<1>29. CASE Process
  BY <1>29, <1>19, <1>20, <1>21, <1>22, <1>23, <1>24, <1>25, <1>26 DEF Process
<1> QED BY <1>27, <1>28, <1>29 DEF Next

-----------------------------------------------------------------------------
(* What an event does to the sessions.                                     *)

\* A legal event leaves ended sessions alone, opens a session only when none
\* is open, and ends one with its sources at rest.
LEMMA EventEffect ==
  ASSUME state \in StateType, NEW e \in Event, AppendEvent(e), Legal(e)
  PROVE /\ \A s \in Session : s # e.session =>
             state'.phase[s] = state.phase[s] /\ state'.status[s] = state.status[s]
        /\ \/ state'.phase[e.session] = state.phase[e.session]
           \/ state'.phase[e.session] = "open" /\ \A s \in Session : ~IsOpen(s)
           \/ state'.phase[e.session] = "stopping" /\ IsOpen(e.session)
           \/ /\ state'.phase[e.session] = "ended"
              /\ \A k \in Kind : state'.status[e.session][k] \in {"none", "stopped", "failed"}
<1>0. e.session \in Session /\ state' = Reduce(e) BY DEF Event, AppendEvent
<1>1. CASE e.type = "session.started"
  BY <1>0, <1>1 DEF Reduce, StateType, Legal
<1>2. CASE e.type = "session.stop.requested"
  BY <1>0, <1>2 DEF Reduce, StateType, Legal
<1>3. CASE e.type = "session.ended"
  BY <1>0, <1>3 DEF Reduce, StateType, Legal
<1>4. CASE e.type \in {"source.attached", "source.status.changed"}
  BY <1>0, <1>4 DEF Reduce, StateType
<1>5. CASE e.type \in {"caption.received", "audio.chunk.saved"}
  BY <1>0, <1>5 DEF Reduce
<1> QED BY <1>1, <1>2, <1>3, <1>4, <1>5 DEF Event

LEMMA SessionsStep ==
  ASSUME state \in StateType, OneOpenSession, EndedIsQuiet, EventStep \/ NoAppend
  PROVE /\ OneOpenSession' /\ EndedIsQuiet'
        /\ \A s \in Session : state.phase[s] = "ended" =>
             state'.phase[s] = "ended" /\ state'.status[s] = state.status[s]
<1>1. CASE NoAppend
  BY <1>1 DEF NoAppend, OneOpenSession, EndedIsQuiet, IsOpen
<1>2. CASE EventStep
  <2>1. PICK e \in Event : AppendEvent(e) /\ Legal(e) BY <1>2 DEF EventStep
  <2>2. e.session \in Session /\ state.phase[e.session] # "ended" BY <2>1 DEF Event, Legal
  <2>3. OneOpenSession'
    BY <2>1, <2>2, EventEffect DEF OneOpenSession, IsOpen
  <2>4. EndedIsQuiet'
    BY <2>1, <2>2, EventEffect DEF EndedIsQuiet
  <2> QED BY <2>1, <2>2, <2>3, <2>4, EventEffect
<1> QED BY <1>1, <1>2

-----------------------------------------------------------------------------
(* The variables of the process.                                           *)

ProcessType ==
  /\ lifecycle \in {"down", "initializing", "ready", "closing"}
  /\ mutation \in {"none", "attach-caption", "attach-mic", "recover-end"}
  /\ runtime \in [Session -> RuntimeState]
  /\ endAt \in {"idle", "draining", "drained"}
  /\ endTail \in Tail \cup {"none"}
  /\ erred \subseteq Session
  /\ failures \in Nat

LEMMA StoppedAudio ==
  ASSUME ProcessType, RecordingHasOwner, NEW s \in Session, NEW next \in RuntimeState,
         next.loopback = runtime[s].loopback, StopsAudio(s, next)
  PROVE runtime' \in [Session -> RuntimeState] /\ RecordingHasOwner'
<1>1. runtime' = [runtime EXCEPT ![s] =
        [next EXCEPT !.loopback = IF @ = "on" THEN "over" ELSE @, !.buffered = FALSE]]
  BY DEF StopsAudio
<1>2. runtime'[s].loopback # "on" /\ ~runtime'[s].buffered
  BY <1>1 DEF ProcessType, RuntimeState
<1> QED BY <1>1, <1>2 DEF ProcessType, RuntimeState, RecordingHasOwner

\* A recording, or what is left of it, belongs to someone.
Owned(r) == r.loopback = "on" \/ r.buffered => r.at \in {"attached", "detached", "exiting"}

LEMMA ChangedRuntime ==
  ASSUME ProcessType, RecordingHasOwner, NEW s \in Session, NEW r \in RuntimeState, Owned(r),
         runtime' = [runtime EXCEPT ![s] = r]
  PROVE runtime' \in [Session -> RuntimeState] /\ RecordingHasOwner'
BY DEF ProcessType, RecordingHasOwner, Owned

LEMMA RuntimeStep ==
  ASSUME ProcessType, RecordingHasOwner, Next
  PROVE runtime' \in [Session -> RuntimeState] /\ RecordingHasOwner'
<1> USE DEF ProcessType, RuntimeState, RecordingHasOwner
<1>1. (UNCHANGED runtime) => runtime' \in [Session -> RuntimeState] /\ RecordingHasOwner'
  OBVIOUS
<1>2. Forget => runtime' \in [Session -> RuntimeState] /\ RecordingHasOwner'
  BY DEF Forget, NoRuntime
<1>3. ASSUME NEW s \in Session, AttachMic(s)
      PROVE runtime' \in [Session -> RuntimeState] /\ RecordingHasOwner'
  BY <1>3 DEF AttachMic, StartedRuntime, NoRuntime
<1>4. ASSUME NEW s \in Session, NEW k \in CaptureKind, HelperReady(s, k)
      PROVE runtime' \in [Session -> RuntimeState] /\ RecordingHasOwner'
  <2> DEFINE r == [runtime[s] EXCEPT !.timer = IF k = "system-captions" THEN "off" ELSE @,
                                    !.loopback = IF @ = "off" THEN "starting" ELSE @]
  <2>1. runtime[s] \in RuntimeState /\ Owned(runtime[s]) BY DEF Owned
  <2>2. runtime' = [runtime EXCEPT ![s] = r] BY <1>4 DEF HelperReady
  <2>3. r \in RuntimeState /\ Owned(r) BY <2>1 DEF Owned
  <2> QED BY <2>2, <2>3, ChangedRuntime
<1>5. ASSUME NEW s \in Session, NEW k \in CaptureKind, LoopbackStarted(s, k)
      PROVE runtime' \in [Session -> RuntimeState] /\ RecordingHasOwner'
  <2>1. CASE Wanted(s, k)
    <3> DEFINE r == [runtime[s] EXCEPT !.loopback = "on",
                                       !.timer = IF k = "local-asr" THEN "off" ELSE @]
    <3>1. runtime[s] \in RuntimeState /\ runtime[s].at = "attached" BY <2>1 DEF Wanted
    <3>2. runtime' = [runtime EXCEPT ![s] = r] BY <1>5, <2>1 DEF LoopbackStarted
    <3>3. r \in RuntimeState /\ Owned(r) BY <3>1 DEF Owned
    <3> QED BY <3>2, <3>3, ChangedRuntime
  <2>2. CASE ~Wanted(s, k)
    <3> DEFINE r == [runtime[s] EXCEPT !.loopback = "over"]
    <3>1. runtime[s] \in RuntimeState /\ Owned(runtime[s]) BY DEF Owned
    <3>2. runtime' = [runtime EXCEPT ![s] = r] BY <1>5, <2>2 DEF LoopbackStarted
    <3>3. r \in RuntimeState /\ Owned(r) BY <3>1 DEF Owned
    <3> QED BY <3>2, <3>3, ChangedRuntime
  <2> QED BY <2>1, <2>2
<1>6. ASSUME NEW s \in Session, NEW k \in CaptureKind, Reconnecting(s, k)
      PROVE runtime' \in [Session -> RuntimeState] /\ RecordingHasOwner'
  <2> DEFINE r == [runtime[s] EXCEPT !.timer = "armed"]
  <2>1. runtime[s] \in RuntimeState /\ Owned(runtime[s]) BY DEF Owned
  <2>2. runtime' = [runtime EXCEPT ![s] = r] BY <1>6 DEF Reconnecting
  <2>3. r \in RuntimeState /\ Owned(r) BY <2>1 DEF Owned
  <2> QED BY <2>2, <2>3, ChangedRuntime
<1>7. ASSUME NEW s \in Session, NEW k \in CaptureKind, Segment(s, k)
      PROVE runtime' \in [Session -> RuntimeState] /\ RecordingHasOwner'
  <2>1. PICK b \in BOOLEAN : runtime' = [runtime EXCEPT ![s].buffered = b] BY <1>7 DEF Segment
  <2> DEFINE r == [runtime[s] EXCEPT !.buffered = b]
  <2>2. runtime[s] \in RuntimeState /\ runtime[s].at = "attached" BY <1>7 DEF Segment, AttachedTo
  <2>3. runtime' = [runtime EXCEPT ![s] = r] BY <2>1
  <2>4. r \in RuntimeState /\ Owned(r) BY <2>2 DEF Owned
  <2> QED BY <2>3, <2>4, ChangedRuntime
<1>8. ASSUME NEW s \in Session, NEW k \in CaptureKind, CaptionRejected(s, k)
      PROVE runtime' \in [Session -> RuntimeState] /\ RecordingHasOwner'
  <2> DEFINE r == [runtime[s] EXCEPT !.failed = TRUE, !.timer = "off"]
  <2>1. runtime[s] \in RuntimeState /\ Owned(runtime[s]) BY DEF Owned
  <2>2. runtime' = [runtime EXCEPT ![s] = r] BY <1>8 DEF CaptionRejected
  <2>3. r \in RuntimeState /\ Owned(r) BY <2>1 DEF Owned
  <2> QED BY <2>2, <2>3, ChangedRuntime
<1>19. ASSUME NEW s \in Session, NEW k \in CaptureKind, Preview(s, k)
       PROVE runtime' \in [Session -> RuntimeState] /\ RecordingHasOwner'
  <2> DEFINE r == [runtime[s] EXCEPT !.timer = IF @ = "armed" THEN "presumed" ELSE @]
  <2>1. runtime[s] \in RuntimeState /\ Owned(runtime[s]) BY DEF Owned
  <2>2. runtime' = [runtime EXCEPT ![s] = r] BY <1>19 DEF Preview
  <2>3. r \in RuntimeState /\ Owned(r) BY <2>1 DEF Owned
  <2> QED BY <2>2, <2>3, ChangedRuntime
<1>9. ASSUME NEW s \in Session, NEW k \in CaptureKind, RuntimeFails(s, k)
      PROVE runtime' \in [Session -> RuntimeState] /\ RecordingHasOwner'
  <2> DEFINE r == [runtime[s] EXCEPT !.at = "detached", !.timer = "off"]
  <2>1. runtime[s] \in RuntimeState OBVIOUS
  <2>2. runtime' = [runtime EXCEPT ![s] = r] BY <1>9 DEF RuntimeFails, Fails
  <2>3. r \in RuntimeState /\ Owned(r) BY <2>1 DEF Owned
  <2> QED BY <2>2, <2>3, ChangedRuntime
<1>10. ASSUME NEW s \in Session, NEW k \in CaptureKind, LoopbackFails(s, k)
      PROVE runtime' \in [Session -> RuntimeState] /\ RecordingHasOwner'
  BY <1>10 DEF LoopbackFails
<1>11. ASSUME NEW s \in Session, NEW k \in CaptureKind, StartupTimeout(s, k)
      PROVE runtime' \in [Session -> RuntimeState] /\ RecordingHasOwner'
  <2>1. runtime[s] \in RuntimeState /\ runtime[s].at = "attached" BY <1>11 DEF StartupTimeout, AttachedTo
  <2>2. CASE CanFail(s, k, {"starting"})
    <3> DEFINE r == [runtime[s] EXCEPT !.at = "detached", !.timer = "off"]
    <3>1. runtime' = [runtime EXCEPT ![s] = r] BY <1>11, <2>2 DEF StartupTimeout, Fails
    <3>2. r \in RuntimeState /\ Owned(r) BY <2>1 DEF Owned
    <3> QED BY <3>1, <3>2, ChangedRuntime
  <2>3. CASE ~CanFail(s, k, {"starting"})
    <3> DEFINE r == [runtime[s] EXCEPT !.timer = "off"]
    <3>1. runtime' = [runtime EXCEPT ![s] = r] BY <1>11, <2>3 DEF StartupTimeout
    <3>2. r \in RuntimeState /\ Owned(r) BY <2>1 DEF Owned
    <3> QED BY <3>1, <3>2, ChangedRuntime
  <2> QED BY <2>2, <2>3
<1>12. ASSUME NEW s \in Session, AdapterExits(s)
      PROVE runtime' \in [Session -> RuntimeState] /\ RecordingHasOwner'
  BY <1>12 DEF AdapterExits
<1>13. ASSUME NEW s \in Session, ExitRecorded(s)
      PROVE runtime' \in [Session -> RuntimeState] /\ RecordingHasOwner'
  BY <1>13 DEF ExitRecorded
<1>14. ASSUME NEW s \in Session, NEW k \in CaptureKind, RecoverAdapter(s, k)
      PROVE runtime' \in [Session -> RuntimeState] /\ RecordingHasOwner'
  <2>1. StartedRuntime \in RuntimeState /\ Owned(StartedRuntime)
    BY DEF StartedRuntime, NoRuntime, Owned
  <2>2. runtime' = [runtime EXCEPT ![s] = StartedRuntime] \/ UNCHANGED runtime
    BY <1>14 DEF RecoverAdapter
  <2> QED BY <1>1, <2>1, <2>2, ChangedRuntime
<1>15. ASSUME NEW s \in Session, DetachedStops(s) \/ ExitStopsAudio(s) \/ DrainRuntime(s) \/ CloseStops(s)
       PROVE runtime' \in [Session -> RuntimeState] /\ RecordingHasOwner'
  <2>1. runtime[s] \in RuntimeState OBVIOUS
  <2>2. ASSUME NEW at \in {"none", "exited"}, NEW timer \in {"off", "armed", "presumed"}, NEW failed \in BOOLEAN,
               NEW next, next = [runtime[s] EXCEPT !.at = at, !.timer = timer, !.failed = failed]
        PROVE next \in RuntimeState /\ next.loopback = runtime[s].loopback
    BY <2>1, <2>2
  <2>3. CASE DetachedStops(s)
    BY <2>3, <2>1, StoppedAudio DEF DetachedStops
  <2>4. CASE ExitStopsAudio(s)
    BY <2>4, <2>1, StoppedAudio DEF ExitStopsAudio
  <2>5. CASE DrainRuntime(s)
    BY <2>5, <2>1, StoppedAudio DEF DrainRuntime
  <2>6. CASE CloseStops(s)
    BY <2>6, <2>1, StoppedAudio DEF CloseStops
  <2> QED BY <1>15, <2>3, <2>4, <2>5, <2>6
<1>16. CASE Requests
  <2>1. ASSUME NEW s \in Session, NEW m \in Mode, StartSession(s, m) PROVE UNCHANGED runtime
    BY <2>1 DEF StartSession
  <2>2. ASSUME NEW s \in Session, NEW k \in CaptureKind, AttachCaptionSource(s, k) PROVE UNCHANGED runtime
    BY <2>2 DEF AttachCaptionSource
  <2>3. StartSessionFails => UNCHANGED runtime
    BY DEF StartSessionFails
  <2>4. ASSUME NEW s \in Session, MicChunk(s) \/ FinishEnd(s) PROVE UNCHANGED runtime
    BY <2>4 DEF MicChunk, FinishEnd
  <2>5. ASSUME NEW s \in Session, NEW t \in Tail, RequestStop(s, t) PROVE UNCHANGED runtime
    BY <2>5 DEF RequestStop
  <2> QED BY <1>16, <1>1, <1>3, <1>15, <2>1, <2>2, <2>3, <2>4, <2>5 DEF Requests
<1>17. CASE Callbacks
  <2>1. ASSUME NEW s \in Session, NEW k \in Kind, Caption(s, k)
        PROVE runtime' \in [Session -> RuntimeState] /\ RecordingHasOwner'
    <3> DEFINE r == [runtime[s] EXCEPT !.timer = "off"]
    <3>1. runtime[s] \in RuntimeState /\ Owned(runtime[s]) BY DEF Owned
    <3>2. UNCHANGED runtime \/ runtime' = [runtime EXCEPT ![s] = r] BY <2>1 DEF Caption, Settled
    <3>3. r \in RuntimeState /\ Owned(r) BY <3>1 DEF Owned
    <3> QED BY <1>1, <3>2, <3>3, ChangedRuntime
  <2> QED BY <1>17, <1>1, <1>4, <1>5, <1>6, <1>7, <1>8, <1>19, <1>9, <1>10, <1>11, <1>12, <1>13, <1>15, <2>1 DEF Callbacks
<1>18. CASE Process
  <2>1. Start \/ Close \/ RecoverNothing => UNCHANGED runtime
    BY DEF Start, Close, RecoverNothing
  <2>2. Crash \/ CloseDone => Forget
    BY DEF Crash, CloseDone
  <2>3. ASSUME NEW s \in Session, RecoverEnd(s) \/ RecoverStop(s) \/ RecoverStopped(s) PROVE UNCHANGED runtime
    BY <2>3 DEF RecoverEnd, RecoverStop, RecoverStopped
  <2>4. ASSUME NEW s \in Session, NEW k \in Kind, RecoverInterrupted(s, k) PROVE UNCHANGED runtime
    BY <2>4 DEF RecoverInterrupted
  <2>5. ASSUME NEW s \in Session, NEW k \in CaptureKind, RecoverSource(s, k) PROVE UNCHANGED runtime
    BY <2>5 DEF RecoverSource
  <2> QED BY <1>18, <1>1, <1>2, <1>14, <1>15, <2>1, <2>2, <2>3, <2>4, <2>5 DEF Process
<1> QED BY <1>16, <1>17, <1>18 DEF Next

\* The types of the variables of the process but the runtimes.
RestType ==
  /\ lifecycle \in {"down", "initializing", "ready", "closing"}
  /\ mutation \in {"none", "attach-caption", "attach-mic", "recover-end"}
  /\ endAt \in {"idle", "draining", "drained"}
  /\ endTail \in Tail \cup {"none"}
  /\ erred \subseteq Session
  /\ failures \in Nat

LEMMA InjectType == RestType /\ Inject => failures' \in Nat
BY DEF RestType, Inject

LEMMA IdleType ==
  ASSUME RestType, Idle, erred' \subseteq Session
  PROVE RestType'
BY DEF RestType, Idle, endVars

LEMMA ProcessStep ==
  ASSUME RestType, Next
  PROVE RestType'
<1>1. ASSUME NEW s \in Session, NEW m \in Mode, StartSession(s, m) PROVE RestType'
  BY <1>1 DEF RestType, StartSession, endVars
<1>2. ASSUME NEW s \in Session, NEW k \in CaptureKind, AttachCaptionSource(s, k) PROVE RestType'
  BY <1>2 DEF RestType, AttachCaptionSource, endVars
<1>3. ASSUME NEW s \in Session, AttachMic(s) PROVE RestType'
  BY <1>3 DEF RestType, AttachMic, endVars
<1>4. StartSessionFails => RestType'
  BY InjectType DEF RestType, StartSessionFails, endVars
<1>5. ASSUME NEW s \in Session, NEW t \in Tail, RequestStop(s, t) PROVE RestType'
  BY <1>5 DEF RestType, RequestStop
<1>6. ASSUME NEW s \in Session, DrainRuntime(s) PROVE RestType'
  <2>1. PICK failed \in BOOLEAN :
          /\ erred' = IF failed THEN erred \cup {s} ELSE erred
          /\ endAt' = IF failed /\ endTail # "loss-confirmed" THEN "idle" ELSE "drained"
          /\ endTail' = IF failed /\ endTail # "loss-confirmed" THEN "none" ELSE endTail
    BY <1>6 DEF DrainRuntime
  <2>2. UNCHANGED <<lifecycle, mutation, failures>> BY <1>6 DEF DrainRuntime
  <2> QED BY <2>1, <2>2 DEF RestType
<1>7. ASSUME NEW s \in Session, FinishEnd(s) PROVE RestType'
  BY <1>7 DEF RestType, FinishEnd
<1>8. ASSUME NEW s \in Session, AdapterExits(s) PROVE RestType'
  BY <1>8, InjectType DEF RestType, AdapterExits, endVars
<1>9. CASE Requests
  <2>1. ASSUME NEW s \in Session, MicChunk(s) PROVE RestType'
    BY <2>1, IdleType DEF MicChunk, RestType
  <2> QED BY <1>9, <1>1, <1>2, <1>3, <1>4, <1>5, <1>6, <1>7, <2>1 DEF Requests
<1>10. CASE Callbacks
  <2>1. ASSUME NEW s \in Session, NEW k \in CaptureKind,
               \/ HelperReady(s, k) \/ Reconnecting(s, k) \/ Preview(s, k)
               \/ Segment(s, k) \/ CaptionRejected(s, k)
               \/ LoopbackStarted(s, k) \/ LoopbackFails(s, k)
               \/ RuntimeFails(s, k) \/ StartupTimeout(s, k)
        PROVE Idle /\ UNCHANGED erred
    BY <2>1 DEF HelperReady, Reconnecting, Preview, Segment, CaptionRejected, LoopbackStarted, LoopbackFails,
       RuntimeFails, StartupTimeout
  <2>2. ASSUME NEW s \in Session, NEW k \in Kind, Caption(s, k)
        PROVE Idle /\ UNCHANGED erred
    BY <2>2 DEF Caption
  <2>3. ASSUME NEW s \in Session, ExitStopsAudio(s) \/ ExitRecorded(s) \/ DetachedStops(s)
        PROVE Idle /\ erred' \in {erred, erred \cup {s}}
    BY <2>3 DEF ExitStopsAudio, ExitRecorded, DetachedStops
  <2> QED BY <1>10, <1>8, <2>1, <2>2, <2>3, IdleType DEF Callbacks, RestType
<1>11. CASE Process
  BY <1>11, InjectType DEF RestType, Process, Start, Crash, Close, CloseDone, CloseStops, RecoverEnd, RecoverStop,
     RecoverStopped, RecoverInterrupted, RecoverSource, RecoverAdapter, RecoverNothing, Recovers, Idle, Forget, endVars
<1> QED BY <1>9, <1>10, <1>11 DEF Next


-----------------------------------------------------------------------------
(* The inductive invariant.                                                *)

IInv == TypeOK /\ OneOpenSession /\ EndedIsQuiet /\ RecordingHasOwner

LEMMA TypeParts == TypeOK <=> LogType /\ ProcessType
BY DEF TypeOK, LogType, StateType, ProcessType

LEMMA Initially == Init => IInv
<1> SUFFICES ASSUME Init PROVE IInv OBVIOUS
<1>1. LogType
  BY DEF Init, LogType, StateType, Phase, Mode, Tail, NothingOwned, Ownership
<1>2. ProcessType /\ RecordingHasOwner
  BY DEF Init, ProcessType, RuntimeState, NoRuntime, RecordingHasOwner
<1>3. OneOpenSession /\ EndedIsQuiet
  BY DEF Init, OneOpenSession, EndedIsQuiet, IsOpen
<1> QED BY <1>1, <1>2, <1>3, TypeParts DEF IInv

\* A step of Next preserves the invariant, and leaves ended sessions alone.
LEMMA Preserved ==
  ASSUME IInv, Next
  PROVE /\ IInv'
        /\ \A s \in Session : state.phase[s] = "ended" =>
             state'.phase[s] = "ended" /\ state'.status[s] = state.status[s]
<1>1. LogType /\ ProcessType BY TypeParts DEF IInv
<1>2. EventStep \/ NoAppend BY Writes DEF IInv
<1>3. LogType' BY <1>1, <1>2, AppendType, NoAppendType DEF EventStep
<1>4. ProcessType' /\ RecordingHasOwner'
  <2>1. RestType' BY <1>1, ProcessStep DEF ProcessType, RestType
  <2>2. runtime' \in [Session -> RuntimeState] /\ RecordingHasOwner' BY <1>1, RuntimeStep DEF IInv
  <2> QED BY <2>1, <2>2 DEF ProcessType, RestType
<1>5. /\ OneOpenSession' /\ EndedIsQuiet'
      /\ \A s \in Session : state.phase[s] = "ended" =>
           state'.phase[s] = "ended" /\ state'.status[s] = state.status[s]
  BY <1>1, <1>2, SessionsStep DEF IInv, LogType
<1>6. TypeOK' BY <1>3, <1>4 DEF TypeOK, LogType, StateType, ProcessType
<1> QED BY <1>4, <1>5, <1>6 DEF IInv

LEMMA Unchanged == IInv /\ UNCHANGED vars => IInv'
BY DEF IInv, TypeOK, OneOpenSession, EndedIsQuiet, RecordingHasOwner, IsOpen, vars, endVars

LEMMA Invariant == Spec => []IInv
<1>1. IInv /\ [Next]_vars => IInv' BY Preserved, Unchanged
<1> QED BY <1>1, Initially, PTL DEF Spec

-----------------------------------------------------------------------------
(* The theorems.                                                           *)

\* TypeOK holds in every state of SessionLifecycle.
THEOREM TypeCorrect == Spec => []TypeOK
<1>1. IInv => TypeOK BY DEF IInv
<1> QED BY <1>1, Invariant, PTL

\* Whatever requests, callbacks, crashes and recoveries come, at most one
\* session is open (startSession, recoverOpenCaptureSessions).
THEOREM OneSessionOpen == Spec => []OneOpenSession
<1>1. IInv => OneOpenSession BY DEF IInv
<1> QED BY <1>1, Invariant, PTL

\* A running recording, or audio still buffered, always belongs to a runtime
\* that is attached or being stopped (startSystemCaptionRecording).
THEOREM RecordingAlwaysOwned == Spec => []RecordingHasOwner
<1>1. IInv => RecordingHasOwner BY DEF IInv
<1> QED BY <1>1, Invariant, PTL

\* No late callback, timer, exit or recovery touches a session that has ended
\* (finishSessionEndUnlocked).
THEOREM EndedStaysFinal == Spec => EndedIsFinal
<1>1. IInv /\ [Next]_vars =>
        [\A s \in Session : state.phase[s] = "ended" =>
           state'.phase[s] = "ended" /\ state'.status[s] = state.status[s]]_vars
  BY Preserved
<1> QED BY <1>1, Invariant, PTL DEF Spec, EndedIsFinal

-----------------------------------------------------------------------------
(* What the service writes is what the receiver expects.                   *)

LiveStatus == {"starting", "recording"}
LiveIn(st) == \E k \in CaptureKind : st[k] \in LiveStatus

\* A session has one source of captions, if it takes any.
Sources ==
  \A s \in Session :
    /\ state.phase[s] = "none" => \A k \in Kind : state.status[s][k] = "none"
    /\ state.phase[s] # "ended" =>
         /\ \A k \in CaptureKind : state.status[s][k] \in {"none", "failed"} \cup LiveStatus
         /\ state.status[s]["browser-mic"] \in {"none", "available", "failed"}
    /\ \A k \in CaptureKind : state.status[s][k] # "none" => state.mode[s] = "captions"
    /\ \A k, l \in CaptureKind : state.status[s][k] # "none" /\ state.status[s][l] # "none" => k = l

\* While it has refused nothing the receiver knows of each session that has not ended
\* what the service does.
Mirrors ==
  refused = NoEvent =>
    /\ cloud.phase = state.phase /\ cloud.mode = state.mode
    /\ cloud.active # NoSession => IsOpen(cloud.active)
    /\ \A s \in Session : state.phase[s] # "ended" =>
         /\ cloud.status[s] = state.status[s]
         /\ state.status[s]["browser-mic"] \in {"none", "available"}
         /\ \A k \in CaptureKind : cloud.capture[s] = k <=> state.status[s][k] \in LiveStatus

\* Where the service writes an event.
Lawful(e) ==
  LET s == e.session IN
  /\ e.type = "session.started" => MayStart /\ state.phase[s] = "none"
  /\ e.type = "session.stop.requested" => IsOpen(s)
  /\ e.type = "session.ended" => state.phase[s] = "stopping"
  /\ e.type = "source.attached" =>
       /\ state.phase[s] = "open" /\ state.status[s][e.kind] = "none"
       /\ e.kind = "browser-mic" =>
            e.status = "available" /\ (state.mode[s] = "captions" => LiveIn(state.status[s]))
       /\ e.kind # "browser-mic" =>
            /\ e.status = "starting" /\ state.mode[s] = "captions"
            /\ \A k \in Kind : state.status[s][k] = "none"
  /\ e.type = "source.status.changed" =>
       /\ IsOpen(s)
       /\ e.kind = "browser-mic" =>
            state.phase[s] = "stopping" /\ state.status[s][e.kind] = "available" /\ e.status = "failed"
       /\ e.kind # "browser-mic" =>
            /\ state.status[s][e.kind] \in LiveStatus /\ e.status \in LiveStatus \cup {"failed"}
            /\ e.status # state.status[s][e.kind]
  /\ e.type = "caption.received" =>
       /\ IsOpen(s)
       /\ IF e.kind = "browser-mic" THEN state.mode[s] = "recording-only" /\ state.status[s][e.kind] = "available"
          ELSE state.status[s][e.kind] = "recording"
  /\ e.type = "audio.chunk.saved" => IsOpen(s) /\ state.status[s][e.kind] # "none"

Rested(st) == [k \in Kind |-> IF st[k] \in {"none", "failed"} THEN st[k] ELSE "stopped"]

\* The parts of the state that an event changes.
LEMMA Reduced ==
  ASSUME state \in StateType, NEW e \in Event, state' = Reduce(e), NEW s, s = e.session
  PROVE  /\ state' \in StateType /\ s \in Session
         /\ state'.phase = IF e.type = "session.started" THEN [state.phase EXCEPT ![s] = "open"]
                           ELSE IF e.type = "session.stop.requested" THEN [state.phase EXCEPT ![s] = "stopping"]
                           ELSE IF e.type = "session.ended" THEN [state.phase EXCEPT ![s] = "ended"]
                           ELSE state.phase
         /\ state'.mode = IF e.type = "session.started" THEN [state.mode EXCEPT ![s] = e.mode] ELSE state.mode
         /\ state'.status =
              IF e.type = "session.ended" THEN [state.status EXCEPT ![s] = Rested(state.status[s])]
              ELSE IF e.type \in {"source.attached", "source.status.changed"}
              THEN [state.status EXCEPT ![s] = [@ EXCEPT ![e.kind] = e.status]]
              ELSE state.status
<1>0. s \in Session /\ state' \in StateType
  BY ReduceType DEF Event
<1>1. CASE e.type = "session.started"
  BY <1>0, <1>1 DEF Reduce, StateType
<1>2. CASE e.type = "session.stop.requested"
  BY <1>0, <1>2 DEF Reduce, StateType
<1>3. CASE e.type = "session.ended"
  <2>1. state' = [state EXCEPT !.phase[s] = "ended",
                               !.status[s] = [k \in Kind |-> IF @[k] \in {"none", "failed"} THEN @[k] ELSE "stopped"]]
    BY <1>3 DEF Reduce
  <2> DEFINE quiet == [k \in Kind |-> IF state.status[s][k] \in {"none", "failed"} THEN state.status[s][k] ELSE "stopped"]
  <2>2. state' = [state EXCEPT !.phase[s] = "ended", !.status[s] = quiet]
    BY <1>0, <2>1 DEF StateType
  <2>3. quiet = Rested(state.status[s])
    BY DEF Rested
  <2> HIDE DEF quiet
  <2> QED
    BY <1>0, <1>3, <2>2, <2>3 DEF StateType
<1>4. CASE e.type \in {"source.attached", "source.status.changed"}
  <2>1. state' = [state EXCEPT !.status[s][e.kind] = e.status]
    BY <1>4 DEF Reduce
  <2> QED
    BY <1>0, <1>4, <2>1 DEF StateType
<1>5. CASE e.type \in {"caption.received", "audio.chunk.saved"}
  BY <1>0, <1>5 DEF Reduce
<1> QED
  BY <1>1, <1>2, <1>3, <1>4, <1>5 DEF Event

\* What event e makes of what the receiver knew of its session, c.
MakesOf(c, d, e) ==
  LET s == e.session IN
  /\ d \in Ownership
  /\ d.active = IF e.type = "session.started" THEN s
                ELSE IF e.type = "session.ended" /\ c.active = s THEN NoSession
                ELSE c.active
  /\ d.phase = IF e.type = "session.started" THEN [c.phase EXCEPT ![s] = "open"]
               ELSE IF e.type = "session.stop.requested" THEN [c.phase EXCEPT ![s] = "stopping"]
               ELSE IF e.type = "session.ended" THEN [c.phase EXCEPT ![s] = "ended"]
               ELSE c.phase
  /\ d.mode = IF e.type = "session.started" THEN [c.mode EXCEPT ![s] = e.mode] ELSE c.mode
  /\ \A t \in Session : t # s => d.status[t] = c.status[t] /\ d.capture[t] = c.capture[t]
  /\ e.type \in {"source.attached", "source.status.changed"} =>
       /\ d.status[s] = [c.status[s] EXCEPT ![e.kind] = e.status]
       /\ d.capture[s] = IF e.kind # "browser-mic" /\ e.status \in LiveStatus THEN e.kind
                         ELSE IF c.capture[s] = e.kind THEN "none" ELSE c.capture[s]
  /\ e.type \notin {"source.attached", "source.status.changed", "session.ended"} =>
       d.status = c.status /\ d.capture = c.capture

\* So it is after an event that the receiver accepts.
LEMMA Followed ==
  ASSUME cloud \in Ownership, NEW e \in Event, cloud' = After(cloud, e)
  PROVE  MakesOf(cloud, cloud', e)
<1> DEFINE s == e.session
<1> USE DEF MakesOf
<1>0. s \in Session /\ cloud' \in Ownership
  BY AfterType DEF Event
<1>1. CASE e.type = "session.started"
  BY <1>0, <1>1 DEF After, Ownership
<1>2. CASE e.type = "session.stop.requested"
  BY <1>0, <1>2 DEF After, Ownership
<1>3. CASE e.type = "session.ended"
  <2> DEFINE quiet == [k \in Kind |-> IF cloud.status[s][k] = "none" THEN "none" ELSE "stopped"]
             left == IF cloud.active = s THEN NoSession ELSE cloud.active
  <2>1. cloud' = [cloud EXCEPT !.phase[s] = "ended", !.active = left, !.capture[s] = "none", !.status[s] = quiet]
    <3>1. cloud' = [cloud EXCEPT !.phase[s] = "ended", !.active = IF @ = s THEN NoSession ELSE @,
                                 !.capture[s] = "none",
                                 !.status[s] = [k \in Kind |-> IF @[k] = "none" THEN "none" ELSE "stopped"]]
      BY <1>3 DEF After
    <3> QED
      BY <1>0, <3>1 DEF Ownership
  <2> HIDE DEF quiet, left
  <2>2. /\ cloud'.phase = [cloud.phase EXCEPT ![s] = "ended"] /\ cloud'.active = left
        /\ cloud'.mode = cloud.mode /\ cloud'.capture = [cloud.capture EXCEPT ![s] = "none"]
        /\ cloud'.status = [cloud.status EXCEPT ![s] = quiet]
    BY <1>0, <2>1 DEF Ownership
  <2>3. cloud.capture \in [Session -> CaptureKind \cup {"none"}]
        /\ cloud.status \in [Session -> [Kind -> CaptureStatus \cup {"none"}]]
    BY DEF Ownership
  <2> QED
    BY <1>0, <1>3, <2>2, <2>3 DEF left
<1>4. CASE e.type \in {"source.attached", "source.status.changed"}
  <2> DEFINE taken == IF e.kind # "browser-mic" /\ e.status \in LiveStatus THEN e.kind
                      ELSE IF cloud.capture[s] = e.kind THEN "none" ELSE cloud.capture[s]
  <2>1. cloud' = [cloud EXCEPT !.status[s][e.kind] = e.status, !.capture[s] = taken]
    BY <1>0, <1>4 DEF After, LiveStatus, Ownership
  <2> HIDE DEF taken
  <2>2. /\ cloud'.phase = cloud.phase /\ cloud'.active = cloud.active
        /\ cloud'.mode = cloud.mode /\ cloud'.capture = [cloud.capture EXCEPT ![s] = taken]
        /\ cloud'.status = [cloud.status EXCEPT ![s] = [cloud.status[s] EXCEPT ![e.kind] = e.status]]
    BY <1>0, <2>1 DEF Ownership
  <2>3. cloud.capture \in [Session -> CaptureKind \cup {"none"}]
        /\ cloud.status \in [Session -> [Kind -> CaptureStatus \cup {"none"}]]
    BY DEF Ownership
  <2> QED
    BY <1>0, <1>4, <2>2, <2>3 DEF taken
<1>5. CASE e.type \in {"caption.received", "audio.chunk.saved"}
  BY <1>0, <1>5 DEF After
<1> QED
  BY <1>1, <1>2, <1>3, <1>4, <1>5 DEF Event

LEMMA RestedStatus ==
  ASSUME NEW st \in [Kind -> CaptureStatus \cup {"none"}], NEW k \in Kind
  PROVE  Rested(st)[k] = "none" <=> st[k] = "none"
BY DEF Rested

\* An event that is lawful leaves a session one source of captions.
LEMMA SourcesKept ==
  ASSUME state \in StateType, Sources, NEW e \in Event, Lawful(e), state' = Reduce(e)
  PROVE  Sources'
<1> PICK s : s = e.session
  OBVIOUS
<1>R. /\ state' \in StateType /\ s \in Session
      /\ state'.phase = IF e.type = "session.started" THEN [state.phase EXCEPT ![s] = "open"]
                        ELSE IF e.type = "session.stop.requested" THEN [state.phase EXCEPT ![s] = "stopping"]
                        ELSE IF e.type = "session.ended" THEN [state.phase EXCEPT ![s] = "ended"]
                        ELSE state.phase
      /\ state'.mode = IF e.type = "session.started" THEN [state.mode EXCEPT ![s] = e.mode] ELSE state.mode
      /\ state'.status =
           IF e.type = "session.ended" THEN [state.status EXCEPT ![s] = Rested(state.status[s])]
           ELSE IF e.type \in {"source.attached", "source.status.changed"}
           THEN [state.status EXCEPT ![s] = [@ EXCEPT ![e.kind] = e.status]]
           ELSE state.status
  BY Reduced
<1>0. /\ s \in Session /\ state'.phase \in [Session -> Phase] /\ state.phase \in [Session -> Phase]
      /\ state.mode \in [Session -> Mode \cup {"none"}]
      /\ state.status \in [Session -> [Kind -> CaptureStatus \cup {"none"}]] /\ CaptureKind \subseteq Kind /\ "browser-mic" \in Kind
  BY <1>R DEF StateType, Kind
<1> DEFINE Good(t, ph, md, st) ==
             /\ ph = "none" => \A k \in Kind : st[k] = "none"
             /\ ph # "ended" => /\ \A k \in CaptureKind : st[k] \in {"none", "failed"} \cup LiveStatus
                               /\ st["browser-mic"] \in {"none", "available", "failed"}
             /\ \A k \in CaptureKind : st[k] # "none" => md = "captions"
             /\ \A k, l \in CaptureKind : st[k] # "none" /\ st[l] # "none" => k = l
<1>1. \A t \in Session : Good(t, state.phase[t], state.mode[t], state.status[t])
  BY DEF Sources
<1>2. \A t \in Session : t # s => /\ state'.phase[t] = state.phase[t] /\ state'.mode[t] = state.mode[t]
                                  /\ state'.status[t] = state.status[t]
  BY <1>0, <1>R
<1>3. Good(s, state'.phase[s], state'.mode[s], state'.status[s])
  <2> DEFINE md == state.mode[s]
             st == state.status[s]
  <2>0. Good(s, state.phase[s], md, st) /\ st \in [Kind -> CaptureStatus \cup {"none"}]
    BY <1>0, <1>1
  <2>1. CASE e.type = "session.started"
    <3>1. /\ state'.phase[s] = "open" /\ state'.status[s] = st /\ \A k \in Kind : st[k] = "none"
      BY <1>0, <2>0, <2>1, <1>R DEF Lawful
    <3> QED
      BY <1>0, <3>1
  <2>2. CASE e.type = "session.stop.requested"
    <3>1. /\ state'.phase[s] = "stopping" /\ state'.status[s] = st /\ state'.mode[s] = md
          /\ state.phase[s] # "ended"
      BY <1>0, <2>2, <1>R DEF Lawful, IsOpen
    <3> QED
      BY <2>0, <3>1
  <2>3. CASE e.type = "session.ended"
    <3>1. /\ state'.phase[s] = "ended" /\ state'.status[s] = Rested(st) /\ state'.mode[s] = md
      BY <1>0, <2>3, <1>R
    <3>2. \A k \in CaptureKind : Rested(st)[k] = "none" <=> st[k] = "none"
      BY <1>0, <2>0, RestedStatus
    <3> QED
      BY <2>0, <3>1, <3>2
  <2>4. CASE e.type = "source.attached"
    <3>1. /\ state'.phase[s] = "open" /\ state.phase[s] = "open" /\ state'.mode[s] = md
          /\ state'.status[s] = [st EXCEPT ![e.kind] = e.status] /\ e.kind \in Kind /\ st[e.kind] = "none"
      BY <1>0, <2>4, <1>R DEF Lawful, Event
    <3>2. CASE e.kind = "browser-mic"
      <4>1. e.status = "available"
        BY <2>4, <3>2 DEF Lawful
      <4> QED
        BY <1>0, <2>0, <3>1, <3>2, <4>1 DEF CaptureKind
    <3>3. CASE e.kind # "browser-mic"
      <4>1. e.status = "starting" /\ md = "captions" /\ \A k \in CaptureKind : st[k] = "none"
        BY <1>0, <2>4, <3>3 DEF Lawful
      <4> QED
        BY <1>0, <2>0, <3>1, <3>3, <4>1 DEF LiveStatus
    <3> QED
      BY <3>2, <3>3
  <2>5. CASE e.type = "source.status.changed"
    <3>1. /\ state'.phase[s] = state.phase[s] /\ state.phase[s] \in {"open", "stopping"} /\ state'.mode[s] = md
          /\ state'.status[s] = [st EXCEPT ![e.kind] = e.status] /\ e.kind \in Kind
      BY <1>0, <2>5, <1>R DEF Lawful, Event, IsOpen
    <3>2. CASE e.kind = "browser-mic"
      <4>1. e.status = "failed"
        BY <2>5, <3>2 DEF Lawful
      <4> QED
        BY <1>0, <2>0, <3>1, <3>2, <4>1 DEF CaptureKind
    <3>3. CASE e.kind # "browser-mic"
      <4>1. st[e.kind] \in LiveStatus /\ e.status \in LiveStatus \cup {"failed"}
        BY <2>5, <3>3 DEF Lawful
      <4>2. st[e.kind] # "none"
        BY <4>1 DEF LiveStatus
      <4> QED
        BY <1>0, <2>0, <3>1, <3>3, <4>1, <4>2
    <3> QED
      BY <3>2, <3>3
  <2>6. CASE e.type \in {"caption.received", "audio.chunk.saved"}
    <3>1. state'.phase[s] = state.phase[s] /\ state'.mode[s] = md /\ state'.status[s] = st
      BY <1>0, <2>6, <1>R
    <3> QED
      BY <2>0, <3>1
  <2> QED
    BY <2>1, <2>2, <2>3, <2>4, <2>5, <2>6 DEF Event
<1>4. \A t \in Session : Good(t, state'.phase[t], state'.mode[t], state'.status[t])
  BY <1>1, <1>2, <1>3
<1> QED
  BY <1>4 DEF Sources

\* The events that the receiver refuses.
Refusable(e) ==
  \/ e.type = "source.status.changed" /\ e.kind = "browser-mic"
  \/ e.type = "session.stop.requested" /\ cloud.phase[e.session] = "stopping"
  \/ /\ e.type = "audio.chunk.saved" /\ e.kind \in CaptureKind
     /\ cloud.status[e.session][e.kind] \in {"starting", "failed"}

\* The receiver accepts what is lawful, or refuses what it may refuse.
LEMMA LawfulAccepted ==
  ASSUME LogType, Sources, Mirrors, refused = NoEvent, NEW e \in Event, Lawful(e)
  PROVE  Accepts(cloud, e) \/ Refusable(e)
<1> DEFINE s == e.session
<1>0. /\ s \in Session /\ cloud.phase = state.phase /\ cloud.mode = state.mode
      /\ cloud.active # NoSession => IsOpen(cloud.active)
      /\ state.phase[s] # "ended" =>
           /\ cloud.status[s] = state.status[s]
           /\ state.status[s]["browser-mic"] \in {"none", "available"}
           /\ \A k \in CaptureKind : cloud.capture[s] = k <=> state.status[s][k] \in LiveStatus
      /\ cloud.capture[s] \in CaptureKind \cup {"none"}
      /\ cloud.active \in Session \cup {NoSession}
  BY DEF Mirrors, Event, LogType, Ownership
<1>1. CASE e.type = "session.started"
  BY <1>0, <1>1 DEF Lawful, Accepts, MayStart
<1>2. CASE e.type = "session.stop.requested"
  BY <1>0, <1>2 DEF Lawful, Accepts, IsOpen, Refusable
<1>3. CASE e.type = "session.ended"
  BY <1>0, <1>3 DEF Lawful, Accepts
<1>4. CASE e.type = "source.attached"
  <2>1. /\ e.kind \in Kind /\ state.phase[s] = "open" /\ state.status[s][e.kind] = "none"
        /\ e.kind = "browser-mic" => e.status = "available"
        /\ e.kind # "browser-mic" =>
            /\ e.status = "starting" /\ state.mode[s] = "captions"
            /\ \A k \in CaptureKind : state.status[s][k] = "none"
    BY <1>4 DEF Lawful, Event, Kind
  <2>2. e.kind # "browser-mic" => cloud.capture[s] = "none"
    BY <1>0, <2>1 DEF LiveStatus
  <2> QED
    BY <1>0, <1>4, <2>1, <2>2 DEF Accepts, ValidInitialSource, MayClaimCapture
<1>5. CASE e.type = "source.status.changed" /\ e.kind # "browser-mic"
  <2>1. /\ e.kind \in CaptureKind /\ state.phase[s] \in {"open", "stopping"}
        /\ state.status[s][e.kind] \in LiveStatus /\ e.status \in LiveStatus \cup {"failed"}
        /\ e.status # state.status[s][e.kind]
    BY <1>5 DEF Lawful, Event, IsOpen, Kind
  <2>2. cloud.capture[s] = e.kind /\ cloud.status[s][e.kind] = state.status[s][e.kind]
    BY <1>0, <2>1
  <2>3. <<state.status[s][e.kind], e.status>> \in SourceStatusTransitions
    BY <2>1 DEF SourceStatusTransitions, LiveStatus
  <2> QED
    BY <1>0, <1>5, <2>1, <2>2, <2>3 DEF Accepts, MayClaimCapture
<1>6. CASE e.type = "source.status.changed" /\ e.kind = "browser-mic"
  BY <1>6 DEF Refusable
<1>7. CASE e.type = "caption.received"
  BY <1>0, <1>7 DEF Lawful, Accepts, IsOpen, TakesCaptions
<1>8. CASE e.type = "audio.chunk.saved"
  <2>1. e.kind \in Kind /\ state.phase[s] \in {"open", "stopping"} /\ state.status[s][e.kind] # "none"
    BY <1>8 DEF Lawful, Event, IsOpen
  <2>2. CASE e.kind = "browser-mic"
    BY <1>0, <1>8, <2>1, <2>2 DEF Accepts, TakesAudio
  <2>3. CASE e.kind \in CaptureKind
    <3>1. state.status[s][e.kind] \in {"failed", "starting", "recording"}
      BY <1>0, <2>1, <2>3 DEF Sources, LiveStatus
    <3>2. CASE state.status[s][e.kind] = "recording"
      <4>1. cloud.capture[s] = e.kind
        BY <1>0, <2>1, <2>3, <3>2 DEF LiveStatus
      <4> QED
        BY <1>0, <1>8, <2>1, <2>3, <3>2, <4>1 DEF Accepts, TakesAudio, CaptureKind
    <3>3. CASE state.status[s][e.kind] \in {"failed", "starting"}
      BY <1>0, <1>8, <2>1, <2>3, <3>3 DEF Refusable
    <3> QED
      BY <3>1, <3>2, <3>3
  <2> QED
    BY <2>1, <2>2, <2>3 DEF Kind
<1> QED
  BY <1>1, <1>2, <1>3, <1>4, <1>5, <1>6, <1>7, <1>8 DEF Event

\* An event that the receiver accepts leaves it with what the service knows.
LEMMA AcceptedMirrors ==
  ASSUME LogType, Sources, Mirrors, refused = NoEvent, NEW e \in Event, Lawful(e), Accepts(cloud, e),
         state' = Reduce(e), cloud' = After(cloud, e)
  PROVE  Mirrors'
<1> PICK s : s = e.session
  OBVIOUS
<1>R. /\ state' \in StateType /\ s \in Session
      /\ state'.phase = IF e.type = "session.started" THEN [state.phase EXCEPT ![s] = "open"]
                        ELSE IF e.type = "session.stop.requested" THEN [state.phase EXCEPT ![s] = "stopping"]
                        ELSE IF e.type = "session.ended" THEN [state.phase EXCEPT ![s] = "ended"]
                        ELSE state.phase
      /\ state'.mode = IF e.type = "session.started" THEN [state.mode EXCEPT ![s] = e.mode] ELSE state.mode
      /\ state'.status =
           IF e.type = "session.ended" THEN [state.status EXCEPT ![s] = Rested(state.status[s])]
           ELSE IF e.type \in {"source.attached", "source.status.changed"}
           THEN [state.status EXCEPT ![s] = [@ EXCEPT ![e.kind] = e.status]]
           ELSE state.status
  BY Reduced DEF LogType
<1>F. /\ cloud' \in Ownership
      /\ cloud'.active = IF e.type = "session.started" THEN s
                         ELSE IF e.type = "session.ended" /\ cloud.active = s THEN NoSession
                         ELSE cloud.active
      /\ cloud'.phase = IF e.type = "session.started" THEN [cloud.phase EXCEPT ![s] = "open"]
                        ELSE IF e.type = "session.stop.requested" THEN [cloud.phase EXCEPT ![s] = "stopping"]
                        ELSE IF e.type = "session.ended" THEN [cloud.phase EXCEPT ![s] = "ended"]
                        ELSE cloud.phase
      /\ cloud'.mode = IF e.type = "session.started" THEN [cloud.mode EXCEPT ![s] = e.mode] ELSE cloud.mode
      /\ \A t \in Session : t # s => cloud'.status[t] = cloud.status[t] /\ cloud'.capture[t] = cloud.capture[t]
      /\ e.type \in {"source.attached", "source.status.changed"} =>
           /\ cloud'.status[s] = [cloud.status[s] EXCEPT ![e.kind] = e.status]
           /\ cloud'.capture[s] = IF e.kind # "browser-mic" /\ e.status \in LiveStatus THEN e.kind
                                  ELSE IF cloud.capture[s] = e.kind THEN "none" ELSE cloud.capture[s]
      /\ e.type \notin {"source.attached", "source.status.changed", "session.ended"} =>
           cloud'.status = cloud.status /\ cloud'.capture = cloud.capture
  <2>1. cloud \in Ownership
    BY DEF LogType
  <2>2. MakesOf(cloud, cloud', e)
    BY <2>1, Followed
  <2> QED
    BY <2>2 DEF MakesOf
<1>0. /\ cloud.phase = state.phase /\ cloud.mode = state.mode
      /\ cloud.active # NoSession => IsOpen(cloud.active)
      /\ \A t \in Session : state.phase[t] # "ended" =>
           /\ cloud.status[t] = state.status[t]
           /\ state.status[t]["browser-mic"] \in {"none", "available"}
           /\ \A k \in CaptureKind : cloud.capture[t] = k <=> state.status[t][k] \in LiveStatus
      /\ cloud.active \in Session \cup {NoSession} /\ cloud'.active \in Session \cup {NoSession}
      /\ state.phase \in [Session -> Phase] /\ state'.phase \in [Session -> Phase]
      /\ state.status \in [Session -> [Kind -> CaptureStatus \cup {"none"}]]
      /\ cloud.capture[s] \in CaptureKind \cup {"none"}
  BY <1>R, <1>F DEF Mirrors, LogType, Ownership, StateType
<1>1. cloud'.phase = state'.phase /\ cloud'.mode = state'.mode
  BY <1>0, <1>R, <1>F
<1>2. cloud'.active # NoSession => state'.phase[cloud'.active] \in {"open", "stopping"}
  <2>1. CASE e.type = "session.started"
    BY <1>0, <1>R, <1>F, <2>1
  <2>2. CASE e.type = "session.stop.requested"
    BY <1>0, <1>R, <1>F, <2>2 DEF IsOpen
  <2>3. CASE e.type = "session.ended"
    BY <1>0, <1>R, <1>F, <2>3, LifecycleAssumption DEF IsOpen
  <2>4. CASE e.type \notin {"session.started", "session.stop.requested", "session.ended"}
    BY <1>0, <1>R, <1>F, <2>4 DEF IsOpen
  <2> QED
    BY <2>1, <2>2, <2>3, <2>4
<1> DEFINE Good(ph, st, cs, cc) ==
             ph # "ended" => /\ cs = st /\ st["browser-mic"] \in {"none", "available"}
                             /\ \A k \in CaptureKind : cc = k <=> st[k] \in LiveStatus
<1>3. \A t \in Session : Good(state.phase[t], state.status[t], cloud.status[t], cloud.capture[t])
  BY <1>0
<1>4. \A t \in Session : t # s => /\ state'.phase[t] = state.phase[t] /\ state'.status[t] = state.status[t]
                                  /\ cloud'.status[t] = cloud.status[t] /\ cloud'.capture[t] = cloud.capture[t]
  BY <1>0, <1>R, <1>F
<1>5. Good(state'.phase[s], state'.status[s], cloud'.status[s], cloud'.capture[s])
  <2> DEFINE st == state.status[s]
  <2>0. Good(state.phase[s], st, cloud.status[s], cloud.capture[s]) /\ st \in [Kind -> CaptureStatus \cup {"none"}]
    BY <1>0, <1>3, <1>R
  <2>1. CASE e.type = "session.ended"
    BY <1>0, <1>R, <2>1
  <2>2. CASE e.type \in {"session.started", "session.stop.requested", "caption.received", "audio.chunk.saved"}
    <3>1. state.phase[s] # "ended"
      BY <2>2 DEF Lawful, IsOpen
    <3>2. state'.status[s] = st /\ cloud'.status[s] = cloud.status[s] /\ cloud'.capture[s] = cloud.capture[s]
      BY <1>R, <1>F, <2>2
    <3> QED
      BY <2>0, <3>1, <3>2
  <2>3. CASE e.type \in {"source.attached", "source.status.changed"}
    <3>1. /\ e.kind \in Kind /\ state.phase[s] # "ended"
          /\ e.kind = "browser-mic" => e.status = "available"
          /\ e.kind # "browser-mic" => \A k \in CaptureKind : k # e.kind => st[k] \notin LiveStatus
      <4>1. e.kind \in Kind /\ state.phase[s] # "ended"
        BY <2>3 DEF Lawful, IsOpen, Event
      <4>2. e.kind = "browser-mic" => e.status = "available"
        BY <2>3 DEF Lawful, Accepts
      <4>3. ASSUME e.kind # "browser-mic", NEW k \in CaptureKind, k # e.kind PROVE st[k] \notin LiveStatus
        <5>1. CASE e.type = "source.attached"
          BY <4>3, <5>1 DEF Lawful, LiveStatus, Kind
        <5>2. CASE e.type = "source.status.changed"
          <6>1. e.kind \in CaptureKind /\ st[e.kind] \in LiveStatus
            BY <4>1, <4>3, <5>2 DEF Lawful, Kind
          <6>2. st[e.kind] # "none"
            BY <6>1 DEF LiveStatus
          <6>3. st[k] = "none"
            BY <1>R, <4>3, <6>1, <6>2 DEF Sources
          <6> QED
            BY <6>3 DEF LiveStatus
        <5> QED
          BY <2>3, <5>1, <5>2
      <4> QED
        BY <4>1, <4>2, <4>3
    <3>2. /\ state'.status[s] = [st EXCEPT ![e.kind] = e.status]
          /\ cloud'.status[s] = [st EXCEPT ![e.kind] = e.status]
          /\ cloud'.capture[s] = IF e.kind # "browser-mic" /\ e.status \in LiveStatus THEN e.kind
                                 ELSE IF cloud.capture[s] = e.kind THEN "none" ELSE cloud.capture[s]
      <4>1. state'.status = [state.status EXCEPT ![s] = [@ EXCEPT ![e.kind] = e.status]]
        BY <1>R, <2>3
      <4>2. state'.status[s] = [st EXCEPT ![e.kind] = e.status]
        BY <1>0, <1>R, <4>1
      <4>3. /\ cloud'.status[s] = [cloud.status[s] EXCEPT ![e.kind] = e.status]
            /\ cloud'.capture[s] = IF e.kind # "browser-mic" /\ e.status \in LiveStatus THEN e.kind
                                   ELSE IF cloud.capture[s] = e.kind THEN "none" ELSE cloud.capture[s]
        BY <1>F, <2>3
      <4>4. cloud.status[s] = st
        BY <2>0, <3>1
      <4> QED
        BY <4>2, <4>3, <4>4
    <3>3. CASE e.kind = "browser-mic"
      <4>1. e.kind \notin CaptureKind /\ "none" \notin CaptureKind
        BY <3>3 DEF CaptureKind
      <4>2. cloud'.capture[s] = cloud.capture[s]
        BY <1>0, <3>2, <3>3 DEF CaptureKind
      <4> QED
        BY <2>0, <3>1, <3>2, <3>3, <4>1, <4>2
    <3>4. CASE e.kind # "browser-mic"
      <4>1. e.kind \in CaptureKind /\ "browser-mic" \notin CaptureKind /\ "none" \notin CaptureKind
        BY <3>1, <3>4 DEF CaptureKind, Kind
      <4>2. CASE e.status \in LiveStatus
        BY <2>0, <3>1, <3>2, <3>4, <4>1, <4>2
      <4>3. CASE e.status \notin LiveStatus
        BY <2>0, <3>1, <3>2, <3>4, <4>1, <4>3
      <4> QED
        BY <4>2, <4>3
    <3> QED
      BY <3>3, <3>4
  <2> QED
    BY <2>1, <2>2, <2>3 DEF Event
<1>6. \A t \in Session : Good(state'.phase[t], state'.status[t], cloud'.status[t], cloud'.capture[t])
  BY <1>3, <1>4, <1>5
<1> QED
  BY <1>1, <1>2, <1>6 DEF Mirrors, IsOpen

\* Whatever the service writes, lawfully, the receiver follows it or may refuse it.
LEMMA LawfulWrite ==
  ASSUME LogType, Sources, Mirrors, OtherEventsAccepted, NEW e \in Event, Lawful(e), AppendEvent(e)
  PROVE  Sources' /\ Mirrors' /\ OtherEventsAccepted'
<1>1. state' = Reduce(e)
  BY DEF AppendEvent
<1>2. Sources'
  BY <1>1, SourcesKept DEF LogType
<1>3. CASE refused # NoEvent
  <2>1. refused' = refused /\ cloud' = cloud
    BY <1>3 DEF AppendEvent
  <2> QED
    BY <1>2, <1>3, <2>1 DEF Mirrors, OtherEventsAccepted
<1>4. CASE refused = NoEvent /\ Accepts(cloud, e)
  <2>1. refused' = NoEvent /\ cloud' = After(cloud, e)
    BY <1>4 DEF AppendEvent
  <2> QED
    BY <1>1, <1>2, <1>4, <2>1, AcceptedMirrors DEF OtherEventsAccepted
<1>5. CASE refused = NoEvent /\ ~Accepts(cloud, e)
  <2>1. refused' = e /\ cloud' = cloud /\ e # NoEvent
    BY <1>5, LifecycleAssumption DEF AppendEvent
  <2>2. Refusable(e)
    BY <1>5, LawfulAccepted
  <2> QED
    BY <1>2, <2>1, <2>2 DEF Mirrors, OtherEventsAccepted, Refusable
<1> QED
  BY <1>3, <1>4, <1>5

-----------------------------------------------------------------------------
(* What runs for a session, and what its sources say.                      *)

\* A session in phase ph and mode md, with sources st, a runtime that is at and an error
\* recorded or not, while the process is in life and mut is under way.
Matches(life, mut, ph, md, st, at, known) ==
  /\ ph = "none" \/ life \in {"down", "initializing"} => at = "none"
  /\ ph \in {"open", "stopping"} /\ at \in {"attached", "exiting", "exited"} => LiveIn(st)
  /\ ph \in {"open", "stopping"} /\ at = "detached" => ~LiveIn(st)
  /\ ph = "open" /\ mut = "attach-caption" =>
       at = "none" /\ md = "captions" /\ \A k \in Kind : st[k] = "none"
  /\ ph = "open" /\ mut = "attach-mic" =>
       /\ at = "none" /\ st["browser-mic"] = "none"
       /\ md = "captions" => LiveIn(st)
  /\ ph = "open" /\ life = "ready" /\ at = "none" /\ LiveIn(st) /\ st["browser-mic"] # "none" => known

Controlled ==
  /\ \A s \in Session : Matches(lifecycle, mutation, state.phase[s], state.mode[s], state.status[s],
                                runtime[s].at, s \in erred)
  /\ lifecycle \in {"down", "initializing"} => endAt = "idle" /\ mutation \in {"none", "recover-end"}
  /\ endAt # "idle" => \E s \in Session : state.phase[s] = "stopping"

LawfulStep == \E e \in Event : AppendEvent(e) /\ Lawful(e)

-----------------------------------------------------------------------------
(* Every write is lawful.                                                  *)

LEMMA LawfulChange ==
  ASSUME NEW s \in Session, NEW k \in CaptureKind, NEW st \in LiveStatus \cup {"failed"}, IsOpen(s),
         state.status[s][k] \in LiveStatus, st # state.status[s][k], AppendEvent(Changed(s, k, st))
  PROVE  LawfulStep
<1>1. k \in Kind /\ st \in CaptureStatus
  BY DEF Kind, CaptureStatus, LiveStatus
<1>2. Changed(s, k, st) \in Event
  BY <1>1, Events DEF Tail, Mode
<1>3. Lawful(Changed(s, k, st))
  BY DEF Lawful, Changed, CaptureKind
<1> QED
  BY <1>2, <1>3 DEF LawfulStep

LEMMA LawfulMaterial ==
  ASSUME NEW s \in Session, NEW k \in Kind, IsOpen(s), state.status[s][k] # "none",
         AppendEvent(AudioSaved(s, k))
  PROVE  LawfulStep
<1>1. AudioSaved(s, k) \in Event
  BY Events DEF Tail, Mode, CaptureStatus
<1>2. Lawful(AudioSaved(s, k))
  BY DEF Lawful, AudioSaved
<1> QED
  BY <1>1, <1>2 DEF LawfulStep

\* Of a session that has a source, and has not ended.
LEMMA SourceOfOpen ==
  ASSUME Sources, state \in StateType, NEW s \in Session, NEW k \in Kind,
         state.status[s][k] # "none", state.phase[s] # "ended"
  PROVE  IsOpen(s)
BY DEF Sources, IsOpen, StateType, Phase

LEMMA LawfulTail ==
  ASSUME Sources, state \in StateType, NEW s \in Session, NEW next, StopsAudio(s, next)
  PROVE  LawfulStep \/ NoAppend
<1>1. CASE runtime[s].buffered /\ state.phase[s] # "ended"
  <2>1. PICK k \in CaptureKind : state.status[s][k] # "none" /\ AppendEvent(AudioSaved(s, k))
    BY <1>1 DEF StopsAudio
  <2>2. k \in Kind
    BY DEF Kind
  <2> QED
    BY <1>1, <2>1, <2>2, SourceOfOpen, LawfulMaterial
<1>2. CASE ~(runtime[s].buffered /\ state.phase[s] # "ended")
  BY <1>2 DEF StopsAudio
<1> QED
  BY <1>1, <1>2

LEMMA LawfulEnd ==
  ASSUME NEW s \in Session, state.phase[s] = "stopping", AppendEvent(Ended(s))
  PROVE  LawfulStep
<1>1. Ended(s) \in Event
  BY Events DEF Kind, Mode, CaptureStatus, Tail
<1>2. Lawful(Ended(s))
  BY DEF Lawful, Ended
<1> QED
  BY <1>1, <1>2 DEF LawfulStep

LEMMA LawfulStop ==
  ASSUME NEW s \in Session, NEW t \in Tail, IsOpen(s), AppendEvent(StopRequested(s, t))
  PROVE  LawfulStep
<1>1. StopRequested(s, t) \in Event
  BY Events DEF Kind, Mode, CaptureStatus
<1>2. Lawful(StopRequested(s, t))
  BY DEF Lawful, StopRequested
<1> QED
  BY <1>1, <1>2 DEF LawfulStep

\* The session that is being ended was asked to stop.
LEMMA EndingStops ==
  ASSUME Controlled, OneOpenSession, endAt # "idle", NEW s \in Session, IsOpen(s)
  PROVE  state.phase[s] = "stopping"
<1>1. PICK t \in Session : state.phase[t] = "stopping"
  BY DEF Controlled
<1> QED
  BY <1>1 DEF OneOpenSession, IsOpen

\* The source of a session whose captioner has exited is the one that was live.
LEMMA ExitedSource ==
  ASSUME Controlled, Sources, NEW s \in Session, runtime[s].at \in {"attached", "exiting", "exited"},
         state.phase[s] = "open", NEW k \in CaptureKind, state.status[s][k] # "none"
  PROVE  state.status[s][k] \in LiveStatus
<1>1. LiveIn(state.status[s])
  BY DEF Controlled, Matches
<1>2. PICK j \in CaptureKind : state.status[s][j] \in LiveStatus
  BY <1>1 DEF LiveIn
<1>3. state.status[s][j] # "none"
  BY <1>2 DEF LiveStatus
<1>4. j = k
  BY <1>3 DEF Sources
<1> QED
  BY <1>2, <1>4

LEMMA LawfulWrites ==
  ASSUME IInv, Sources, Controlled, Next
  PROVE  LawfulStep \/ NoAppend
<1>0. state \in StateType /\ OneOpenSession
  BY TypeParts DEF IInv, LogType
<1>1. ASSUME NEW s \in Session, NEW k, k \in CaptureKind, NEW sts, sts \subseteq LiveStatus,
             CaptionStatus(s, k, sts)
      PROVE  k \in Kind /\ state.status[s][k] \in LiveStatus /\ IsOpen(s)
  <2>1. k \in Kind /\ state.status[s][k] \in LiveStatus
    BY <1>1 DEF CaptionStatus, Kind
  <2>2. state.status[s][k] # "none" /\ state.phase[s] # "ended"
    BY <2>1 DEF IInv, EndedIsQuiet, LiveStatus
  <2> QED
    BY <1>0, <2>1, <2>2, SourceOfOpen
<1>2. ASSUME NEW s \in Session, NEW m \in Mode, StartSession(s, m) PROVE LawfulStep
  <2>1. Started(s, m) \in Event
    BY Events DEF Kind, CaptureStatus, Tail
  <2>2. Lawful(Started(s, m))
    BY <1>2 DEF Lawful, Started, StartSession
  <2> QED
    BY <1>2, <2>1, <2>2 DEF LawfulStep, StartSession
<1>3. ASSUME NEW s \in Session, NEW k \in CaptureKind, AttachCaptionSource(s, k) PROVE LawfulStep
  <2>1. Attached(s, k, "starting") \in Event
    BY Events DEF Kind, CaptureStatus, Tail, Mode
  <2>2. state.phase[s] = "open" /\ state.mode[s] = "captions" /\ \A j \in Kind : state.status[s][j] = "none"
    BY <1>3 DEF AttachCaptionSource, Controlled, Matches
  <2>3. Lawful(Attached(s, k, "starting"))
    BY <2>2 DEF Lawful, Attached, Kind, CaptureKind
  <2> QED
    BY <1>3, <2>1, <2>3 DEF LawfulStep, AttachCaptionSource
<1>4. ASSUME NEW s \in Session, AttachMic(s) PROVE LawfulStep
  <2>1. Attached(s, "browser-mic", "available") \in Event
    BY Events DEF Kind, CaptureStatus, Tail, Mode
  <2>2. /\ state.phase[s] = "open" /\ state.status[s]["browser-mic"] = "none"
        /\ state.mode[s] = "captions" => LiveIn(state.status[s])
    BY <1>4 DEF AttachMic, Controlled, Matches
  <2>3. Lawful(Attached(s, "browser-mic", "available"))
    BY <2>2 DEF Lawful, Attached
  <2> QED
    BY <1>4, <2>1, <2>3 DEF LawfulStep, AttachMic
<1>5. ASSUME NEW s \in Session, MicChunk(s) PROVE LawfulStep
  <2>1. "browser-mic" \in Kind
    BY DEF Kind
  <2> QED
    BY <1>5, <2>1, LawfulMaterial DEF MicChunk, IsOpen
<1>6. ASSUME NEW s \in Session, NEW t \in Tail, RequestStop(s, t) PROVE LawfulStep \/ NoAppend
  BY <1>6, LawfulStop DEF RequestStop
<1>7. ASSUME NEW s \in Session, DrainRuntime(s) \/ ExitStopsAudio(s) \/ DetachedStops(s) \/ CloseStops(s)
      PROVE  LawfulStep \/ NoAppend
  <2>1. \E next : StopsAudio(s, next)
    BY <1>7 DEF DrainRuntime, ExitStopsAudio, DetachedStops, CloseStops
  <2> QED
    BY <1>0, <2>1, LawfulTail
<1>8. ASSUME NEW s \in Session, FinishEnd(s) PROVE LawfulStep \/ NoAppend
  <2>1. state.phase[s] = "stopping"
    BY <1>0, <1>8, EndingStops DEF FinishEnd
  <2> QED
    BY <1>8, <2>1, LawfulEnd DEF FinishEnd
<1>9. ASSUME NEW s \in Session, NEW k \in CaptureKind, HelperReady(s, k) PROVE LawfulStep \/ NoAppend
  <2>1. NoAppend \/ (CaptionStatus(s, k, {"starting"}) /\ AppendEvent(Changed(s, k, "recording")))
    BY <1>9 DEF HelperReady
  <2> QED
    BY <1>1, <2>1, LawfulChange DEF CaptionStatus, LiveStatus
<1>10. ASSUME NEW s \in Session, NEW k \in CaptureKind, Reconnecting(s, k) PROVE LawfulStep \/ NoAppend
  <2>1. NoAppend \/ (CaptionStatus(s, k, {"recording"}) /\ AppendEvent(Changed(s, k, "starting")))
    BY <1>10 DEF Reconnecting
  <2> QED
    BY <1>1, <2>1, LawfulChange DEF CaptionStatus, LiveStatus
<1>11. ASSUME NEW s \in Session, NEW k \in CaptureKind, Segment(s, k) PROVE LawfulStep \/ NoAppend
  <2>1. NoAppend \/ AppendEvent(AudioSaved(s, k))
    BY <1>11 DEF Segment
  <2>2. k \in Kind /\ IsOpen(s) /\ state.status[s][k] # "none"
    BY <1>0, <1>11, SourceOfOpen DEF Segment, AttachedTo, Kind
  <2> QED
    BY <2>1, <2>2, LawfulMaterial
<1>12. ASSUME NEW s \in Session, NEW k \in CaptureKind, LoopbackStarted(s, k) PROVE LawfulStep \/ NoAppend
  <2>1. NoAppend \/ (CaptionStatus(s, k, {"starting"}) /\ AppendEvent(Changed(s, k, "recording")))
    BY <1>12 DEF LoopbackStarted, Wanted, StillStarting
  <2> QED
    BY <1>1, <2>1, LawfulChange DEF CaptionStatus, LiveStatus
<1>13. ASSUME NEW s \in Session, NEW k \in CaptureKind,
              LoopbackFails(s, k) \/ RuntimeFails(s, k) \/ StartupTimeout(s, k)
       PROVE  LawfulStep \/ NoAppend
  <2>1. NoAppend \/ (CaptionStatus(s, k, {"starting", "recording"}) /\ AppendEvent(Changed(s, k, "failed")))
    BY <1>13 DEF LoopbackFails, RuntimeFails, StartupTimeout, CanFail, Fails, CaptionStatus
  <2> QED
    BY <1>1, <2>1, LawfulChange DEF CaptionStatus, LiveStatus
<1>14. ASSUME NEW s \in Session, NEW k \in Kind, Caption(s, k) PROVE LawfulStep
  <2>1. CaptionReceived(s, k) \in Event
    BY Events DEF Tail, Mode, CaptureStatus
  <2>2. Lawful(CaptionReceived(s, k))
    BY <1>14 DEF Lawful, CaptionReceived, Caption, IsOpen
  <2> QED
    BY <1>14, <2>1, <2>2 DEF LawfulStep, Caption
<1>15. ASSUME NEW s \in Session, ExitRecorded(s) PROVE LawfulStep \/ NoAppend
  <2>1. CASE ExitMarks(s)
    <3>1. PICK k \in CaptureKind : state.status[s][k] # "none" /\ AppendEvent(Changed(s, k, "failed"))
      BY <1>15, <2>1 DEF ExitRecorded
    <3>2. state.status[s][k] \in LiveStatus /\ IsOpen(s)
      BY <1>15, <2>1, <3>1, ExitedSource DEF ExitRecorded, ExitMarks, IsOpen
    <3> QED
      BY <3>1, <3>2, LawfulChange DEF LiveStatus
  <2>2. CASE ~ExitMarks(s)
    BY <1>15, <2>2 DEF ExitRecorded
  <2> QED
    BY <2>1, <2>2
<1>16. ASSUME NEW s \in Session, RecoverEnd(s) \/ RecoverStopped(s) PROVE LawfulStep
  BY <1>16, LawfulEnd DEF RecoverEnd, MustEnd, RecoverStopped
<1>17. ASSUME NEW s \in Session, RecoverStop(s) PROVE LawfulStep
  BY <1>17, LawfulStop DEF RecoverStop, NeverCaptured, IsOpen, Tail
<1>18. ASSUME NEW s \in Session, NEW k \in Kind, RecoverInterrupted(s, k) PROVE LawfulStep
  <2>1. /\ state.phase[s] = "stopping" /\ state.status[s][k] \notin {"none", "failed", "stopped"}
        /\ AppendEvent(Changed(s, k, "failed"))
    BY <1>18 DEF RecoverInterrupted, Interrupted
  <2>2. CASE k \in CaptureKind
    <3>1. state.status[s][k] \in LiveStatus
      BY <2>1, <2>2 DEF Sources
    <3> QED
      BY <2>1, <2>2, <3>1, LawfulChange DEF IsOpen, LiveStatus
  <2>3. CASE k = "browser-mic"
    <3>1. Changed(s, k, "failed") \in Event
      BY Events DEF Tail, Mode, CaptureStatus
    <3>2. state.status[s][k] = "available"
      BY <2>1, <2>3 DEF Sources
    <3>3. Lawful(Changed(s, k, "failed"))
      BY <2>1, <2>3, <3>2 DEF Lawful, Changed, IsOpen
    <3> QED
      BY <2>1, <3>1, <3>3 DEF LawfulStep
  <2> QED
    BY <2>2, <2>3 DEF Kind
<1>19. ASSUME NEW s \in Session, NEW k \in CaptureKind, RecoverSource(s, k) PROVE LawfulStep
  <2>1. CaptionStatus(s, k, {"recording"}) /\ AppendEvent(Changed(s, k, "starting"))
    BY <1>19 DEF RecoverSource, Restarts
  <2> QED
    BY <1>1, <2>1, LawfulChange DEF CaptionStatus, LiveStatus
<1>20. ASSUME NEW s \in Session, NEW k \in CaptureKind, RecoverAdapter(s, k) PROVE LawfulStep \/ NoAppend
  <2>1. NoAppend \/ (CaptionStatus(s, k, {"starting"}) /\ AppendEvent(Changed(s, k, "failed")))
    BY <1>20 DEF RecoverAdapter
  <2> QED
    BY <1>1, <2>1, LawfulChange DEF CaptionStatus, LiveStatus
<1>21. \/ StartSessionFails \/ Start \/ Crash \/ Close \/ CloseDone \/ RecoverNothing
       \/ \E s \in Session : \/ AdapterExits(s)
                             \/ \E k \in CaptureKind : Preview(s, k) \/ CaptionRejected(s, k)
       => NoAppend
  BY DEF StartSessionFails, Start, Crash, Close, CloseDone, RecoverNothing, AdapterExits, Preview,
     CaptionRejected
<1>22. CASE Requests
  BY <1>22, <1>2, <1>3, <1>4, <1>5, <1>6, <1>7, <1>8, <1>21 DEF Requests
<1>23. CASE Callbacks
  BY <1>23, <1>7, <1>9, <1>10, <1>11, <1>12, <1>13, <1>14, <1>15, <1>21 DEF Callbacks
<1>24. CASE Process
  BY <1>24, <1>7, <1>16, <1>17, <1>18, <1>19, <1>20, <1>21 DEF Process
<1> QED
  BY <1>22, <1>23, <1>24 DEF Next

-----------------------------------------------------------------------------
(* No step loses sight of a captioner.                                     *)

MatchesNow(s) ==
  Matches(lifecycle, mutation, state.phase[s], state.mode[s], state.status[s], runtime[s].at, s \in erred)

EndMatches ==
  /\ lifecycle \in {"down", "initializing"} => endAt = "idle" /\ mutation \in {"none", "recover-end"}
  /\ endAt # "idle" => \E s \in Session : state.phase[s] = "stopping"

LEMMA ControlledParts == Controlled <=> EndMatches /\ \A s \in Session : MatchesNow(s)
BY DEF Controlled, EndMatches, MatchesNow

\* A step that is about session s.
About(s) ==
  \A t \in Session : t # s =>
    /\ state'.phase[t] = state.phase[t] /\ state'.mode[t] = state.mode[t] /\ state'.status[t] = state.status[t]
    /\ runtime'[t].at = runtime[t].at
    /\ t \in erred => t \in erred'

LEMMA OthersMatch ==
  ASSUME Controlled, NEW s \in Session, About(s), MatchesNow(s)',
         \/ lifecycle' = lifecycle /\ mutation' \in {mutation, "none", "recover-end"}
         \/ /\ \A t \in Session : t # s => ~IsOpen(t)
            /\ lifecycle' \in {lifecycle, "ready"}
  PROVE  \A t \in Session : MatchesNow(t)'
<1> SUFFICES ASSUME NEW t \in Session, t # s PROVE MatchesNow(t)'
  OBVIOUS
<1>1. MatchesNow(t)
  BY ControlledParts
<1> QED
  BY <1>1 DEF About, MatchesNow, Matches, IsOpen

\* A step that changes who runs for no session, nor whether its source is live.
Calm ==
  /\ lifecycle' = lifecycle /\ mutation' = mutation /\ endAt' = endAt /\ erred' = erred
  /\ \A t \in Session :
       /\ state'.phase[t] = state.phase[t] /\ state'.mode[t] = state.mode[t]
       /\ runtime'[t].at = runtime[t].at
       /\ LiveIn(state'.status[t]) <=> LiveIn(state.status[t])
       /\ \A k \in Kind : state'.status[t][k] = "none" <=> state.status[t][k] = "none"

LEMMA CalmStep ==
  ASSUME Controlled, Calm
  PROVE  Controlled'
<1>1. "browser-mic" \in Kind
  BY DEF Kind
<1>2. EndMatches'
  BY ControlledParts DEF Calm, EndMatches
<1>3. ASSUME NEW t \in Session PROVE MatchesNow(t)'
  <2>1. MatchesNow(t)
    BY ControlledParts
  <2> QED
    BY <1>1, <2>1 DEF Calm, MatchesNow, Matches
<1>4. (Controlled <=> EndMatches /\ \A s \in Session : MatchesNow(s))'
  BY ControlledParts DEF Controlled, EndMatches, MatchesNow
<1> QED
  BY <1>2, <1>3, <1>4

\* What is appended about captions or audio changes no session.
LEMMA MaterialEffect ==
  ASSUME NEW s, NEW k, AppendEvent(AudioSaved(s, k)) \/ AppendEvent(CaptionReceived(s, k)) \/ NoAppend
  PROVE  state' = state
BY DEF AppendEvent, NoAppend, Reduce, AudioSaved, CaptionReceived

LEMMA StatusEffect ==
  ASSUME state \in StateType, NEW s \in Session, NEW k \in Kind, NEW v \in CaptureStatus,
         AppendEvent(Changed(s, k, v)) \/ AppendEvent(Attached(s, k, v))
  PROVE  /\ state'.phase = state.phase /\ state'.mode = state.mode
         /\ \A t \in Session : t # s => state'.status[t] = state.status[t]
         /\ state'.status[s] = [state.status[s] EXCEPT ![k] = v]
         /\ state.status[s] \in [Kind -> CaptureStatus \cup {"none"}]
<1>1. state' = [state EXCEPT !.status[s][k] = v]
  BY DEF AppendEvent, Reduce, Changed, Attached
<1> QED
  BY <1>1 DEF StateType

LEMMA StopEffect ==
  ASSUME state \in StateType, NEW s \in Session, NEW t \in Tail, AppendEvent(StopRequested(s, t))
  PROVE  /\ state'.phase = [state.phase EXCEPT ![s] = "stopping"]
         /\ state'.mode = state.mode /\ state'.status = state.status
         /\ state.phase \in [Session -> Phase]
<1>1. state' = [state EXCEPT !.phase[s] = "stopping", !.tail[s] = t]
  BY DEF AppendEvent, Reduce, StopRequested
<1> QED
  BY <1>1 DEF StateType

LEMMA EndEffect ==
  ASSUME state \in StateType, NEW s \in Session, AppendEvent(Ended(s))
  PROVE  /\ state'.phase = [state.phase EXCEPT ![s] = "ended"]
         /\ state'.mode = state.mode
         /\ \A t \in Session : t # s => state'.status[t] = state.status[t]
         /\ state.phase \in [Session -> Phase]
<1> DEFINE q == [k \in Kind |-> IF state.status[s][k] \in {"none", "failed"} THEN state.status[s][k] ELSE "stopped"]
<1>1. state' = [state EXCEPT !.phase[s] = "ended", !.status[s] = q]
  <2>1. state' = [state EXCEPT !.phase[s] = "ended", !.status[s] = [k \in Kind |->
                     IF @[k] \in {"none", "failed"} THEN @[k] ELSE "stopped"]]
    BY DEF AppendEvent, Reduce, Ended
  <2> QED
    BY <2>1 DEF StateType
<1> HIDE DEF q
<1> QED
  BY <1>1 DEF StateType

LEMMA StartEffect ==
  ASSUME state \in StateType, NEW s \in Session, NEW m \in Mode, AppendEvent(Started(s, m))
  PROVE  /\ state'.phase = [state.phase EXCEPT ![s] = "open"]
         /\ state'.mode = [state.mode EXCEPT ![s] = m]
         /\ state'.status = state.status
         /\ state.phase \in [Session -> Phase] /\ state.mode \in [Session -> Mode \cup {"none"}]
<1>1. state' = [state EXCEPT !.phase[s] = "open", !.mode[s] = m]
  BY DEF AppendEvent, Reduce, Started
<1> QED
  BY <1>1 DEF StateType

\* A change of the source of a session that is live.
LEMMA SourceEffect ==
  ASSUME state \in StateType, Sources, NEW s \in Session, NEW k \in CaptureKind,
         state.status[s][k] \in LiveStatus, NEW v \in LiveStatus \cup {"failed"},
         AppendEvent(Changed(s, k, v))
  PROVE  /\ state'.phase = state.phase /\ state'.mode = state.mode
         /\ \A t \in Session : t # s => state'.status[t] = state.status[t]
         /\ \A j \in Kind : state'.status[s][j] = "none" <=> state.status[s][j] = "none"
         /\ LiveIn(state.status[s])
         /\ LiveIn(state'.status[s]) <=> v \in LiveStatus
<1>0. k \in Kind /\ v \in CaptureStatus /\ v # "none" /\ state.status[s][k] # "none"
      /\ CaptureKind \subseteq Kind /\ "failed" \notin LiveStatus /\ "none" \notin LiveStatus
  BY DEF Kind, CaptureStatus, LiveStatus
<1>1. /\ state'.phase = state.phase /\ state'.mode = state.mode
      /\ \A t \in Session : t # s => state'.status[t] = state.status[t]
      /\ state'.status[s] = [state.status[s] EXCEPT ![k] = v]
      /\ state.status[s] \in [Kind -> CaptureStatus \cup {"none"}]
  BY <1>0, StatusEffect
<1>2. \A j \in CaptureKind : j # k => state.status[s][j] = "none"
  BY <1>0 DEF Sources
<1>3. LiveIn(state.status[s])
  BY DEF LiveIn
<1>4. LiveIn(state'.status[s]) <=> v \in LiveStatus
  BY <1>0, <1>1, <1>2 DEF LiveIn
<1>5. \A j \in Kind : state'.status[s][j] = "none" <=> state.status[s][j] = "none"
  BY <1>0, <1>1
<1> QED
  BY <1>1, <1>3, <1>4, <1>5

LEMMA LiveChange ==
  ASSUME state \in StateType, Sources, NEW s \in Session, NEW k \in CaptureKind,
         state.status[s][k] \in LiveStatus, NEW v \in LiveStatus, AppendEvent(Changed(s, k, v))
  PROVE  \A t \in Session :
           /\ state'.phase[t] = state.phase[t] /\ state'.mode[t] = state.mode[t]
           /\ LiveIn(state'.status[t]) <=> LiveIn(state.status[t])
           /\ \A j \in Kind : state'.status[t][j] = "none" <=> state.status[t][j] = "none"
<1>1. /\ state'.phase = state.phase /\ state'.mode = state.mode
      /\ \A t \in Session : t # s => state'.status[t] = state.status[t]
      /\ \A j \in Kind : state'.status[s][j] = "none" <=> state.status[s][j] = "none"
      /\ LiveIn(state.status[s])
      /\ LiveIn(state'.status[s]) <=> v \in LiveStatus
  BY SourceEffect
<1> QED
  BY <1>1

\* The callbacks of a runtime that goes on.
LEMMA CalmCallbacks ==
  ASSUME IInv, Sources, NEW s \in Session, NEW k \in CaptureKind,
         \/ HelperReady(s, k) \/ Reconnecting(s, k) \/ LoopbackStarted(s, k) \/ Segment(s, k)
         \/ Preview(s, k) \/ CaptionRejected(s, k)
  PROVE  Calm
<1>0. state \in StateType /\ runtime \in [Session -> RuntimeState]
  BY TypeParts DEF IInv, LogType, ProcessType
<1>1. \A t \in Session : runtime'[t].at = runtime[t].at
  <2>1. CASE HelperReady(s, k)
    <3> DEFINE w == [runtime[s] EXCEPT !.timer = IF k = "system-captions" THEN "off" ELSE @,
                                      !.loopback = IF @ = "off" THEN "starting" ELSE @]
    <3>1. runtime' = [runtime EXCEPT ![s] = w]
      BY <1>0, <2>1 DEF HelperReady
    <3>2. w.at = runtime[s].at
      BY <1>0 DEF RuntimeState
    <3> HIDE DEF w
    <3> QED
      BY <1>0, <3>1, <3>2
  <2>2. CASE Reconnecting(s, k)
    BY <1>0, <2>2 DEF Reconnecting, RuntimeState
  <2>3. CASE LoopbackStarted(s, k)
    <3> DEFINE w == [runtime[s] EXCEPT !.loopback = "on", !.timer = IF k = "local-asr" THEN "off" ELSE @]
               v == [runtime[s] EXCEPT !.loopback = "over"]
    <3>1. runtime' = [runtime EXCEPT ![s] = w] \/ runtime' = [runtime EXCEPT ![s] = v]
      BY <1>0, <2>3 DEF LoopbackStarted
    <3>2. w.at = runtime[s].at /\ v.at = runtime[s].at
      BY <1>0 DEF RuntimeState
    <3> HIDE DEF w, v
    <3> QED
      BY <1>0, <3>1, <3>2
  <2>4. CASE Segment(s, k)
    <3>1. \E b \in BOOLEAN : runtime' = [runtime EXCEPT ![s].buffered = b]
      BY <2>4 DEF Segment
    <3> QED
      BY <1>0, <3>1 DEF RuntimeState
  <2>5. CASE CaptionRejected(s, k)
    BY <1>0, <2>5 DEF CaptionRejected, RuntimeState
  <2>6. CASE Preview(s, k)
    BY <1>0, <2>6 DEF Preview, RuntimeState
  <2> QED
    BY <2>1, <2>2, <2>3, <2>4, <2>5, <2>6
<1>2. lifecycle' = lifecycle /\ mutation' = mutation /\ endAt' = endAt /\ erred' = erred
  BY DEF HelperReady, Reconnecting, LoopbackStarted, Segment, Preview, CaptionRejected, Idle, endVars
<1>3. CASE Segment(s, k) \/ Preview(s, k) \/ CaptionRejected(s, k)
  <2>1. state' = state
    BY <1>3, MaterialEffect DEF Segment, Preview, CaptionRejected
  <2> QED
    BY <1>1, <1>2, <2>1 DEF Calm
<1>4. CASE HelperReady(s, k) \/ Reconnecting(s, k) \/ LoopbackStarted(s, k)
  <2>1. \/ NoAppend
        \/ \E v \in LiveStatus : state.status[s][k] \in LiveStatus /\ AppendEvent(Changed(s, k, v))
    BY <1>4 DEF HelperReady, Reconnecting, LoopbackStarted, Wanted, StillStarting, CaptionStatus, LiveStatus
  <2>2. CASE NoAppend
    BY <1>1, <1>2, <2>2 DEF Calm, NoAppend
  <2>3. ASSUME NEW v \in LiveStatus, state.status[s][k] \in LiveStatus, AppendEvent(Changed(s, k, v)) PROVE Calm
    BY <1>0, <1>1, <1>2, <2>3, LiveChange DEF Calm
  <2> QED
    BY <2>1, <2>2, <2>3
<1> QED
  BY <1>3, <1>4

LEMMA CalmRest ==
  ASSUME IInv, Sources, Next,
         \/ \E s \in Session : MicChunk(s) \/ \E k \in Kind : Caption(s, k)
         \/ \E s \in Session : \E k \in CaptureKind : RecoverSource(s, k)
         \/ \E s \in Session : \E k \in Kind : RecoverInterrupted(s, k) /\ k = "browser-mic"
  PROVE  Calm
<1>0. state \in StateType /\ runtime \in [Session -> RuntimeState]
  BY TypeParts DEF IInv, LogType, ProcessType
<1>1. CASE \E s \in Session : MicChunk(s) \/ \E k \in Kind : Caption(s, k)
  <2>1. state' = state
    BY <1>1, MaterialEffect DEF MicChunk, Caption
  <2>2. \A t \in Session : runtime'[t].at = runtime[t].at
    BY <1>0, <1>1 DEF MicChunk, Caption, Settled, RuntimeState
  <2> QED
    BY <1>1, <2>1, <2>2 DEF Calm, MicChunk, Caption, Idle, endVars
<1>2. ASSUME NEW s \in Session, NEW k \in CaptureKind, RecoverSource(s, k) PROVE Calm
  <2>1. state.status[s][k] \in LiveStatus /\ AppendEvent(Changed(s, k, "starting")) /\ "starting" \in LiveStatus
    BY <1>2 DEF RecoverSource, Restarts, CaptionStatus, LiveStatus
  <2>2. lifecycle' = lifecycle /\ mutation' = mutation /\ endAt' = endAt /\ erred' = erred /\ runtime' = runtime
    BY <1>2 DEF RecoverSource, Recovers, endVars
  <2> QED
    BY <1>0, <2>1, <2>2, LiveChange DEF Calm
<1>3. ASSUME NEW s \in Session, RecoverInterrupted(s, "browser-mic") PROVE Calm
  <2>1. /\ lifecycle' = lifecycle /\ mutation' = mutation /\ endAt' = endAt /\ erred' = erred /\ runtime' = runtime
        /\ state.status[s]["browser-mic"] # "none"
    BY <1>3 DEF RecoverInterrupted, Interrupted, Recovers, endVars
  <2>2. "browser-mic" \in Kind /\ "failed" \in CaptureStatus /\ "browser-mic" \notin CaptureKind
    BY DEF Kind, CaptureKind, CaptureStatus
  <2>3. /\ state'.phase = state.phase /\ state'.mode = state.mode
        /\ \A t \in Session : t # s => state'.status[t] = state.status[t]
        /\ state'.status[s] = [state.status[s] EXCEPT !["browser-mic"] = "failed"]
        /\ state.status[s] \in [Kind -> CaptureStatus \cup {"none"}]
    BY <1>0, <1>3, <2>2, StatusEffect DEF RecoverInterrupted
  <2>4. /\ LiveIn(state'.status[s]) <=> LiveIn(state.status[s])
        /\ \A j \in Kind : state'.status[s][j] = "none" <=> state.status[s][j] = "none"
    BY <2>1, <2>2, <2>3 DEF LiveIn, Kind
  <2> QED
    BY <2>1, <2>3, <2>4 DEF Calm
<1> QED
  BY <1>1, <1>2, <1>3

\* A runtime that has failed has a source that has.
LEMMA FailedStep ==
  ASSUME IInv, Sources, Controlled, NEW s \in Session, NEW k \in CaptureKind,
         RuntimeFails(s, k) \/ LoopbackFails(s, k) \/ StartupTimeout(s, k)
  PROVE  Controlled'
<1>0. state \in StateType /\ runtime \in [Session -> RuntimeState]
  BY TypeParts DEF IInv, LogType, ProcessType
<1>1. lifecycle' = lifecycle /\ mutation' = mutation /\ endAt' = endAt /\ erred' = erred
  BY DEF RuntimeFails, LoopbackFails, StartupTimeout, Idle, endVars
<1>2. \/ /\ NoAppend
         /\ \A t \in Session : runtime'[t].at = runtime[t].at
      \/ /\ state.phase[s] = "open" /\ state.status[s][k] \in LiveStatus /\ AppendEvent(Changed(s, k, "failed"))
         /\ runtime'[s].at = "detached" /\ runtime[s].at = "attached"
         /\ \A t \in Session : t # s => runtime'[t] = runtime[t]
         /\ QueueFree /\ Up
  BY <1>0 DEF RuntimeFails, LoopbackFails, StartupTimeout, CanFail, Fails, CaptionStatus, LiveStatus, RuntimeState,
     AttachedTo
<1>3. CASE NoAppend /\ \A t \in Session : runtime'[t].at = runtime[t].at
  <2>1. Calm
    BY <1>1, <1>3 DEF Calm, NoAppend
  <2> QED
    BY <2>1, CalmStep
<1>4. CASE /\ state.phase[s] = "open" /\ state.status[s][k] \in LiveStatus /\ AppendEvent(Changed(s, k, "failed"))
           /\ runtime'[s].at = "detached" /\ runtime[s].at = "attached"
           /\ \A t \in Session : t # s => runtime'[t] = runtime[t]
           /\ QueueFree /\ Up
  <2>1. /\ state'.phase = state.phase /\ state'.mode = state.mode
        /\ \A t \in Session : t # s => state'.status[t] = state.status[t]
        /\ ~LiveIn(state'.status[s])
    <3>1. "failed" \in LiveStatus \cup {"failed"} /\ "failed" \notin LiveStatus
      BY DEF LiveStatus
    <3> QED
      BY <1>0, <1>4, <3>1, SourceEffect
  <2>2. About(s)
    BY <1>1, <1>4, <2>1 DEF About
  <2>3. MatchesNow(s)'
    BY <1>1, <1>4, <2>1 DEF MatchesNow, Matches, QueueFree, Up
  <2>4. \A t \in Session : MatchesNow(t)'
    BY <1>1, <2>2, <2>3, OthersMatch
  <2>5. EndMatches'
    BY <1>1, <2>1, ControlledParts DEF EndMatches
  <2> QED
    BY <2>4, <2>5 DEF Controlled, EndMatches, MatchesNow
<1> QED
  BY <1>2, <1>3, <1>4

LEMMA StopsEffect ==
  ASSUME runtime \in [Session -> RuntimeState], NEW s \in Session, NEW next \in RuntimeState, StopsAudio(s, next)
  PROVE  /\ state' = state
         /\ runtime'[s].at = next.at
         /\ \A t \in Session : t # s => runtime'[t].at = runtime[t].at
<1> DEFINE w == [next EXCEPT !.loopback = IF @ = "on" THEN "over" ELSE @, !.buffered = FALSE]
<1>1. runtime' = [runtime EXCEPT ![s] = w] /\ w.at = next.at
  BY DEF StopsAudio, RuntimeState
<1>2. state' = state
  BY MaterialEffect DEF StopsAudio
<1> HIDE DEF w
<1> QED
  BY <1>1, <1>2

\* Every way to be rid of a captioner leaves the session as it must be without one.
LEMMA StoppedStep ==
  ASSUME IInv, Sources, Controlled, NEW s \in Session,
         DrainRuntime(s) \/ DetachedStops(s) \/ ExitStopsAudio(s) \/ CloseStops(s) \/ AdapterExits(s)
  PROVE  Controlled'
<1>0. state \in StateType /\ runtime \in [Session -> RuntimeState] /\ OneOpenSession /\ runtime[s] \in RuntimeState
  BY TypeParts DEF IInv, LogType, ProcessType
<1>N. MatchesNow(s)
  BY ControlledParts
<1>1. /\ lifecycle' = lifecycle /\ mutation' = mutation
      /\ endAt' \in {endAt, "idle", "drained"} /\ (endAt = "idle" => endAt' = "idle")
      /\ \A t \in Session : t \in erred => t \in erred'
  BY DEF DrainRuntime, DetachedStops, ExitStopsAudio, CloseStops, AdapterExits, Idle, endVars
<1>2. /\ state' = state
      /\ \A t \in Session : t # s => runtime'[t].at = runtime[t].at
      /\ QueueFree /\ Up
      /\ \/ runtime'[s].at = "none" /\ state.phase[s] = "stopping"
         \/ runtime'[s].at = "none" /\ runtime[s].at = "detached"
         \/ runtime'[s].at = "none" /\ (lifecycle = "closing" \/ s \in erred')
         \/ runtime'[s].at = "exited" /\ runtime[s].at = "exiting"
         \/ runtime'[s].at = "exiting" /\ runtime[s].at = "attached"
  <2>1. CASE DrainRuntime(s)
    <3>1. [runtime[s] EXCEPT !.at = "none", !.timer = "off"] \in RuntimeState
      BY <1>0 DEF RuntimeState
    <3>2. /\ state' = state /\ runtime'[s].at = "none"
          /\ \A t \in Session : t # s => runtime'[t].at = runtime[t].at
      BY <1>0, <2>1, <3>1, StopsEffect DEF DrainRuntime, RuntimeState
    <3>3. state.phase[s] = "stopping"
      BY <1>0, <2>1, EndingStops DEF DrainRuntime
    <3> QED
      BY <2>1, <3>2, <3>3 DEF DrainRuntime
  <2>2. CASE DetachedStops(s)
    <3>1. [runtime[s] EXCEPT !.at = "none"] \in RuntimeState
      BY <1>0 DEF RuntimeState
    <3>2. /\ state' = state /\ runtime'[s].at = "none"
          /\ \A t \in Session : t # s => runtime'[t].at = runtime[t].at
      BY <1>0, <2>2, <3>1, StopsEffect DEF DetachedStops, RuntimeState
    <3> QED
      BY <2>2, <3>2 DEF DetachedStops
  <2>3. CASE ExitStopsAudio(s)
    <3> DEFINE a == IF lifecycle = "closing" \/ runtime[s].failed THEN "none" ELSE "exited"
    <3>1. [runtime[s] EXCEPT !.at = a, !.failed = FALSE] \in RuntimeState
      BY <1>0 DEF RuntimeState
    <3>2. StopsAudio(s, [runtime[s] EXCEPT !.at = a, !.failed = FALSE])
      BY <2>3 DEF ExitStopsAudio
    <3>3. [runtime[s] EXCEPT !.at = a, !.failed = FALSE].at = a
      BY <1>0 DEF RuntimeState
    <3> HIDE DEF a
    <3>4. /\ state' = state /\ runtime'[s].at = a
          /\ \A t \in Session : t # s => runtime'[t].at = runtime[t].at
      BY <1>0, <3>1, <3>2, <3>3, StopsEffect
    <3> QED
      BY <2>3, <3>4 DEF ExitStopsAudio, a
  <2>4. CASE CloseStops(s)
    <3>1. [runtime[s] EXCEPT !.at = "none", !.timer = "off"] \in RuntimeState
      BY <1>0 DEF RuntimeState
    <3>2. /\ state' = state /\ runtime'[s].at = "none"
          /\ \A t \in Session : t # s => runtime'[t].at = runtime[t].at
      BY <1>0, <2>4, <3>1, StopsEffect DEF CloseStops, RuntimeState
    <3> QED
      BY <2>4, <3>2 DEF CloseStops, Up
  <2>5. CASE AdapterExits(s)
    <3>1. /\ state' = state /\ runtime'[s].at = "exiting"
          /\ \A t \in Session : t # s => runtime'[t].at = runtime[t].at
      BY <1>0, <2>5 DEF AdapterExits, RuntimeState, NoAppend
    <3> QED
      BY <2>5, <3>1 DEF AdapterExits
  <2> QED
    BY <2>1, <2>2, <2>3, <2>4, <2>5
<1>3. About(s)
  BY <1>1, <1>2 DEF About
<1>4. MatchesNow(s)'
  BY <1>N, <1>1, <1>2 DEF MatchesNow, Matches, QueueFree, Up
<1>5. \A t \in Session : MatchesNow(t)'
  BY <1>1, <1>3, <1>4, OthersMatch
<1>6. EndMatches'
  BY <1>1, <1>2, ControlledParts DEF EndMatches, Up
<1> QED
  BY <1>5, <1>6 DEF Controlled, EndMatches, MatchesNow

\* The exit of a captioner that was live is recorded as the failure of its source.
LEMMA RecordedStep ==
  ASSUME IInv, Sources, Controlled, NEW s \in Session, ExitRecorded(s)
  PROVE  Controlled'
<1>0. state \in StateType /\ runtime \in [Session -> RuntimeState] /\ OneOpenSession /\ runtime[s] \in RuntimeState
  BY TypeParts DEF IInv, LogType, ProcessType
<1>N. MatchesNow(s)
  BY ControlledParts
<1>1. /\ lifecycle' = lifecycle /\ mutation' = mutation /\ endAt' = endAt /\ erred' = erred
      /\ QueueFree /\ Up /\ runtime[s].at = "exited"
  BY DEF ExitRecorded, Idle, endVars
<1>2. runtime'[s].at = "none" /\ \A t \in Session : t # s => runtime'[t].at = runtime[t].at
  BY <1>0 DEF ExitRecorded, RuntimeState
<1>3. /\ state'.phase = state.phase /\ state'.mode = state.mode
      /\ \A t \in Session : t # s => state'.status[t] = state.status[t]
      /\ state.phase[s] = "open" => ~LiveIn(state'.status[s])
  <2>1. CASE ~ExitMarks(s)
    BY <2>1 DEF ExitRecorded, ExitMarks, NoAppend
  <2>2. CASE ExitMarks(s)
    <3>1. PICK k \in CaptureKind : state.status[s][k] # "none" /\ AppendEvent(Changed(s, k, "failed"))
      BY <2>2 DEF ExitRecorded
    <3>2. state.status[s][k] \in LiveStatus
      BY <1>1, <2>2, <3>1, ExitedSource DEF ExitMarks
    <3>3. "failed" \in LiveStatus \cup {"failed"} /\ "failed" \notin LiveStatus
      BY DEF LiveStatus
    <3> QED
      BY <1>0, <3>1, <3>2, <3>3, SourceEffect
  <2> QED
    BY <2>1, <2>2
<1>4. About(s)
  BY <1>1, <1>2, <1>3 DEF About
<1>5. MatchesNow(s)'
  BY <1>N, <1>1, <1>2, <1>3 DEF MatchesNow, Matches, QueueFree, Up
<1>6. \A t \in Session : MatchesNow(t)'
  BY <1>1, <1>4, <1>5, OthersMatch
<1>7. EndMatches'
  BY <1>1, <1>3, ControlledParts DEF EndMatches
<1> QED
  BY <1>6, <1>7 DEF Controlled, EndMatches, MatchesNow

\* The steps of a session that starts.
LEMMA StartingStep ==
  ASSUME IInv, Sources, Controlled, NEW s \in Session,
         \/ \E m \in Mode : StartSession(s, m)
         \/ \E k \in CaptureKind : AttachCaptionSource(s, k)
         \/ AttachMic(s)
  PROVE  Controlled'
<1>0. /\ state \in StateType /\ runtime \in [Session -> RuntimeState] /\ OneOpenSession
      /\ CaptureKind \subseteq Kind /\ "browser-mic" \in Kind /\ "browser-mic" \notin CaptureKind
      /\ "starting" \in CaptureStatus /\ "available" \in CaptureStatus /\ "starting" \in LiveStatus
      /\ "none" \notin LiveStatus
  BY TypeParts DEF IInv, LogType, ProcessType, Kind, CaptureKind, CaptureStatus, LiveStatus
<1>N. MatchesNow(s)
  BY ControlledParts
<1>P. \A k \in CaptureKind : state.status[s][k] # "none" => state.mode[s] = "captions"
  BY DEF Sources
<1>1. /\ lifecycle' = lifecycle /\ endAt' = endAt /\ \A t \in Session : t # s => (t \in erred => t \in erred')
      /\ Up /\ mutation \in {"none", "attach-caption", "attach-mic"}
  BY DEF StartSession, AttachCaptionSource, AttachMic, endVars, Up, QueueFree
<1>2. \A t \in Session : t # s => ~IsOpen(t)
  BY <1>0 DEF StartSession, AttachCaptionSource, AttachMic, OneOpenSession, IsOpen, MayStart
<1>3. ASSUME NEW m \in Mode, StartSession(s, m) PROVE Controlled'
  <2>1. /\ state'.phase = [state.phase EXCEPT ![s] = "open"]
        /\ state'.mode = [state.mode EXCEPT ![s] = m]
        /\ state'.status = state.status
        /\ state.phase \in [Session -> Phase] /\ state.mode \in [Session -> Mode \cup {"none"}]
    BY <1>0, <1>3, StartEffect DEF StartSession
  <2>2. /\ runtime' = runtime /\ mutation' = IF m = "captions" THEN "attach-caption" ELSE "attach-mic"
        /\ state.phase[s] = "none" /\ lifecycle = "ready"
    BY <1>3 DEF StartSession
  <2>3. (\A k \in Kind : state.status[s][k] = "none") /\ runtime[s].at = "none"
    BY <1>N, <2>2 DEF MatchesNow, Matches, Sources
  <2>4. MatchesNow(s)'
    <3>1. ~LiveIn(state.status[s])
      BY <1>0, <2>3 DEF LiveIn
    <3> QED
      BY <1>0, <1>1, <2>1, <2>2, <2>3, <3>1 DEF MatchesNow, Matches, Mode
  <2>5. About(s)
    BY <1>1, <2>1, <2>2 DEF About
  <2>6. \A t \in Session : MatchesNow(t)'
    BY <1>1, <1>2, <2>4, <2>5, OthersMatch
  <2>7. EndMatches'
    BY <1>1, <1>2, <2>1, <2>2, ControlledParts DEF EndMatches, IsOpen
  <2> QED
    BY <2>6, <2>7 DEF Controlled, EndMatches, MatchesNow
<1>4. ASSUME NEW k \in CaptureKind, AttachCaptionSource(s, k) PROVE Controlled'
  <2>1. /\ state'.phase = state.phase /\ state'.mode = state.mode
        /\ \A t \in Session : t # s => state'.status[t] = state.status[t]
        /\ state'.status[s] = [state.status[s] EXCEPT ![k] = "starting"]
        /\ state.status[s] \in [Kind -> CaptureStatus \cup {"none"}]
    BY <1>0, <1>4, StatusEffect DEF AttachCaptionSource
  <2>2. /\ runtime' = runtime /\ mutation' = "attach-mic" /\ mutation = "attach-caption" /\ state.phase[s] = "open"
        /\ erred' = erred
    BY <1>4 DEF AttachCaptionSource
  <2>3. (\A j \in Kind : state.status[s][j] = "none") /\ runtime[s].at = "none" /\ state.mode[s] = "captions"
    BY <1>N, <2>2 DEF MatchesNow, Matches
  <2>4. LiveIn(state'.status[s]) /\ state'.status[s]["browser-mic"] = "none"
    BY <1>0, <2>1, <2>3 DEF LiveIn
  <2>5. MatchesNow(s)'
    BY <1>0, <1>1, <2>1, <2>2, <2>3, <2>4 DEF MatchesNow, Matches
  <2>6. About(s)
    BY <1>1, <2>1, <2>2 DEF About
  <2>7. \A t \in Session : MatchesNow(t)'
    BY <1>1, <1>2, <2>5, <2>6, OthersMatch
  <2>8. EndMatches'
    BY <1>1, <2>1, <2>2, ControlledParts DEF EndMatches, Up
  <2> QED
    BY <2>7, <2>8 DEF Controlled, EndMatches, MatchesNow
<1>5. CASE AttachMic(s)
  <2>1. /\ state'.phase = state.phase /\ state'.mode = state.mode
        /\ \A t \in Session : t # s => state'.status[t] = state.status[t]
        /\ state'.status[s] = [state.status[s] EXCEPT !["browser-mic"] = "available"]
        /\ state.status[s] \in [Kind -> CaptureStatus \cup {"none"}]
    BY <1>0, <1>5, StatusEffect DEF AttachMic
  <2>2. /\ mutation' = "none" /\ mutation = "attach-mic" /\ state.phase[s] = "open" /\ erred' = erred
        /\ runtime' = IF state.mode[s] = "captions" THEN [runtime EXCEPT ![s] = StartedRuntime] ELSE runtime
    BY <1>5 DEF AttachMic
  <2>3. runtime[s].at = "none" /\ (state.mode[s] = "captions" => LiveIn(state.status[s]))
    BY <1>N, <2>2 DEF MatchesNow, Matches
  <2>4. LiveIn(state'.status[s]) <=> LiveIn(state.status[s])
    BY <1>0, <2>1 DEF LiveIn
  <2>5. /\ \A t \in Session : t # s => runtime'[t].at = runtime[t].at
        /\ runtime'[s].at = IF state.mode[s] = "captions" THEN "attached" ELSE "none"
    BY <1>0, <2>2, <2>3 DEF StartedRuntime, NoRuntime
  <2>6. state.mode[s] # "captions" => ~LiveIn(state.status[s])
    BY <1>0, <1>P DEF LiveIn
  <2>7. MatchesNow(s)'
    BY <1>1, <2>1, <2>2, <2>3, <2>4, <2>5, <2>6 DEF MatchesNow, Matches, Up
  <2>8. About(s)
    BY <1>1, <2>1, <2>2, <2>5 DEF About
  <2>9. \A t \in Session : MatchesNow(t)'
    BY <1>1, <1>2, <2>7, <2>8, OthersMatch
  <2>10. EndMatches'
    BY <1>1, <2>1, <2>2, ControlledParts DEF EndMatches, Up
  <2> QED
    BY <2>9, <2>10 DEF Controlled, EndMatches, MatchesNow
<1> QED
  BY <1>3, <1>4, <1>5

\* The steps of a session that is stopped and ended.
LEMMA EndingStep ==
  ASSUME IInv, Sources, Controlled, NEW s \in Session,
         FinishEnd(s) \/ \E t \in Tail : RequestStop(s, t)
  PROVE  Controlled'
<1>0. state \in StateType /\ OneOpenSession
  BY TypeParts DEF IInv, LogType
<1>N. MatchesNow(s)
  BY ControlledParts
<1>1. /\ lifecycle' = lifecycle /\ mutation' = mutation /\ runtime' = runtime /\ erred' = erred
      /\ Up /\ QueueFree /\ IsOpen(s)
  BY DEF FinishEnd, RequestStop, Up
<1>2. \/ NoAppend /\ (endAt' = "idle" \/ state.phase[s] = "stopping")
      \/ AppendEvent(Ended(s)) /\ endAt' = "idle"
      \/ \E t \in Tail : AppendEvent(StopRequested(s, t))
  BY <1>1 DEF FinishEnd, RequestStop, NewRequest, IsOpen
<1>3. /\ state'.mode = state.mode /\ \A t \in Session : t # s => state'.status[t] = state.status[t]
      /\ \A t \in Session : t # s => state'.phase[t] = state.phase[t]
      /\ state'.phase[s] = "ended" \/ state'.status[s] = state.status[s]
      /\ state'.phase[s] \in {"open", "stopping", "ended"}
      /\ state'.phase[s] = "open" => state.phase[s] = "open"
      /\ endAt' = "idle" \/ state'.phase[s] = "stopping"
  <2>1. CASE NoAppend /\ (endAt' = "idle" \/ state.phase[s] = "stopping")
    BY <1>1, <2>1 DEF NoAppend, IsOpen
  <2>2. CASE AppendEvent(Ended(s)) /\ endAt' = "idle"
    BY <1>0, <2>2, EndEffect
  <2>3. ASSUME NEW t \in Tail, AppendEvent(StopRequested(s, t)) PROVE <1>3!:
    BY <1>0, <2>3, StopEffect
  <2> QED
    BY <1>2, <2>1, <2>2, <2>3
<1>4. About(s)
  BY <1>1, <1>3 DEF About
<1>5. MatchesNow(s)'
  BY <1>N, <1>1, <1>3 DEF MatchesNow, Matches, QueueFree, Up, IsOpen
<1>6. \A t \in Session : MatchesNow(t)'
  BY <1>1, <1>4, <1>5, OthersMatch
<1>7. EndMatches'
  BY <1>1, <1>3, ControlledParts DEF EndMatches, Up
<1> QED
  BY <1>6, <1>7 DEF Controlled, EndMatches, MatchesNow

\* The steps of the process.
LEMMA ProcessMatches ==
  ASSUME IInv, Controlled, Start \/ Crash \/ Close \/ CloseDone \/ StartSessionFails
  PROVE  Controlled'
<1>0. \A s \in Session : MatchesNow(s)
  BY ControlledParts
<1>1. state' = state
  BY DEF Start, Crash, Close, CloseDone, StartSessionFails, NoAppend
<1>2. CASE Crash \/ CloseDone
  <2>1. lifecycle' = "down" /\ Forget
    BY <1>2 DEF Crash, CloseDone
  <2>2. ASSUME NEW s \in Session PROVE MatchesNow(s)'
    <3>1. runtime'[s].at = "none" /\ mutation' = "none"
      BY <2>1 DEF Forget, NoRuntime
    <3>2. MatchesNow(s)
      BY <1>0
    <3> QED
      BY <1>1, <2>1, <3>1, <3>2 DEF MatchesNow, Matches
  <2>3. EndMatches'
    BY <2>1 DEF EndMatches, Forget
  <2> QED
    BY <2>2, <2>3 DEF Controlled, EndMatches, MatchesNow
<1>3. CASE Start
  <2>1. /\ lifecycle = "down" /\ lifecycle' = "initializing" /\ mutation' = mutation /\ runtime' = runtime
        /\ endAt' = endAt /\ erred' = erred
    BY <1>3 DEF Start, endVars
  <2>2. ASSUME NEW s \in Session PROVE MatchesNow(s)'
    BY <1>0, <1>1, <2>1 DEF MatchesNow, Matches
  <2>3. EndMatches'
    BY <1>1, <2>1, ControlledParts DEF EndMatches
  <2> QED
    BY <2>2, <2>3 DEF Controlled, EndMatches, MatchesNow
<1>4. CASE Close \/ StartSessionFails
  <2>1. /\ lifecycle' \in {lifecycle, "closing"} /\ Up /\ runtime' = runtime /\ mutation' \in {mutation, "none"}
        /\ endAt' = endAt /\ erred' = erred
    BY <1>4 DEF Close, StartSessionFails, Up, endVars
  <2>2. ASSUME NEW s \in Session PROVE MatchesNow(s)'
    BY <1>0, <1>1, <1>4, <2>1 DEF MatchesNow, Matches, Up, Close, StartSessionFails
  <2>3. EndMatches'
    BY <1>1, <2>1, ControlledParts DEF EndMatches, Up
  <2> QED
    BY <2>2, <2>3 DEF Controlled, EndMatches, MatchesNow
<1> QED
  BY <1>2, <1>3, <1>4

\* The steps of the recovery: no captioner runs yet.
LEMMA RecoveryStep ==
  ASSUME IInv, Sources, Controlled, NEW s \in Session,
         \/ RecoverEnd(s) \/ RecoverStop(s) \/ RecoverStopped(s)
         \/ \E k \in CaptureKind : RecoverAdapter(s, k) \/ RecoverInterrupted(s, k)
  PROVE  Controlled'
<1>0. /\ state \in StateType /\ runtime \in [Session -> RuntimeState] /\ OneOpenSession
      /\ CaptureKind \subseteq Kind /\ "failed" \in CaptureStatus /\ "not-recording" \in Tail
      /\ "failed" \in LiveStatus \cup {"failed"} /\ "failed" \notin LiveStatus
  BY TypeParts DEF IInv, LogType, ProcessType, Kind, CaptureStatus, Tail, LiveStatus
<1>N. MatchesNow(s) /\ EndMatches
  BY ControlledParts
<1>1. /\ endAt' = endAt /\ erred' = erred /\ IsOpen(s) /\ lifecycle = "initializing"
      /\ lifecycle' \in {lifecycle, "ready"} /\ mutation' \in {mutation, "none", "recover-end"}
  BY DEF RecoverEnd, RecoverStop, RecoverStopped, RecoverAdapter, RecoverInterrupted, Recovers, Recovering, endVars,
     MustEnd, NeverCaptured, Resumable, Interrupted, IsOpen
<1>2. /\ endAt = "idle" /\ mutation \in {"none", "recover-end"} /\ runtime[s].at = "none"
      /\ \A t \in Session : t # s => ~IsOpen(t)
  BY <1>0, <1>N, <1>1 DEF EndMatches, MatchesNow, Matches, OneOpenSession
<1>3. /\ state'.mode = state.mode
      /\ \A t \in Session : t # s => state'.phase[t] = state.phase[t] /\ state'.status[t] = state.status[t]
      /\ state'.phase[s] # "none"
      /\ \A t \in Session : t # s => runtime'[t].at = runtime[t].at
      /\ \/ runtime'[s].at = "none" /\ state'.phase[s] # "open"
         \/ runtime'[s].at = "none" /\ ~LiveIn(state'.status[s])
         \/ runtime'[s].at = "attached" /\ LiveIn(state'.status[s]) /\ lifecycle' = "ready"
  <2>1. CASE RecoverEnd(s) \/ RecoverStopped(s)
    <3>1. AppendEvent(Ended(s)) /\ runtime' = runtime
      BY <2>1 DEF RecoverEnd, RecoverStopped, Recovers
    <3> QED
      BY <1>0, <1>2, <3>1, EndEffect
  <2>2. CASE RecoverStop(s)
    <3>1. AppendEvent(StopRequested(s, "not-recording")) /\ runtime' = runtime
      BY <2>2 DEF RecoverStop
    <3> QED
      BY <1>0, <1>2, <3>1, StopEffect
  <2>3. ASSUME NEW k \in CaptureKind, RecoverInterrupted(s, k) PROVE <1>3!:
    <3>1. AppendEvent(Changed(s, k, "failed")) /\ runtime' = runtime /\ state.phase[s] = "stopping"
      BY <2>3 DEF RecoverInterrupted, Recovers, Interrupted
    <3> QED
      BY <1>0, <1>2, <3>1, StatusEffect
  <2>4. ASSUME NEW k \in CaptureKind, RecoverAdapter(s, k) PROVE <1>3!:
    <3>1. /\ state.status[s][k] \in LiveStatus /\ state.phase[s] = "open" /\ lifecycle' = "ready"
          /\ \/ runtime' = [runtime EXCEPT ![s] = StartedRuntime] /\ NoAppend
             \/ AppendEvent(Changed(s, k, "failed")) /\ runtime' = runtime
      BY <2>4 DEF RecoverAdapter, CaptionStatus, LiveStatus, Resumable
    <3>2. CASE runtime' = [runtime EXCEPT ![s] = StartedRuntime] /\ NoAppend
      BY <1>0, <3>1, <3>2 DEF StartedRuntime, NoRuntime, NoAppend, LiveIn
    <3>3. CASE AppendEvent(Changed(s, k, "failed")) /\ runtime' = runtime
      BY <1>0, <1>2, <3>1, <3>3, SourceEffect
    <3> QED
      BY <3>1, <3>2, <3>3
  <2> QED
    BY <2>1, <2>2, <2>3, <2>4
<1>4. About(s)
  BY <1>1, <1>3 DEF About
<1>5. MatchesNow(s)'
  BY <1>1, <1>2, <1>3 DEF MatchesNow, Matches
<1>6. \A t \in Session : MatchesNow(t)'
  BY <1>1, <1>2, <1>4, <1>5, OthersMatch
<1>7. EndMatches'
  BY <1>1, <1>2 DEF EndMatches
<1> QED
  BY <1>6, <1>7 DEF Controlled, EndMatches, MatchesNow

LEMMA NothingToRecover ==
  ASSUME IInv, Sources, Controlled, RecoverNothing
  PROVE  Controlled'
<1>1. /\ state' = state /\ lifecycle' = "ready" /\ lifecycle = "initializing" /\ mutation' = mutation
      /\ runtime' = runtime /\ endAt' = endAt /\ erred' = erred
      /\ \A s \in Session : \A k \in CaptureKind : ~Resumable(s, k)
  BY DEF RecoverNothing, Recovers, Recovering, NoAppend, endVars, Kind
<1>2. EndMatches /\ \A s \in Session : MatchesNow(s)
  BY ControlledParts
<1>3. ASSUME NEW s \in Session PROVE MatchesNow(s)'
  <2>1. runtime[s].at = "none" /\ mutation \in {"none", "recover-end"}
    BY <1>1, <1>2 DEF MatchesNow, Matches, EndMatches
  <2>2. state.phase[s] = "open" => ~LiveIn(state.status[s])
    BY <1>1 DEF Resumable, CaptionStatus, LiveIn, LiveStatus, Sources
  <2> QED
    BY <1>1, <2>1, <2>2 DEF MatchesNow, Matches
<1>4. EndMatches'
  BY <1>1, <1>2 DEF EndMatches
<1> QED
  BY <1>3, <1>4 DEF Controlled, EndMatches, MatchesNow

LEMMA ControlledStep ==
  ASSUME IInv, Sources, Controlled, Next
  PROVE  Controlled'
<1>1. CASE Requests
  <2>1. CASE \E s \in Session : MicChunk(s)
    BY <2>1, CalmRest, CalmStep
  <2> QED
    BY <1>1, <2>1, StartingStep, EndingStep, StoppedStep, ProcessMatches DEF Requests
<1>2. CASE Callbacks
  <2>1. CASE \E s \in Session : \E k \in Kind : Caption(s, k)
    BY <2>1, CalmRest, CalmStep
  <2> QED
    BY <1>2, <2>1, CalmCallbacks, CalmStep, FailedStep, StoppedStep, RecordedStep DEF Callbacks
<1>3. CASE Process
  <2>1. CASE \E s \in Session : \E k \in Kind : RecoverInterrupted(s, k)
    <3>1. PICK s \in Session, k \in Kind : RecoverInterrupted(s, k)
      BY <2>1
    <3>2. CASE k = "browser-mic"
      BY <3>1, <3>2, CalmRest, CalmStep
    <3>3. CASE k \in CaptureKind
      BY <3>1, <3>3, RecoveryStep
    <3> QED
      BY <3>2, <3>3 DEF Kind
  <2>2. CASE \E s \in Session : \E k \in CaptureKind : RecoverSource(s, k)
    BY <2>2, CalmRest, CalmStep
  <2> QED
    BY <1>3, <2>1, <2>2, ProcessMatches, RecoveryStep, StoppedStep, NothingToRecover DEF Process
<1> QED
  BY <1>1, <1>2, <1>3 DEF Next

-----------------------------------------------------------------------------
\* The invariant behind the theorems that follow.
SourceInv == IInv /\ Sources /\ Mirrors /\ Controlled /\ OtherEventsAccepted

LEMMA SourceInvariant == Spec => []SourceInv
<1>1. Init => SourceInv
  <2> SUFFICES ASSUME Init PROVE SourceInv
    OBVIOUS
  <2>0. IInv
    BY Initially
  <2>1. Sources /\ Controlled
    BY DEF Init, Sources, Controlled, Matches, NoRuntime, Kind, CaptureKind
  <2>2. Mirrors /\ OtherEventsAccepted
    BY DEF Init, Mirrors, OtherEventsAccepted, NothingOwned, CaptureKind, LiveStatus, Kind
  <2> QED
    BY <2>0, <2>1, <2>2 DEF SourceInv
<1>2. ASSUME SourceInv, Next PROVE SourceInv'
  <2>0. IInv' /\ LogType
    BY <1>2, Preserved, TypeParts DEF SourceInv, IInv
  <2>1. Controlled'
    BY <1>2, ControlledStep DEF SourceInv
  <2>2. Sources' /\ Mirrors' /\ OtherEventsAccepted'
    <3>1. CASE NoAppend
      BY <1>2, <3>1 DEF SourceInv, NoAppend, Sources, Mirrors, OtherEventsAccepted, IsOpen
    <3>2. CASE LawfulStep
      BY <1>2, <2>0, <3>2, LawfulWrite DEF SourceInv, LawfulStep
    <3> QED
      BY <1>2, <3>1, <3>2, LawfulWrites DEF SourceInv
  <2> QED
    BY <2>0, <2>1, <2>2 DEF SourceInv
<1>3. SourceInv /\ UNCHANGED vars => SourceInv'
  <2> SUFFICES ASSUME SourceInv, UNCHANGED vars PROVE SourceInv'
    OBVIOUS
  <2>1. IInv'
    BY Unchanged DEF SourceInv
  <2>2. Sources' /\ Controlled'
    BY DEF SourceInv, vars, endVars, Sources, Controlled
  <2>3. Mirrors' /\ OtherEventsAccepted'
    BY DEF SourceInv, vars, endVars, Mirrors, OtherEventsAccepted, IsOpen
  <2> QED
    BY <2>1, <2>2, <2>3 DEF SourceInv
<1> QED
  BY <1>1, <1>2, <1>3, PTL DEF Spec

\* Whatever requests, callbacks, timeouts, exits, crashes and recoveries interleave, the
\* receiver refuses nothing the service writes but the three kinds of event that
\* OtherEventsAccepted names (validateDeviceEventOwnership).
THEOREM OthersAlwaysAccepted == Spec => []OtherEventsAccepted
<1>1. SourceInv => OtherEventsAccepted
  BY DEF SourceInv
<1> QED
  BY <1>1, SourceInvariant, PTL

\* A source of an open session that is starting or recording has its captioner, or the
\* service knows of an error that keeps the session from ending as if nothing had
\* happened (handleCaptionAdapterExit).
THEOREM DeadCaptionerAlwaysKnown == Spec => []DeadCaptionerIsKnown
<1>1. SourceInv => DeadCaptionerIsKnown
  BY DEF SourceInv, Controlled, Matches, DeadCaptionerIsKnown, CaptionStatus, LiveIn, LiveStatus
<1> QED
  BY <1>1, SourceInvariant, PTL

-----------------------------------------------------------------------------
(* Whoever reads the events sees CaptureSession.                           *)

\* A lawful event is a step of it, or a stop that is repeated, a caption or audio.
LEMMA LawfulIsStep ==
  ASSUME state \in StateType, NEW e \in Event, Lawful(e), state' = Reduce(e)
  PROVE  Sessions!Next \/ UNCHANGED Sessions!vars
<1> PICK s : s = e.session
  OBVIOUS
<1>0. /\ s \in Session
      /\ state'.phase = IF e.type = "session.started" THEN [state.phase EXCEPT ![s] = "open"]
                        ELSE IF e.type = "session.stop.requested" THEN [state.phase EXCEPT ![s] = "stopping"]
                        ELSE IF e.type = "session.ended" THEN [state.phase EXCEPT ![s] = "ended"]
                        ELSE state.phase
      /\ state'.mode = IF e.type = "session.started" THEN [state.mode EXCEPT ![s] = e.mode] ELSE state.mode
      /\ state'.status =
           IF e.type = "session.ended" THEN [state.status EXCEPT ![s] = Rested(state.status[s])]
           ELSE IF e.type \in {"source.attached", "source.status.changed"}
           THEN [state.status EXCEPT ![s] = [@ EXCEPT ![e.kind] = e.status]]
           ELSE state.status
  BY Reduced
<1>1. state.phase \in [Session -> Phase] /\ state.status \in [Session -> [Kind -> CaptureStatus \cup {"none"}]]
  BY DEF StateType
<1>2. CASE e.type = "session.started"
  <2>1. e.mode \in {"captions", "recording-only"}
    BY <1>2 DEF Event, Mode
  <2>2. Sessions!Start(s, e.mode)
    BY <1>0, <1>2 DEF Lawful, MayStart, IsOpen, Sessions!Start, Sessions!IsOpen
  <2> QED
    BY <1>0, <2>1, <2>2 DEF Sessions!Next
<1>3. CASE e.type = "session.stop.requested"
  <2>1. /\ state'.phase = [state.phase EXCEPT ![s] = "stopping"]
        /\ state'.mode = state.mode /\ state'.status = state.status
        /\ state.phase[s] \in {"open", "stopping"}
    BY <1>0, <1>3 DEF Lawful, IsOpen
  <2>2. CASE state.phase[s] = "open"
    BY <1>0, <2>1, <2>2 DEF Sessions!Next, Sessions!Stop
  <2>3. CASE state.phase[s] = "stopping"
    <3>1. state'.phase = state.phase
      BY <1>0, <1>1, <2>1, <2>3
    <3> QED
      BY <2>1, <3>1 DEF Sessions!vars
  <2> QED
    BY <2>1, <2>2, <2>3
<1>4. CASE e.type = "session.ended"
  <2>1. /\ state'.phase = [state.phase EXCEPT ![s] = "ended"] /\ state.phase[s] = "stopping"
        /\ state'.mode = state.mode
        /\ state'.status = [state.status EXCEPT ![s] = Rested(state.status[s])]
    BY <1>0, <1>4 DEF Lawful
  <2>2. Sessions!End(s)
    BY <1>0, <1>1, <2>1 DEF Sessions!End, Sessions!Kind, Kind, Rested
  <2> QED
    BY <1>0, <2>2 DEF Sessions!Next
<1>5. CASE e.type \in {"source.attached", "source.status.changed"}
  <2>1. /\ state'.phase = state.phase /\ state'.mode = state.mode /\ e.kind \in Kind
        /\ state'.status = [state.status EXCEPT ![s] = [@ EXCEPT ![e.kind] = e.status]]
    BY <1>0, <1>5 DEF Event
  <2>2. Sessions!Becomes(s, e.kind, e.status)
    BY <1>0, <1>1, <2>1 DEF Sessions!Becomes
  <2>3. CASE e.type = "source.attached" /\ e.kind = "browser-mic"
    <3>1. Sessions!AttachMic(s)
      BY <2>2, <2>3 DEF Lawful, Sessions!AttachMic, LiveIn, LiveStatus, Sessions!Live
    <3> QED
      BY <1>0, <3>1 DEF Sessions!Next
  <2>4. CASE e.type = "source.attached" /\ e.kind # "browser-mic"
    <3>1. e.kind \in CaptureKind /\ Sessions!AttachSource(s, e.kind)
      BY <2>1, <2>2, <2>4 DEF Lawful, Kind, Sessions!AttachSource, Sessions!Kind
    <3> QED
      BY <1>0, <3>1 DEF Sessions!Next
  <2>5. CASE e.type = "source.status.changed" /\ e.kind = "browser-mic"
    <3>1. Sessions!MicFails(s)
      BY <2>2, <2>5 DEF Lawful, Sessions!MicFails
    <3> QED
      BY <1>0, <3>1 DEF Sessions!Next
  <2>6. CASE e.type = "source.status.changed" /\ e.kind # "browser-mic"
    <3>1. /\ e.kind \in CaptureKind /\ e.status \in Sessions!Live \cup {"failed"}
          /\ Sessions!SourceMoves(s, e.kind, e.status)
      BY <2>1, <2>2, <2>6
      DEF Lawful, Kind, IsOpen, LiveStatus, Sessions!SourceMoves, Sessions!IsOpen, Sessions!Live
    <3> QED
      BY <1>0, <3>1 DEF Sessions!Next
  <2> QED
    BY <1>5, <2>3, <2>4, <2>5, <2>6
<1>6. CASE e.type \in {"caption.received", "audio.chunk.saved"}
  BY <1>0, <1>6 DEF Sessions!vars
<1> QED
  BY <1>2, <1>3, <1>4, <1>5, <1>6 DEF Event

\* The service is CaptureSession: every event it writes, from a request, a callback, a
\* timer, an exit handler or a recovery, is the next step of one session, and nothing
\* else it does shows (startSession, endSession, recoverOpenCaptureSessions).
THEOREM ImplementsSession == Spec => ImplementsCaptureSession
<1>1. Init => Sessions!Init
  BY DEF Init, Sessions!Init, Sessions!Kind, Kind
<1>2. ASSUME SourceInv, [Next]_vars PROVE [Sessions!Next]_(Sessions!vars)
  <2>1. CASE UNCHANGED vars
    BY <2>1 DEF vars, Sessions!vars
  <2>2. CASE NoAppend
    BY <2>2 DEF NoAppend, Sessions!vars
  <2>3. CASE LawfulStep
    <3>1. PICK e \in Event : Lawful(e) /\ state' = Reduce(e)
      BY <2>3 DEF LawfulStep, AppendEvent
    <3>2. state \in StateType
      BY <1>2, TypeParts DEF SourceInv, IInv, LogType
    <3> QED
      BY <3>1, <3>2, LawfulIsStep
  <2> QED
    BY <1>2, <2>1, <2>2, <2>3, LawfulWrites DEF SourceInv
<1> QED
  BY <1>1, <1>2, SourceInvariant, PTL DEF Spec, ImplementsCaptureSession, Sessions!Spec

=============================================================================
