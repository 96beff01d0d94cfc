---------------------------- MODULE WasapiSession ----------------------------
(***************************************************************************)
(* One recording of the sound the machine plays: the native helper, the    *)
(* stream that reads its output, and the managed session that hands the    *)
(* segments one at a time to a callback.                                   *)
(*                                                                         *)
(* Segments are numbered in the order the helper sends them.  The          *)
(* callback is not part of this module: CaptionRuntime says what it does   *)
(* and when it ends.                                                       *)
(***************************************************************************)
EXTENDS Naturals, Sequences, FiniteSets

CONSTANTS
  MaxSegments,  \* bound on the segments the helper sends
  MaxQueued,    \* MAX_QUEUED_SEGMENTS
  Backlogs      \* the values of maxCallbackBacklogMs, in segments

ASSUME WasapiAssumption ==
  MaxSegments \in Nat /\ MaxQueued \in Nat \ {0} /\ Backlogs \subseteq Nat \ {0}

VARIABLES
  device,   \* the helper: where it is, and how many segments it has sent
  stream,   \* WindowsWasapiNativeStream
  loop,     \* where captureLoop is
  session,  \* ManagedWindowsWasapiLoopbackSession
  calls     \* its deliveries: waiting (callbackTail), the one raced, the callbacks

wasapi == <<device, stream, loop, session, calls>>

Settled == {"ok", "failed"}

WasapiInit ==
  /\ device = [at |-> "off", sent |-> 0]
  /\ stream = [completed |-> FALSE, closed |-> FALSE, failed |-> FALSE, queued |-> <<>>,
               stop |-> "no"]
  /\ loop = "none"
  /\ \E max \in Backlogs :
       session = [maxBacklog |-> max, stopRequested |-> FALSE, abandoned |-> FALSE,
                  failed |-> FALSE, stop |-> "no"]
  /\ calls = [tail |-> <<>>, broken |-> FALSE, raced |-> 0, active |-> {}, started |-> 0,
              done |-> {}]

-----------------------------------------------------------------------------
(* The helper and the stream.                                              *)

Running == device.at \in {"running", "stopping"}

\* startWindowsWasapiLoopback spawns the helper.
OpenStream == device.at = "off" /\ device' = [device EXCEPT !.at = "starting"]

\* The helper says that it is ready: the factory returns the session.
StreamReady ==
  /\ device.at = "starting" /\ device' = [device EXCEPT !.at = "running"]
  /\ loop' = "created"

\* The start fails, times out or is aborted: the helper is killed.
StreamStartFails ==
  /\ device.at = "starting" /\ device' = [device EXCEPT !.at = "gone"]
  /\ stream' = [stream EXCEPT !.failed = TRUE, !.closed = TRUE]

\* What queuedSegments holds: a segment that resolved a pending read has left it.
Queued == Len(stream.queued) - IF loop = "given" THEN 1 ELSE 0

FailStream(s) == [s EXCEPT !.failed = TRUE]

\* A segment arrives: enqueueSegment.  A stream whose queue is full fails.
DeviceSends ==
  /\ Running /\ ~stream.failed /\ device.sent < MaxSegments
  /\ IF loop = "waiting" \/ Queued < MaxQueued
     THEN /\ stream' = [stream EXCEPT !.queued = Append(@, device.sent + 1)]
          /\ device' = [device EXCEPT !.sent = @ + 1]
          /\ loop' = IF loop = "waiting" THEN "given" ELSE loop
     ELSE /\ stream' = FailStream(stream)
          /\ device' = [at |-> "dying", sent |-> device.sent + 1]
          /\ UNCHANGED loop
  /\ UNCHANGED <<session, calls>>

\* The helper has sent its last segment.  It does so when it is told to stop; that
\* it may complete by itself is kept for a helper that has sent none.
DeviceCompletes ==
  /\ device.at = "stopping" \/ (device.at = "running" /\ device.sent = 0)
  /\ ~stream.failed
  /\ device' = [device EXCEPT !.at = "completed"]
  /\ stream' = [stream EXCEPT !.completed = TRUE]
  /\ UNCHANGED <<loop, session, calls>>

\* The helper reports a failure, writes what cannot be parsed, or exits.
DeviceFails ==
  /\ Running /\ ~stream.failed
  /\ device' = [device EXCEPT !.at = "dying"] /\ stream' = FailStream(stream)
  /\ UNCHANGED <<loop, session, calls>>

\* The exit of a helper that has completed, failed or been killed.
DeviceCloses ==
  /\ device.at \in {"completed", "dying"}
  /\ device' = [device EXCEPT !.at = "gone"]
  /\ \E clean \in {TRUE, FALSE} :
       stream' = [stream EXCEPT !.closed = TRUE,
                                !.failed = @ \/ ~clean \/ device.at # "completed"]
  /\ UNCHANGED <<loop, session, calls>>

\* stopStreamOnce: the helper is told to stop, once.
Told == IF device.at = "running" THEN [device EXCEPT !.at = "stopping"] ELSE device
StopStream(s) == IF s.stop = "no" THEN [s EXCEPT !.stop = "waiting"] ELSE s

StreamStopped == stream.stop = "given up" \/ (stream.stop = "waiting" /\ stream.closed)

StreamStopTimesOut ==
  /\ stream.stop = "waiting" /\ ~stream.closed
  /\ stream' = [FailStream(stream) EXCEPT !.stop = "given up"]
  /\ device' = [device EXCEPT !.at = "dying"]
  /\ UNCHANGED <<loop, session, calls>>

-----------------------------------------------------------------------------
(* The loop that takes segments from the stream.                           *)

ReportFailure(s) == [s EXCEPT !.failed = TRUE]

\* The catch clause of captureLoop.
LoopFails ==
  /\ session' = ReportFailure(session)
  /\ stream' = StopStream(stream) /\ device' = Told
  /\ loop' = "stopping" /\ UNCHANGED calls

\* The timer of startAfterFactoryReturn; stopOnce clears it.
StartLoop ==
  /\ loop = "created" /\ ~session.stopRequested
  /\ loop' = "reading" /\ UNCHANGED <<device, stream, session, calls>>

Backlog == Len(calls.tail) + IF calls.raced = 0 THEN 0 ELSE 1

\* enqueueSegmentDelivery
TakeSegment ==
  IF session.failed \/ Backlog >= session.maxBacklog
  THEN LoopFails
  ELSE /\ calls' = [calls EXCEPT !.tail = Append(@, Head(stream.queued))]
       /\ stream' = [stream EXCEPT !.queued = Tail(@)]
       /\ loop' = "reading" /\ UNCHANGED <<device, session>>

\* readSegment returns null.
NoMoreSegments ==
  IF session.stopRequested
  THEN loop' = "draining" /\ UNCHANGED <<device, stream, session, calls>>
  ELSE LoopFails

\* One call of readSegment, which may have to wait.
LoopReads ==
  /\ loop = "reading"
  /\ IF session.abandoned
     THEN loop' = "draining" /\ UNCHANGED <<device, stream, session, calls>>
     ELSE IF stream.failed THEN LoopFails
     ELSE IF stream.queued # <<>> THEN TakeSegment
     ELSE IF stream.completed \/ stream.closed THEN NoMoreSegments
     ELSE loop' = "waiting" /\ UNCHANGED <<device, stream, session, calls>>

\* The read it waits for settles.
LoopWakes ==
  \/ loop = "given" /\ TakeSegment
  \/ loop = "waiting" /\ stream.failed /\ LoopFails
  \/ loop = "waiting" /\ ~stream.failed /\ (stream.completed \/ stream.closed) /\ NoMoreSegments

LoopStopped ==
  /\ loop = "stopping" /\ StreamStopped
  /\ loop' = "draining" /\ UNCHANGED <<device, stream, session, calls>>

\* callbackTail is settled.
LoopDone ==
  /\ loop = "draining" /\ calls.tail = <<>> /\ calls.raced = 0
  /\ loop' = "done"
  /\ session' = IF calls.broken THEN ReportFailure(session) ELSE session
  /\ UNCHANGED <<device, stream, calls>>

-----------------------------------------------------------------------------
(* The deliveries.                                                         *)

\* A delivery is rejected, and with it all that wait behind it; what the callback
\* has begun goes on.
DeliveryFails(c) ==
  /\ calls' = [c EXCEPT !.tail = <<>>, !.broken = TRUE, !.raced = 0]
  /\ session' = ReportFailure(session)
  /\ stream' = StopStream(stream) /\ device' = Told
  /\ UNCHANGED loop

NextCallAtOnce == calls.tail # <<>>

NextCall == calls.tail # <<>> /\ calls.raced = 0

\* No callback is called once the session has failed.
DeliverNothing == NextCall /\ session.failed /\ DeliveryFails(calls)

\* deliverSegment calls the callback and then looks at the failure signals.
Called ==
  [calls EXCEPT !.tail = Tail(@), !.raced = Head(calls.tail), !.started = @ + 1,
                !.active = @ \cup {Head(calls.tail)}]

MayCall == NextCall /\ ~session.failed

Deliver ==
  /\ MayCall
  /\ IF stream.failed THEN DeliveryFails(Called)
     ELSE calls' = Called /\ UNCHANGED <<device, stream, loop, session>>

\* A failure of the stream or of the session wins the race against the callback.
FailureInterrupts ==
  /\ calls.raced # 0 /\ (session.failed \/ stream.failed)
  /\ DeliveryFails(calls)

\* The callback of segment s is done; if it is still raced, its delivery is.
CallbackEnds(s) ==
  /\ s \in calls.active
  /\ calls' = [calls EXCEPT !.active = @ \ {s}, !.done = @ \cup {s},
                            !.raced = IF @ = s THEN 0 ELSE @]
  /\ UNCHANGED <<device, stream, loop, session>>

CallbackFails(s) ==
  /\ s \in calls.active
  /\ LET c == [calls EXCEPT !.active = @ \ {s}] IN
       IF calls.raced = s THEN DeliveryFails(c)
       ELSE calls' = c /\ UNCHANGED <<device, stream, loop, session>>

-----------------------------------------------------------------------------
(* stop.                                                                   *)

StopRecording ==
  /\ loop # "none" /\ session.stop = "no"
  /\ session' = [session EXCEPT !.stopRequested = TRUE, !.stop = "stream"]
  /\ stream' = StopStream(stream) /\ device' = Told
  /\ loop' = IF loop = "created" THEN "reading" ELSE loop
  /\ UNCHANGED calls

StopStreamSettles ==
  /\ session.stop = "stream" /\ StreamStopped
  /\ session' = [session EXCEPT !.stop = "loop", !.failed = @ \/ stream.failed]
  /\ UNCHANGED <<device, stream, loop, calls>>

StopLoopSettles ==
  /\ session.stop = "loop" /\ loop = "done"
  /\ session' = [session EXCEPT !.stop = IF session.failed THEN "failed" ELSE "ok"]
  /\ UNCHANGED <<device, stream, loop, calls>>

\* callbackDrainTimeoutMs
StopDrainTimesOut ==
  /\ session.stop = "loop" /\ loop # "done"
  /\ session' = [ReportFailure(session) EXCEPT !.abandoned = TRUE, !.stop = "failed"]
  /\ UNCHANGED <<device, stream, loop, calls>>

=============================================================================
