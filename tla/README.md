# Verification of tingyi-lite

TLA+ models of the parts of tingyi-lite that are hard to test, TLC runs that
check them on small instances, and TLAPS proofs. Paths below are relative to
the repository root.

## 1. The system

tingyi-lite records a live session on a Windows machine: audio sources and
captioners feed a local Node service, browser pages and an overlay show its
events, and a cloud receiver gets a copy of every event.

| Part | Code | State it keeps | Operations | Hard behaviour |
|---|---|---|---|---|
| Event store, outbox, sync run | `src/server/app.ts` (`appendEvent`, `reconcileOutbox`, `runSyncOperation`), `src/server/fileEventStore.ts`, `src/core/outbox.ts` | `events.jsonl`, `outbox.jsonl`, the reduced state, the event and outbox mutation queues, the persistence fault, the run in flight | append an event, append/repair its outbox item, claim, push, mark, reconcile at startup, close | failed appends and roll-backs, torn lines, crashes, two writers of one file, lost and late requests |
| Cloud receiver: inbox | `src/cloud/syncReceiver.ts` (`receiveEvent`, `receiveAudioChunk`) | `inbox/events.jsonl`, its index, the audio artifacts and their index | store an event, store a binary, rebuild the indexes | duplicates, gaps, a crash between file and index |
| Cloud receiver: ownership | `src/cloud/syncReceiver.ts` (`validateDeviceEventOwnership`) | derived from the inbox | accept or refuse the next event | it must accept whatever the local service emits |
| Cloud receiver: learning | `src/cloud/syncReceiver.ts`, `src/cloud/learningMaterials.ts` | materials and an audit file | generate, import | two files changed one after the other |
| Session and capture lifecycle | `src/server/app.ts` (`startSession` ... `trackCaptionRuntimeStop`) | sessions, sources, adapters | start, attach, stop request, end, adapter start, failure, timeout, exit, recovery | callbacks racing with a stop, a crash between two events |
| Translation queue | `src/server/app.ts` (`BoundedTaskPool`, `scheduleTranslation`) | pools, scheduled candidates | schedule, drain, change model, enable | a result for a caption that has changed |
| Previews and event streams | `src/server/app.ts`, `src/core/captionPreview.ts`, `src/web/App.tsx` | subscribers, previews, what a page shows | connect, publish, clear, refresh | an answer and the stream overlapping, connections that drop |
| Browser upload queue | `src/web/audioUploadQueue.ts` | IndexedDB sessions and chunks | begin, enqueue, stop, tail, drain, finalize | a reload or a second tab between two writes, a retried upload |
| Local ASR adapter | `src/capture/localAsrProcessAdapter.ts` | requests by id, queue, child process | submit, drain, stop | an answer racing a timeout or an exit |
| External caption adapter | `src/capture/externalCaptionAdapter.ts` | child process, lines in processing | start, line, stop | exit racing a stop, lines processed after both |
| WASAPI session | `src/capture/windowsWasapiLoopback.ts`, `src/server/pcmWavRecorder.ts` | native stream, segments, callbacks | start, chunk, stop | a failure racing a callback, the tail segment |
| Process lifecycle | `src/server/dataRootLock.ts`, `httpRequestBarrier.ts`, `gracefulShutdown.ts` | lock, active requests | acquire, release, close | two processes on one data root |
| Memos publishing | `src/server/app.ts`, `src/server/memosPublisher.ts` | ledger of published sessions | publish, roll back, record | a timeout or a close between two requests, a crash before the ledger |
| Offline tools | `src/tools` (migration, backup, doctor, retention, agent runner and batch), `src/core/dataBackup.ts` | the files of a root, a backup | migrate, back up, restore, inspect, delete, have an agent work | a death between two files, a service on the same root |
| Rendering, configuration, schema validation, native helpers | `src/web`, `src/core`, `native` | none shared | | not modelled, see section 7 |

The parts interact as follows. HTTP handlers and adapter callbacks call
mutations of the session lifecycle; these run one at a time in the event
mutation queue and each event is appended to the store and to the outbox, then
published to the subscribers. A timer starts a sync run, which rewrites the
outbox through the outbox mutation queue and pushes items to the receiver over
HTTP. The browser uploads audio chunks, each of which becomes an event. The
lock order is capture transition, then event mutation, then outbox mutation.

## 2. Modules and how they correspond to the code

| Module | Models | Checked by | Proved in |
|---|---|---|---|
| `ReplicatedLog` | what replication promises: a log that only grows, a replica that is a prefix of it, acknowledgements never ahead of the replica | through `EventSync` | `EventSync_proofs` (`Implements`) |
| `EventSync` | `appendEvent`, `reconcileOutbox`, `initialize`, `close`, `runSyncOperation`, `pushOutboxItem` and the receiver's `receiveEvent` / `receiveAudioChunk` | `MCEventSync.cfg` | `EventSync_proofs` |
| `CloudArchive` | what the receiver promises a device: it stores the events in order, acknowledges what it has, and loses nothing it has acknowledged before that is retired | through `CloudReceiver` | `CloudReceiver_proofs` (`ImplementsArchive`) |
| `CloudOwnership` | `validateDeviceEventOwnership`: which event of a device may follow which, as operators on what the receiver has derived from its inbox | through `SessionLifecycle` | through `SessionLifecycle_proofs` |
| `CaptureSession` | what the events of the service promise about a session: one is open at a time, its sources come in order, one that failed stays failed, what has ended rests | through `SessionLifecycle` | `SessionLifecycle_proofs` (`ImplementsSession`) |
| `SessionLifecycle` | the sessions, sources and captioners of `app.ts`: start, stop, end, uploads, captions, callbacks, timer, exits, close, crash, recovery; every event is offered to `CloudOwnership` | `MCSessionLifecycle.cfg`, `MCSessionLifecycle_live.cfg`, `MCSession_StatusChangesAccepted.cfg` | `SessionLifecycle_proofs` |
| `UploadQueue` | the `AudioUploadCoordinator` of the browser, its IndexedDB store, the pages that share it, the upload and the end of a session on the service | `MCUploadQueue.cfg`, `MCUploadQueue_pages.cfg`, `MCUploadQueue_live.cfg` | `UploadQueue_proofs` |
| `TranslationPool` | `scheduleTranslation`, the `BoundedTaskPool`, the settings that change under its tasks, the drains of the end and of the close | `MCTranslationPool.cfg` | `TranslationPool_proofs` |
| `CloudReceiver` | the files of the receiver: inbox and index, audio artifacts and index, learning materials and audit; the retention tool, the agent runner and its batch, the doctor | `MCCloudReceiver.cfg` | `CloudReceiver_proofs` |
| `WasapiSession` | `windowsWasapiLoopback.ts`: the helper, its stream, the loop that takes segments, their deliveries, `stop` | through `CaptionRuntime` | through `CaptionRuntime_proofs` |
| `LocalAsrAdapter` | `localAsrProcessAdapter.ts`: requests, answers, timeouts, exit, the stop that drains | through `CaptionRuntime` | through `CaptionRuntime_proofs` |
| `ExternalCaptionAdapter` | `externalCaptionAdapter.ts`: lines, exit, the stop that flushes and kills | through `CaptionRuntime` | through `CaptionRuntime_proofs` |
| `CaptionRuntime` | the composition of the three with the callbacks of `app.ts`, `PcmWavRecorder`, and the three ways to stop | `MCCaptionRuntime.cfg` | `CaptionRuntime_proofs` |
| `AppLifecycle` | the lock of the data root, the start, the request barrier and `close` of the processes that share a root | through `Service` | through `Service_proofs` |
| `MemosPublish` | settings, attempts, rollback and ledger of the publications to Memos | through `Service` | through `Service_proofs` |
| `LiveStream` | events and previews of a service, the event stream, the page that follows it | through `Service` | through `Service_proofs`, `ServicePage_proofs` |
| `DataTools` | migration, backup, restore and doctor on a data root | through `Service` | through `Service_proofs` |
| `Service` | the composition of the last four: processes that start, crash and close while one kind of work goes on | `MCService.cfg`, `MCService_orphans.cfg` | `Service_proofs`, `ServicePage_proofs` |

`MC<module>` gives TLC the sets of an instance; `CaptionRuntime` needs none and
is checked as it is. `<module>_proofs` holds the inductive invariants and the
theorems.

### EventSync

State. `events`/`eventsTail` and `outbox`/`outboxTail` are the two files: their
complete lines, and whether a partial line follows them. `eventLog` is the
state the running service has reduced (`LiteServerApp.state`), and
`persistenceFault` the latched fault of the same name. `writeAt` and `draft`
are the mutation at the head of `eventMutationQueue`; the queue runs one at a
time, so one control point is enough. `syncAt`, `maxCursor`, `claimed` and
`wire` are the local variables of the `runSyncOperation` in flight (`syncRun`
admits one), with `wire` standing for the `fetch` it awaits. `late` holds
requests whose client has gone away: an aborted or timed-out `fetch`, or a
process that died, does not recall what is already in the network. `inbox` and
`artifacts` are the receiver's files.

Actions. A step is what the code does between two `await`s that matter:

| Action | Code |
|---|---|
| `BeginMutation` | `queueEventMutation` admits a mutation, `buildEvent` numbers the event |
| `AppendEvent`, `AppendEventFails`, `AppendEventRollbackFails` | `appendJsonLine` and its truncating roll-back; `EventAppendRollbackError` latches the fault |
| `AppendOutbox`, `AppendOutboxFails`, `RepairOutbox`, `RepairOutboxFails` | the outbox half of `appendEvent`, and the online `reconcileOutbox` it falls back to |
| `StartRun`, `Claim`, `FinishRun`, `ClaimFails` | `runSyncOperation`: the snapshot, the claiming of the next item, the end of the run |
| `SendBinary`, `MarkSynced`, `MarkSyncedFails`, `MarkFailed`, `MarkFailedFails` | `pushOutboxItem` and the status updates around it |
| `HandleRequest`, `RequestFails`, `HandleLateRequest` | the receiver, and the network |
| `Start`, `Close`, `CloseDone`, `Crash`, `RepairStorage` | `initialize`, `close`/`closeReadyApp`, the death of the process, the operator |

Abstractions. An event is its cursor and a payload; identifiers, hashes and
timestamps are functions of the two here, so "same hash" is equality. `StartRun`
does the fault check and the snapshot of `maxCursor` together: nothing that
happens between them changes what the snapshot bounds. The events that
`recoverOpenCaptureSessions` writes while `initialize` still runs are ordinary
mutations, begun after `Start`. The receiver answers a request in one step; a
receiver that stops between its inbox and its index is the subject of
`CloudReceiver`. A failed append that leaves a complete line without its
newline is the exception: the model's `torn` line can never be read, whereas the
code would accept that one and join the next to it (see the hazards).

### SessionLifecycle and CloudOwnership

State. `state` is the part of `LiteServerApp.state` the behaviour depends on:
per session its phase (`startedAt`, `stopRequestedAt`, `endedAt`), capture mode
and `stopTailDisposition`, and per source its status. A session has at most one
source of a kind, so `<<session, kind>>` names it. `runtime[s]` is the
`CaptionAdapterRuntime` of the session together with its recorder: who owns it
(`captionAdapters`, the background stop of a failed one, the exit handler), the
startup timer, the loopback recording, whether audio is buffered, and whether a
callback has rejected. The timer is `armed`, `off`, or `presumed`: off because a
preview was taken for the start, with no word since that the helper is ready or
reconnecting. The code does not tell the last two apart; `StartingResolves` does. `mutation` is the rest of an event mutation that appends
several events, `endAt`/`endTail` the `endSession` in flight, `erred` is
`captionProcessingErrors`. `cloud` is what the receiver has derived from the
events it accepted, `refused` the first event it refuses. Because the outbox is
delivered in order, that event blocks every later one of the device
(`EventSync`), so no later event is offered. Who reads the events, the overlay
or the receiver, may rely on `CaptureSession` (`Sessions`), which has only
the phases, the modes and the statuses. It says more than the receiver's rules:
`SOURCE_STATUS_TRANSITIONS` lets a source that has failed start again, the
service never does that.

Actions.

| Actions | Code |
|---|---|
| `StartSession`, `AttachCaptionSource`, `AttachMic`, `StartSessionFails` | `startSessionUnlocked`: three appends of one mutation, any of which may fail or be the last before a crash |
| `HelperReady`, `Reconnecting`, `Preview`, `LoopbackStarted`, `LoopbackFails`, `Segment`, `CaptionRejected`, `RuntimeFails`, `StartupTimeout` | the callbacks of `startSystemCaptionAdapter`, `startSystemCaptionRecording` and `startLocalAsrCaptionAdapter`, and the timer |
| `Caption`, `MicChunk` | `receiveCaption`, `saveAudioChunk` |
| `AdapterExits`, `ExitStopsAudio`, `ExitRecorded` | `handleCaptionAdapterExit`, before and after each of its `await`s |
| `DetachedStops` | `trackCaptionRuntimeStop`, the background stop of a failed runtime |
| `RequestStop`, `DrainRuntime`, `FinishEnd` | `endSessionOnce`: its first transition, `stopCaptionRuntime`, its last transition |
| `Close`, `CloseStops`, `CloseDone`, `Crash`, `Start` | `close`, `closeReadyApp`, the death of the process, `initialize` |
| `RecoverEnd`, `RecoverInterrupted`, `RecoverStop`, `RecoverStopped`, `RecoverSource`, `RecoverAdapter`, `RecoverNothing` | `recoverOpenCaptureSessions`, one action per append |

Abstractions. The capture transitions of a session run one at a time and look
at the state again when they run, so a transition is one action. Which of the
two caption sources a session gets is left open (`AttachCaptionSource` takes
either); the loopback recording is configured, as `src/server/index.ts:34`
does. Texts, identities of segments and chunks, what a preview shows (`LiveStream`)
and translations are left out. A status or preview that changes nothing when its
turn comes is one step with the callback that queues it. The disposition `durable` is one with `not-recording`: the service and the
receiver only compare a disposition with `loss-confirmed`. A write may fail in the start of a session and in a callback of a
captioner; a failed write inside a transition is not modelled (`EventSync` has
the failing writes of every event). What goes on inside the captioner and the
recording of one source is in `CaptionRuntime`.
`close` does not stop `queueEventMutation`, which does not look at
`lifecycle`: that is why `ExitStopsAudio` can be pending when `CloseDone` gives
up the data root.

### UploadQueue

State. `record`, `jobs` and `attempts` are what IndexedDB keeps of one session:
its `DurableRecordingState`, the chunks that have a `DurableAudioUploadJob`, and
how often each was tried. `page[p]` is what a page holds in memory and loses
with a reload: the operation the user asked for and the record it has read
(`ui`, `copy`), the `MediaRecorder`, the queued chunk writes and whether one of
them failed (`writes` for `writeTail`, `failed` for `failedWrites`), the drain in
flight with its job (`drain`, `job`, `tries`), the retry in flight (`retry`,
`reset`) and what follows from the news that the session has ended (`ack`,
`closed`). `server` is the session as the local service has it; `late` holds
uploads whose page no longer waits. `taken` and `lost` are history: the chunks
recorders have delivered, and whether a recorder has gone with audio it had not
delivered.

Actions. An operation reads the store in one transaction and writes in another.
Each of the two is a step, and any flow of any page can go between them:

| Actions | Code |
|---|---|
| `Load`, `InitializeReads`, `InitializePuts`, `Unload` | `ensureUploadCoordinator`, `initialize`; a page that is reloaded or closed |
| `Begin`, `BeginPuts` | `startMicRecorderOnce`, `beginRecording` |
| `Deliver`, `WriteReads`, `WritePuts`, `WriteFails` | `ondataavailable`, `enqueueChunk` |
| `RecorderDies`, `UnexpectedReads`, `UnexpectedPuts` | `onstop`, `finishUnexpectedRecorderStop`, `markUnexpectedStop` |
| `Stop`, `StopPuts`, `Flush`, `FlushFails`, `TailReads`, `TailPuts`, `UncertainPuts`, `StopFailedReads`, `StopFailedPuts` | `stopMicRecorder`, `requestStop`, `stopMediaRecorderAndPersistTail`, `markTailDurable`, `persistFlushUncertain`, `markStopFailed` |
| `DrainLists`, `Serve`, `UploadFails`, `DeleteJob`, `CountFailure`, `DrainWriteFails`, `ServeLate` | `drainSession`, `performDrain`, and `saveAudioChunkUnlocked` on the service |
| `Retry`, `RetryPuts` | `retryPendingUploads` |
| `Confirm`, `ConfirmPuts` | `confirmUncertainTailLoss` |
| `End`, `FinalChecks`, `FinalPuts`, `EndSucceeds`, `EndFails`, `DeleteRecord`, `OthersEnd` | `endCurrentSession`, `finalizeSession`, `endSession` on the service |
| `HearEnded`, `AckChecks`, `AckDeletes` | `acknowledgeEndedSession`, `acknowledgeSessionEnded` |
| `RecordWriteFails`, `OtherWriteFails` | a put or a delete of the store is rejected |

Abstractions. The store holds one session. Awaiting the queued writes and the
read that follows are one step: the writes of the page are settled when the
read is made. Only writes of the store fail; a rejected read ends an operation
where it began, except in `enqueueChunk`, where `WriteFails` covers it. The
interface disables some buttons while an operation runs; apart from one user
operation at a time the model does not use that, and so admits more
interleavings than a user can produce. The attempts of a job that is deleted
go back to zero, as those of a job that does not exist. How a recorder cuts
audio into chunks and how a blob is encoded are left out.

### TranslationPool

State. The settings, with `generation` for `translationGeneration`; the captions
of one session and who translated each; the pool, with `pending` for
`pendingTranslationSegments`, its `queue` and its `running` tasks; `mutations`,
the part of the event mutation queue that matters here: answers and updates of
the settings. `owed` is history: the captions of which no attempt under the
present settings has failed.

Actions. `StartTask`, `Answer` and `AnswerFails` are the pool's `pump` and a
task up to its answer; `Finish` is the `finally` of a task, which schedules an
overtaken caption again. `WriteAnswer`, `WriteAnswerFails`, `Update` and
`UpdateFails` are the mutations, run in the order in which they were queued;
`RequestUpdate` queues one. `ReceiveCaption` and `ReceiveTranslation` come from
captioners and users. `RequestStop`, `RuntimeStopped`, `RuntimeFails`, `Drained`
and `FinishEnd` are `endSessionOnce` as far as the pool sees it, `Close`,
`CloseDone`, `Crash` and `Start` the service.

Abstractions. Captions without Latin letters are never candidates and are left
out; so are the wording of a request and the choice of a model, of which only
"configured" matters. An update of the settings is one mutation.

### CloudReceiver

State. A file of lines is its lines and how it ends: `clean`, `open` (no last
newline) or `broken` (unreadable). `inbox`, `indexFile`, `artifact`,
`audioIndexFile`, `materials` and `audit` are on disk; `known`, `index` and
`audioIndex` in memory. `op` and `learning` are the tasks at the head of
`operationQueue` and `learningMaterialQueue`, which run side by side.
`retention` is what the retention tool has still to delete. `agent` has, for each
run of an agent under way (`Runner`), where it is and the bundle it was given; a
bundle is the number of its events and its artifacts. `ackedEvents` and `ackedAudio` are history. What the device
may rely on is `CloudArchive`, of which the lines of the inbox, the whole
artifacts and the history are the state (`Archive`).

Actions. Every write has an action, and one for its failure, which may also be
the last thing before a crash: `AppendEvent`, `WriteIndex`, `WriteAudio`,
`AudioWritten`, `WriteAudioIndex`, `AppendMaterial`, `AppendAudit` and their
`...Fails`. `ReceiveDuplicate` and `DuplicateAudio` are repeated requests.
`Generate`, `Import` and `FoundMaterial` are the learning routes, `BatchAudits`,
`AgentFetches` and `AgentFails` the runs: a batch asks for the audit of the session
first, `runCloudLearningAgent` by itself does not. The runs share no lock and
overlap, and a run that is dead may still have its request arrive: it is one that
is still `working`. `Start`, `StartRefused`,
`StartFails`, `Close`, `CloseDone` and `Crash` the process; `Retain`, `Delete`
and `RetentionDies` the retention tool; `Repair` an operator. `DoctorPasses` is
what `inspectCloudDataRoot` accepts.

Abstractions. One device and one session. The device sends its events in order
or again (`EventSync` shows that it does). The text of a material is opaque: two
answers of an agent differ by name. The hash of a bundle also covers when an
artifact was received, which the model leaves out.

### WasapiSession, LocalAsrAdapter, ExternalCaptionAdapter, CaptionRuntime

State. Each adapter module keeps the fields of its class in one record or a few
(`stream`, `session`, `asr`, `cap`), together with the process behind it and
the output that is not processed yet. `CaptionRuntime` extends the three and
adds what `app.ts` knows: `source` (status, and whether the session was asked to
stop), `runtime` (attached, its timer, its error), `capture` (where the start of
the recording is), `recorder` (`PcmWavRecorder`), `doing` (where the callback of
each segment is), `stopper` (`stopCaptionRuntime`, shared by the end of the
session and by failures) and `exiter` (`handleCaptionAdapterExit`). A behaviour
starts one source of either kind, local recognition or system captions, both
with a recording.

Steps. An operator of an adapter is a method up to its next `await`.
`CaptionRuntime!Next` has two layers. `Promises` is what runs as soon as it can:
continuations of settled promises, callbacks up to their first `await`, lines of
an idle processing queue. `Events` is what waits for the event loop: timers,
writes to the event log and the transitions that contain one, what the
processes do, the end of the session. An event happens only when no promise can
settle (`Settling`), as in Node, where the microtasks run before the next event.
Within a layer the order is left open.

Abstractions. Segments are numbered, and `ChunkSize` of them fill a chunk.
Left out: `drainSource`, which nothing calls, revisions of a
transcript and submissions made twice, previews (`LiveStream`), and a second
attempt to end the session. The device completes by itself only when it has
sent nothing, a helper misbehaves only while it starts or owes an answer, and
the recogniser has something to transcribe in every request but the shutdown.
What the steps append to the event log, and when that is refused, is
`SessionLifecycle`'s subject.

### AppLifecycle, MemosPublish, LiveStream, DataTools, Service

`AppLifecycle` has the `endpoint` of the root, the named pipe or socket that one
process at a time listens on, and per process (`proc`) its life, the stage of
its `close`, the kinds of work it has going (`work`) and the kind whose write is
under way. The actions are the starts, the ways in which one kind of work
begins another (a request attaches a runtime, a runtime queues a transition, a
failure begins a stop, an exit its handler, ...) and the stages of
`closeReadyApp`, in its order.

`MemosPublish` has the settings and the ledger in `memory` and on `disk`, the
attempts (`publish`) and what the `instance` stores. An attempt is numbered and
passes through `limit`, `audio`, `files`, `memo`, `wire`, `record`,
`recording` and `writing`, or `rollback`; a request to the instance is one step
that is done or fails. `expired` is the aborted signal that a whole attempt
shares. What an instance has done when only its answer is lost is left out.

`LiveStream` has the log and the preview of the service (`feed`), the connection
as a queue that a drop loses (`conn`), what the page holds (`page`) and the
refreshes it has under way. `page.back` is history: a forced refresh has taken
the page back, and neither an event nor a hello has come since. An event is its
cursor and whether it ends a session, when the page clears its preview
(`Applied`); a preview is its stream and its revision. The page is the one of
`App.tsx`; the overlay, which has the same client, does not clear its preview
then. One captioner at a time has previews; an
answer of a process that is gone reaches the page before it connects to the
next, or is lost.

`DataTools` has the two files of a local root, the copies that migrations have
kept, a backup directory, a directory to restore into and the tool that runs. A
line is `legacy` or `migrated`. A tool may die between any two steps; one tool
runs at a time. None of the tools takes the lock of the root, so a service may
start and write beneath a backup.

`Service` composes them. The life of a process is shared: what is in memory is
read when it starts and lost when it ends, the request barrier waits for
publications, the writes that are under way end before the lock is released. A
behaviour has one `workload` of `capture`, `memos`, `events`, `previews` and
`tools`. They share the life of the process, and `events` and `previews` share
the page: under `events` any events are appended, under `previews` those that end a
session and start the next, which is all that an event does to a preview. The
other workloads change no state of each other.

Abstractions. The migration is applied when its dry run has something to
change, and every old session has a source (without one the migration refuses to
guess). Under the workloads other than `capture` the processes do not contend
for the root, and under `tools` and `previews` they end by a crash, because a
close leaves no other root and takes the connections as a crash does. A failed append of a stored event's outbox item followed by a failed
repair, after which the event is not broadcast (`src/server/app.ts:2509`), is
left out of `LiveStream`.

### Mutated forms

Some definitions have no comment and precede a definition with nearly the same
name (`MutationAllowedUnderFault` before `MutationAllowed`). They are mutated
forms of it: plausible bugs, used to show that a property can fail.
`PROJECT.json` pairs every checked property with one; no specification uses them.

## 3. Runs

| Run | Configuration | Specification | Checks | Bounds |
|---|---|---|---|---|
| `event_sync` | `MCEventSync.cfg` | `FairSpec` | `DeviceKeepsItsEvents`, `ReceiverFollowsDevice`, the refinement of `ReplicatedLog`, `EventuallySynced` | 3 events, 3 payloads, 2 injected failures |
| `session_lifecycle` | `MCSessionLifecycle.cfg` | `Spec` | the refinement of `CaptureSession`, `OtherEventsAccepted`, `RecordingHasOwner`, `DeadCaptionerIsKnown` | 2 sessions, 1 injected failure |
| `session_live` | `MCSessionLifecycle_live.cfg` | `FairSpec` | `StartingResolves`, `ConfirmedEndCompletes` | 1 session, 1 injected failure |
| `mic_status_refused` | `MCSession_StatusChangesAccepted.cfg` | `Spec` | violation of `StatusChangesAccepted` | 1 session, 1 injected failure |
| `upload_queue` | `MCUploadQueue.cfg` | `Spec` | `NoOvertaking`, `DurableEndIsComplete` | 1 page, 2 chunks, 2 attempts, 3 faults of any kind |
| `upload_pages` | `MCUploadQueue_pages.cfg` | `Spec` | `PersistedIsKept` | 2 pages of which 1 records, 1 chunk, no fault |
| `upload_live` | `MCUploadQueue_live.cfg` | `FairSpec` | `UploadsSettle` | 1 page, 2 chunks, 2 attempts, 2 faults outside the store |
| `translation` | `MCTranslationPool.cfg` | `FairSpec` | `PoolIsConsistent`, `NoCaptionForgotten`, `ManualIsKept`, `WaitsEnd` | 2 captions, 1 task at a time, 2 updates, 1 injected failure |
| `cloud_receiver` | `MCCloudReceiver.cfg` | `Spec` | the refinement of `CloudArchive`, `IndexesNameStoredData`, `HealthyIsReadable`, `AuditIsSound`, `DoctorPassesWhatStarts`, `MaterialsFollowEvents` | 2 events, one a chunk, 2 runs of an agent with 2 answers, 2 materials, 2 audit lines, 2 injected failures |
| `caption_runtime` | `MCCaptionRuntime.cfg` | `FairSpec` | `TypeOK`, `AnswersAreGenuine`, `TailIsKept`, `NothingLeftBehind`, `SegmentsInTurn`, `StopSettles` | 2 segments, queue of 1, backlogs of 1 and 2, 2 lines and a tail, chunks of 2 |
| `service` | `MCService.cfg` | `Spec` | `TypeOK`, `LockCoversWrites`, `CloseIsNeverStuck`, `RollbackIsHonest`, `LedgerIsKept`, `PageIsPrefix`, `PageIsCurrent`, `RootIsUsable`, `OriginalIsKept`, `VerifiedBackupStarts` | 2 processes; 2 sessions and 2 attempts; 3 events, 2 streams and revisions, 1 dropped connection, 2 refreshes; 2 old lines, 3 tool runs |
| `publish_leaves_orphans` | `MCService_orphans.cfg` | `Spec` | violation of `FailureIsCleanedUp` | 1 workload |

A property that has a proof for every instance is not always repeated in a run:
`TypeOK` of `EventSync`, `SessionLifecycle`, `UploadQueue` and `CloudReceiver`,
`InboxFollowsDevice`, `AcknowledgedIsStored`, `SyncedIsFinal`, `OneOpenSession`,
`EndedIsFinal` and `RecordKeptUntilEnded` are only proved. `DeviceKeepsItsEvents`,
`ReceiverFollowsDevice`, `PoolIsConsistent`, `NothingLeftBehind` and
`PageIsCurrent` are conjunctions of named parts, each stated beside the
property.

EventSync. The payloads are an ordinary event, an audio chunk and an event the
receiver refuses. `MaxEvents = 3` lets a run have an item before, at and behind
the one it works on, and a new event arrive after the snapshot.
`MaxFailures = 2` admits a failed append whose roll-back fails followed by a
crash, and a failed mark followed by a lost request. Crashes and every failing
call count against it; the receiver's refusals, the operator's repair and the
failures that follow from an unreadable file do not. The safety properties are
proved for any bound (section 4).

SessionLifecycle. Two sessions show whether one can interfere with the next: a
background stop or an exit handler of the first still runs while the second is
open. Sessions are interchangeable, so the safety run uses symmetry, and a view: once an event
has been refused the receiver is offered nothing more, so states that differ only in what it
knew, or in which event it was, count as one, unless `OtherEventsAccepted` tells them apart; the
liveness run does not. One failure is a crash, a failed append of a session
start, or a write of a callback that fails. The captioner's own failures,
timeouts and exits are not counted: any number of them happen.

UploadQueue. With two chunks a chunk can overtake another, be the tail behind
one that could not be written, or be uploaded while the first is retried.
`Faults` names the kinds of fault a run admits and `MaxFailures` their number:
with `MaxAttempts = 2`, three faults are enough to block a job and then reload
the page, or to lose an upload, reload and lose the end. The run with two pages
has no faults, because the second page is the fault: it initialises from the
record of a recording that goes on in the first, drains the same jobs and ends
the session. `Recorders` keeps the second page from recording: see the end of
this section.

TranslationPool. With two captions and one slot a task waits while another
asks, and a caption is received while the settings change; two updates overtake
a task and its rescheduled successor.

CloudReceiver. The chunk is the first event, so that its artifact is written,
retained or lost before or after the event behind it is stored, and a bundle grows
by an event and by an artifact. Two failures admit a failed append whose fault
outlives a second failure, or a crash after one. Two runs of an agent overlap, each
with a bundle of its own; two answers, or an answer and the baseline, are two
materials of one bundle. Runs and answers are interchangeable, and the run uses symmetry. The
proofs are for any number of each (section 4).

CaptionRuntime. Two segments are one in a callback and one queued, or a full
chunk; a queue of one overflows; the two backlogs let the second segment wait or
fail the session. Two lines and the tail caption let the helper write a status
and a caption before it is stopped.

Service. Two processes are one that closes or dies and one that takes over. Two
sessions with two attempts publish at the same time or one session twice. A
stream of two previews and a second stream cross a dropped connection or a
restart; three events end a session, start the next and end that. Processes and
refreshes are interchangeable. Three tool runs are a migration that dies, another that dies and a
third, or two backups over one directory and a restore.

Deadlock is checked in the passing runs of `EventSync`, `SessionLifecycle`,
`TranslationPool` and `CloudReceiver`: those services can always be closed and
started again. The runs of `UploadQueue`, `CaptionRuntime` and `Service` turn it
off, because those systems really stop: a session has ended and its record is
gone, a caption runtime is stopped for good, a process has ended and does not
come back. `CloseIsNeverStuck` states what a deadlock check would miss there: a
process that closes always has a step that brings the close forward. It names the
guards of those steps (`StageMayEnd`, `MemosMayAnswer`, `MayStop`, `MayEnd` and so
on) and has no `ENABLED`; TLC has found the two forms equal in every state of the
run. It fails, for instance, when a failed write of the ledger keeps its place in
the queue (`LedgerHeldUp`).

Fairness. `EventSync!FairSpec` is weakly fair in the steps that a Node event
loop takes without being asked (the continuations of the sync run and of the
mutation), in `StartRun`, which the interval timer of `startAutoSync` fires again
and again while a sync target is configured, and in `HandleRequest`: the receiver
is reachable. Failures, crashes, user requests and the operator's repair are not
fair. `EventuallySynced` also assumes that the service eventually stays up with
no fault, because the code deliberately refuses to synchronise under one.
`SessionLifecycle!FairSpec` is weakly fair in the armed startup timer, in the
deadlines of a starting recording and of the stops and drains (every one of them
is under `withTimeout`), and in the exit of a captioner whose callback has
rejected, because the adapter kills it. Nothing is assumed of the helper: it may
never say that it is ready, send previews before it does, or reconnect for ever (the helper reports one
reconnection per loss of its source, `CaptionStreamLivenessTracker.cs`, so that
the timer is not armed anew without end).
`UploadQueue!FairSpec` is weakly fair in the steps a loaded page takes on its
own: to initialise, to go on with a drain or a retry it has started; a request
is served or lost. The user owes nothing: no retry, no stop, no end. Writes of
the store do not fail in that run: a rejected put in `performDrain` ends the
drain with a job that is not blocked, and the chunk then waits for the next
chunk, operation or reload (a hazard in `PROJECT.json`).
`TranslationPool!FairSpec` is weakly fair in the pool's tasks, in the answer of
the model or its failure (a request has a timeout), in the queued mutations, in
the stop of the captioner (it has a deadline), in the end of a session that has
drained and in the end of a close.
`CaptionRuntime!FairSpec` has one condition, on `Progress`: the program goes on
while a promise can settle, a timer is armed or a write is under way, and a
process that was killed exits. No step of that program can be repeated for
ever, so one condition is enough. Nothing is expected of a process that was not
killed.

### Disagreements found

Two runs end in a violation. Each checks what a comment of the repository says,
and `PROJECT.json` quotes the line.

| Run | What happens |
|---|---|
| `mic_status_refused` | A restart during a drain writes a status change of the microphone; the receiver says that browser microphones have none and refuses it. Synchronisation of the device stops there. |
| `publish_leaves_orphans` | The signal of a publication, aborted after 30 s or by a close, covers its rollback too, so the memo and the attachments are not deleted. It also caps a longer configured timeout. |

More show in the models or were met while reading, and have no run of their own.
Sessions and captioners:

- A loss confirmed after a failed drain writes a second stop request
  (`src/server/app.ts:1154`); the receiver refuses it
  (`src/cloud/syncReceiver.ts:1328`). Audio saved while its source starts
  again, or after it has failed (`app.ts:1941`), is refused too
  (`syncReceiver.ts:1417`). `OtherEventsAccepted` says that these and the status
  of the microphone are the only refusals.
- A preview counts as a sign of the start: it clears the startup timer
  (`app.ts:1656`), but where a recording is configured it does not make the source
  record. A configured helper that sends a preview and never says that it is ready
  leaves its source starting for ever, against `docs/architecture.md:85`. The
  helper of the repository says so first. `StartingResolves` leaves out a source
  whose timer was cleared in this way (`Presumed`), and only that.
- After a processing error the source stays starting or recording, with no
  captioner (`app.ts:2091`, against `docs/architecture.md:85`).
- A session ends while the background stop of its failed captioner still holds
  audio, which is then refused (`app.ts:1120`, against `docs/architecture.md:79`).
- `handleCaptionAdapterExit` (`app.ts:2082`) awaits the stop of the audio without
  being tracked, so `closeReadyApp` may give up the data root before the tail is
  saved. `LockCoversWrites` therefore leaves out the work called `exit`.
- After a restart that interrupted a drain of captions, the message of the
  sources (`app.ts:2226`) asks for a confirmed loss, but `endSession` accepts any
  disposition.
- The stop of a recogniser that dies while it drains counts as a success
  (`app.ts:2137`, `localAsrProcessAdapter.ts:535-553`): `TailIsKept` speaks of a
  helper that answers its stop.
- A system-caption session that ends while its recording is still being started
  always fails its first end with an abort (`app.ts:2149-2156`) and then needs a
  confirmed loss.

Translations and publications:

- A task compares the generation before its answer is queued
  (`app.ts:1376`), so an answer for older settings may be written, against
  `docs/architecture.md:61`.
- Captions that were not translated when the service stopped are not scheduled
  again when it starts.
- The ledger of publications changes in memory before it is written: after a
  failed write the session counts as published until a restart. A published
  session can be published again, which makes a second memo.
- `ensureMemosUploadLimit` and `testMemosConnection` may store the limit of the
  instance that was configured before (`app.ts:2838`, `2856`).
- `docs/architecture.md:221` says that the memo is read back after the
  attachments are set; the code checks the list it has sent.

Files and tools:

- A leftover that is a whole line without its newline is read as a record and
  then continued by the next append (`syncReceiver.ts:964`,
  `fileEventStore.ts:29`, against `docs/architecture.md:117`). With
  `"unterminated"` in `Leftover`, `HealthyIsReadable` does not hold; the model
  has that leftover, the run and the theorem leave it out.
- `generateLearningMaterial` takes any material of the bundle with the
  generator's name for the baseline (`syncReceiver.ts:771`), an external agent's
  too. If the origin of that material was lost it is audited as generated, and
  the next start is refused. `AuditIsSound` is proved for names that do not
  collide.
- A batch processes only a session without a current material
  (`docs/architecture.md:160`), as of its audit. Two runs that overlap, a run by
  itself, which asks for no audit (`cloudAgentRunner.ts:45`), and the late request
  of a dead run all import: two materials of one bundle may be stored when the
  agent does not answer twice alike. `importLearningMaterial` refuses only a
  material of another bundle, and that is what `MaterialsFollowEvents` is about.
- The doctor does not look at the audit of the materials, and passes a root from
  which an origin is missing, which the receiver refuses.
- A backup of a running service may hold an outbox that is ahead of its events;
  it verifies and the service refuses what it restores. `VerifiedBackupStarts`
  speaks of a root that was quiet, as `docs/cloud-receiver-deploy.md:117` asks.
- A service that starts between the two renames of a migration may find items
  without an event and lose the others until its next reconciliation; a pending
  item that is migrated gets a new hash (`migrateCaptureMode.ts:116`), which the
  receiver may refuse for ever.

Pages:

- Two pages that begin to record at the same time share one record, because
  `beginRecording` (`src/web/audioUploadQueue.ts:127`) checks and writes in two
  transactions: the first to stop ends the session as durable while the other
  records. With `Recorders = Page`, `DurableEndIsComplete` does not hold.
- A forced refresh that was answered before a later event of the stream was
  applied replaces the newer state (`src/web/App.tsx:329`), and after a change
  of the root the first events of the new service are applied to the old state
  until the refresh arrives. A page that was taken back in this way shows fewer
  events than the service holds until the next event or hello: `PageIsCurrent`
  leaves it out (`page.back`), and only while neither has come.

## 4. What is proved

All theorems hold for every value of the constants that satisfies the named
assumptions. None of the state properties is inductive alone. Every safety
property and every refinement of the passing runs is proved; what is left to TLC
is liveness (section 5).

### EventSync_proofs

From `PayloadAssumption`: `TypeCorrect`, `StoreAlwaysLoadable`,
`AcknowledgedAlwaysDurable`, `OutboxAlwaysCoversEvents` and their conjunction
`DeviceAlwaysKeeps`; `InboxAlwaysPrefix`, `SyncedAlwaysDelivered`,
`SyncedAlwaysPrefix`, `RequestsAlwaysInTurn` and their conjunction
`ReceiverAlwaysFollows`; `SyncedAlwaysFinal`; `Implements`, the refinement of
`ReplicatedLog`.

The inductive invariant `IInv` has three parts. `InboxIsPrefixOfEvents` needs to
know that every request in the network, the late ones too, carries an event of
the file that is at most one ahead of the inbox; that needs the run's claimed
item to be the first unsynced one; that needs the synced items to be a prefix
and each of them delivered; and the prefix needs the outbox to cover the events,
which in turn depends on where the mutation and its fault are. `FilesInv` states
the part about the files, the running service and the mutation in progress,
`CloudInv` the part about the run, the network and the receiver. The refinement
has a lemma for each kind of step that is visible in `ReplicatedLog` (append,
replicate, acknowledge; the acknowledgement counts a set, by
`FiniteSetTheorems`).

### SessionLifecycle_proofs

From `LifecycleAssumption`: `TypeCorrect`, `OneSessionOpen`,
`RecordingAlwaysOwned`, `EndedStaysFinal`, `OthersAlwaysAccepted`
(`OtherEventsAccepted`), `DeadCaptionerAlwaysKnown` (`DeadCaptionerIsKnown`) and
`ImplementsSession`, the refinement of `CaptureSession`.

The inductive invariant adds `EndedIsQuiet`: the sources of an ended session are
at rest. Without it a late callback of the helper could find a source starting
and write to an ended session. `Writes` shows that every step writes nothing or
one *legal* event: about a session that has not ended, starting one only when
none is open, stopping or ending one only while it is open. `SessionsStep` shows
that a legal event preserves `OneOpenSession` and `EndedIsQuiet` and leaves
ended sessions alone. `RuntimeStep` does the same for the recordings and their
owners.

What the receiver accepts needs a second invariant, `SourceInv`. `Mirrors`: until
it has refused something, the receiver knows of each session that has not ended
what the service does. `Controlled`: what runs for a session, and what a mutation
under way has still to write, fits the status of its sources. From the second,
every event is written where it is `Lawful` (`LawfulStep`), and a lawful event is
accepted by a receiver that mirrors the service unless it is one of the three kinds
named in section 3. The dead captioner is known by `Controlled` too. The
refinement rests on it as well: a lawful event is a step of `CaptureSession`, or
repeats a stop, or is about captions or audio (`LawfulIsStep`). That the microphone
is attached after a source that is live, and that a source is never started twice,
holds across crashes because `Controlled` ties the rest of a mutation to what it
has written.

### UploadQueue_proofs

From `UploadAssumption`: `TypeCorrect`, `NothingPersistedIsLost`
(`PersistedIsKept`), `RecordOutlivesTheSession` (`RecordKeptUntilEnded`) and
`UploadsNeverOvertake` (`NoOvertaking`), for any set of pages, any number of them
recording. With `OneRecorder` (at most one page records) also
`DurableTailIsComplete` (`DurableEndIsComplete`); the assumption is needed, see
the end of section 3.

The inductive invariant is the types and `Agreement`: what a page believes is
true of the service. A page that is about to delete a job works on a chunk the
service has stored; a page that is about to delete the record, or acts on the
news that the session has ended, finds it ended; `end_pending` is only written
over a tail that is durable or confirmed lost. The service only ever adds to
what the pages may believe (`ServerGrows`), so a step of one page cannot make
another's belief false.

`Ordered` is the invariant behind `NoOvertaking`: what the service has, what is
in the network and what a page has sent is clear, in that no job of the same
recording before it still waits for its first upload. A page sends the first of
the jobs it lists, and the writes it has queued are later than every chunk saved.
`Honest` is the one behind the tail: until the session has ended, a record or a
page's copy that claims a durable tail is right (`Complete`: all that was recorded
is saved, nothing was lost, no recorder is on), and the page between stop and
claim knows which of its writes may still fail.

### CloudReceiver_proofs

From `ReceiverAssumption`: `TypeCorrect`, `InboxAlwaysFollows`
(`InboxFollowsDevice`), `AlwaysStored` (`AcknowledgedIsStored`),
`IndexesAlwaysName` (`IndexesNameStoredData`), `AlwaysFollowEvents`
(`MaterialsFollowEvents`, for any number of runs of agents) and `ImplementsArchive`,
the refinement of `CloudArchive`; with `Terminated` (no leftover is a whole line
without its newline) also `AlwaysReadable` (`HealthyIsReadable`);
with `NamesAreTheirs` (an agent's names are not the baseline's) also
`AuditAlwaysSound` (`AuditIsSound`) and `DoctorIsRight`
(`DoctorPassesWhatStarts`).

`IInv` says that a receiver that is down holds nothing in memory
(`DownIsEmpty`), that what one that is up knows is in its files up to a record
whose append failed (`MemoryFollows`), that the event and the chunk of the task
under way are stored where the next write relies on it (`EventsAreStored`,
`AudioIsStored`), and that what the retention tool still deletes is in no index
(`RetainedIsFree`). `FilesAreWhole` relates the ends of the files to the fault.
`AuditInv` counts: the materials without an origin, but for the one whose audit
line is being written, are at most as many as there were failures.
`OrderInv` bounds the materials by what the receiver knows: none is of more events
than the inbox has, nor than the memory of a receiver that is up, and the one that
is being stored is of no fewer than any stored and no more than are known. An
import begins with the bundle of the moment, and the memory does not shrink before
its process is gone, and with it the import (`StoreGrows`).
The refinement needs `IInv` at each step that the device
can see: a failed append adds the next event or nothing, a chunk that is written
over or deleted was acknowledged to nobody, and only what is whole is
acknowledged.

### Service_proofs

From `ProcessAssumption`, `MemosAssumption`, `ToolsAssumption` and
`ServiceAssumption`, for any number of processes, sessions, attempts, refreshes
and tool runs:

| Theorem | Property |
|---|---|
| `LockAlwaysCovers` | `LockCoversWrites` |
| `RollbackAlwaysHonest` | `RollbackIsHonest` |
| `LedgerAlwaysKept` | `LedgerIsKept` |
| `RootAlwaysUsable` | `RootIsUsable` |
| `OriginalAlwaysKept` | `OriginalIsKept` |
| `VerifiedBackupAlwaysStarts` | `VerifiedBackupStarts` |
| `PageAlwaysPrefix` | `PageIsPrefix` |

The lock comes first. `LockInv` says that what a process still has going fits
the stage its close has reached (`Orderly`): a process in the stage after the
request barrier has no request, one that is about to release has no write under
way. From it follows that whoever owns the root holds the endpoint
(`OwnersHold`), so at most one process does. The rest uses that there is one:

- `MemosInv`: a publication in progress belongs to the process that serves, so
  the ledger in memory has one writer and every entry of either ledger names an
  attempt whose memo and files exist.
- `ToolsInv`: while something is left to migrate the service refuses the root,
  so nobody serves and a migration renames what it has read. What the first one
  found is in the root or among the copies.
- `BackupInv`: `tool.quiet` means that nobody holds the endpoint, so the copies
  equal the root; a restore copies a backup that does not change meanwhile. What
  verified is what the manifest says, whichever runs died over the directory.
- `PageInv`: nothing on its way to the page (stream, answers) names an event
  after the cursor of the log, which only grows.

### ServicePage_proofs

From the same assumptions and `LiveAssumption`: `PageAlwaysCurrent`
(`PageIsCurrent`), `CloseNeverStuck` (`CloseIsNeverStuck`) and `TypesAlwaysOK`
(`Service!TypeOK`). The types rest on the part
of `ToolsAssumption` by which a root begins with no more lines than `MaxLines`.

`StreamInv` reads the queue of the connection as a prediction (`CaughtUp`). When
the page has read it to the end it shows the preview of the service, because each
message is newer than what the page has seen of its stream (`InOrder`) and fits
the preview that the message before it leaves. An event that the page does not
show is in the queue, is counted in a `hello`, or is in the answer to a refresh
under way (`Coming`), unless the page was taken back; what is left of the queue
tells of it as well (`Reaches`). Only the process the page is connected to can change what it
predicts, because that process holds the lock.

`CloseNeverStuck` shows that the waits of a close have no cycle. When none of the
work of a process can end, no runtime can be stopped and no write is under way,
`Orderly` leaves nothing for its stage to wait for but the publications. Those are
its own (`PublishersServe`, by the lock), and one that waits to write the ledger
waits for the head of the queue. `InTurn` says that everything in the queue is
there once and still under way, so the head can go on; that needs every
publication to leave the queue as its head, whether its write succeeds or not.
`OnlyWork` says that a workload only owes what it can settle.

### TranslationPool_proofs

From `PoolAssumption`: `PoolAlwaysConsistent` (`PoolIsConsistent`),
`NoCaptionIsForgotten` (`NoCaptionForgotten`) and `ManualAlwaysKept`
(`ManualIsKept`), for any number of captions, any degree of concurrency, any
number of updates and failures.

`IInv` has the queue and the running tasks as the work for the pending captions,
each once (`Work`), and a task of its own for each answer that is queued
(`HaveTasks`), so that an answer that is written or refused ends exactly one task.
`NoCaptionForgotten` is inductive with these and with the order of the end: a
session that has drained has an idle pool. That an update of the settings puts
every caption that it owes to the pool rests on facts about `Tasks`, which lists a
set of captions by rank: it has each of them once.

### CaptionRuntime_proofs

From `RuntimeAssumption` and those of the three components: `RuntimeTypesOK`
(`TypeOK`), `SegmentsAlwaysInTurn` (`SegmentsInTurn`), `AnswersAlwaysGenuine`
(`AnswersAreGenuine`), `TailAlwaysKept` (`TailIsKept`), `NothingIsEverLeft`
(`NothingLeftBehind`), for any number of segments, requests, lines and backlogs.

The components share no variable, so each has an invariant of its own
(`WasapiInv`, `AsrInv`, `CapInv`), and a step of the whole is a step or a stutter
of each. `Base` adds what links them to the service: `Life` (the start of the
recording, the stop and the exit handler), `Failures`, `Links` and `Callbacks`.
`JointInv` is `Base`, and while nothing has failed that would cost sound
(`Hopeful`) the `Account` of it: what was called and recorded is saved, in the
chunk being saved, or buffered, and the recogniser has carried out what was called
to its end. `TailIsKept` follows, because a stop that ends without an error was
hopeful all along. None of that uses the priority of promises: it holds for every
order of promises and events.

`NothingLeftBehind` does need the priority. `Ended` and `Places` say where the
stream and the start of the recording are when a stop has gone past them;
`Emptied` says that the recorder stays empty once it was flushed, because no
callback is left that could record. That is true when the flush begins since such
a callback could run at once (`MayRecord`), and the flush waits for the event loop
(`FlushWaits`). It is the only place where the proof looks at the guard of the
events.

TLC has checked `JointInv` on a small instance without the priority (1,510,385
states), and `Ended`, `Places` and `Emptied` on the instance of the run (837,464
states).

## 5. What is only model-checked

- Liveness, which is out of the prover's reach: `EventuallySynced`,
  `StartingResolves`, `ConfirmedEndCompletes`, `UploadsSettle`, `WaitsEnd`,
  `StopSettles`.

`ENABLED` is out of its reach too. The one of `Settling` in `CaptionRuntime` is
only used where it is false, and there only through `MayRecord`, which is a
conjunct beside it.

What a proof does not say: that the models are faithful to the code, and what
happens in the instances that the named assumptions leave out (`OneRecorder`,
`Terminated`, `NamesAreTheirs`); section 3 tells what the code does there.

## 6. Plan

Done, in this order: `ReplicatedLog` and `EventSync`; `CloudOwnership` and
`SessionLifecycle`; `UploadQueue`; `TranslationPool`; `CloudReceiver`;
`WasapiSession`, `LocalAsrAdapter`, `ExternalCaptionAdapter` and their
composition; `AppLifecycle`; `MemosPublish`; `LiveStream`; `DataTools`; the
composition of the last four; the proofs of every safety property of the runs;
`CloudArchive`; `CaptureSession`.

Open: pure algorithms (the segmentation of PCM, duplicate captions, the stabilising
of caption snapshots).

## 7. Not modelled

- Rendering (`src/web/App.tsx` but for the parts in `UploadQueue` and
  `LiveStream`, the overlay): shows state it does not own.
- Configuration, settings files other than those of Memos and of translation,
  HTTP routing: parsing and plumbing without state of its own.
- Event schema, identifiers and hashes: predicates and functions on data. The
  models take well-formed events as inputs, and equal hashes for equal content.
- The export of a session and the remote smoke test: they only read.
- Native helpers (`native/`): device and engine calls in other languages.
  `CaptionRuntime` takes what they send as inputs, any of it at any time within
  the limits named in section 2.
- Voice detection, segmentation, text comparison: algorithms without control
  (see the plan).
