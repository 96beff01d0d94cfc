----------------------------- MODULE EventSync -----------------------------
(***************************************************************************)
(* The durable spine of the local service and its cloud receiver:          *)
(*                                                                         *)
(*   events.jsonl   the append-only event file, the source of truth        *)
(*   outbox.jsonl   one item per event, with its synchronisation status    *)
(*   LiteServerApp  the in-memory event log, the event mutation queue, the *)
(*                  outbox mutation queue and the sync run                 *)
(*   inbox          the event file of CloudSyncReceiver, for this device   *)
(*                                                                         *)
(* The event mutation queue runs one appendEvent at a time: it is the      *)
(* small program writeAt = idle -> append -> outbox (-> repair) -> idle.   *)
(* At most one sync run is in flight: it is the program syncAt = idle ->   *)
(* claim -> post (-> put) -> claim ... -> idle.  The two interleave; every *)
(* read-modify-write of the outbox file is one step, because the outbox    *)
(* mutation queue serialises them.  Writes may fail, appends may leave a   *)
(* torn line behind, requests may be lost or be handled after the client   *)
(* has given up on them, and the process may stop between any two steps.   *)
(*                                                                         *)
(* A definition whose comment is missing and which only precedes the one   *)
(* it resembles is a mutated form of it: see the README.                   *)
(***************************************************************************)
EXTENDS Naturals, Sequences, FiniteSets

CONSTANTS
  Payload,        \* what an event says, beyond its cursor
  AudioPayload,   \* the payloads of audio.chunk.saved events
  Refused,        \* the payloads the receiver refuses whenever offered
  NoEvent,        \* no event is being written
  MaxEvents,      \* bound on the length of the event log
  MaxFailures     \* bound on the failures the environment injects

ASSUME PayloadAssumption ==
  /\ AudioPayload \subseteq Payload
  /\ Refused \subseteq Payload
  /\ MaxEvents \in Nat
  /\ MaxFailures \in Nat

VARIABLES
  lifecycle,         \* "down", "ready" or "closing"
  persistenceFault,  \* "none", "event-append" or "outbox-repair"
  events,            \* events.jsonl: its complete lines
  eventsTail,        \* "clean", or "torn" when a partial line follows them
  outbox,            \* outbox.jsonl: cursor -> item
  outboxTail,        \* as eventsTail
  eventLog,          \* the events the running service has reduced
  writeAt, draft,    \* the event mutation in progress and its event
  syncAt,            \* the control point of the sync run in flight
  maxCursor,         \* the run's snapshot of the largest outbox cursor
  claimed,           \* the cursor of the item the run has claimed, or 0
  wire,              \* the run's request: "none", "sent", "ok" or "error"
  late,              \* requests given up by the client, still in the network
  inbox,             \* the receiver's records of this device, in order
  artifacts,         \* cursors whose audio binary the receiver has stored
  failures           \* number of injected failures

localVars == <<events, eventsTail, outbox, outboxTail>>
memoryVars == <<lifecycle, persistenceFault, eventLog>>
writeVars == <<writeAt, draft>>
syncVars == <<syncAt, maxCursor, claimed, wire>>
cloudVars == <<inbox, artifacts>>
vars == <<localVars, memoryVars, writeVars, syncVars, cloudVars, late, failures>>

-----------------------------------------------------------------------------
(* Events, outbox items and requests.                                      *)

Event == [cursor : Nat \ {0}, payload : Payload]

Status == {"pending", "syncing", "synced", "failed"}

Item == [event : Event, status : Status]

\* The two calls of pushOutboxItem: the envelope, then the audio binary.
Request == [kind : {"post", "put"}, event : Event]

Cursors == DOMAIN outbox

LastCursor == IF eventLog = <<>> THEN 0 ELSE eventLog[Len(eventLog)].cursor

CreateOutboxItem(e) == [event |-> e, status |-> "pending"]

WithItem(items, c, item) == [d \in DOMAIN items \cup {c} |-> IF d = c THEN item ELSE items[d]]

MarkOutboxItem(c, status) == [outbox EXCEPT ![c].status = status]

\* The status checks of reconcileOutbox and readEvents: what a store must
\* satisfy for the service to start.
ValidTimeline == \A i \in DOMAIN events : events[i].cursor = i

ItemsMatchEvents ==
  \A c \in Cursors : c \in DOMAIN events /\ outbox[c].event = events[c]

StoreLoads ==
  /\ eventsTail = "clean" /\ outboxTail = "clean"
  /\ ValidTimeline
  /\ ItemsMatchEvents

\* reconcileOutbox: a pending item for every event that has none.
Reconciled(items) ==
  [c \in DOMAIN items \cup DOMAIN events |->
     IF c \in DOMAIN items THEN items[c] ELSE CreateOutboxItem(events[c])]

Inject == failures < MaxFailures /\ failures' = failures + 1

-----------------------------------------------------------------------------
Init ==
  /\ lifecycle = "down" /\ persistenceFault = "none"
  /\ events = <<>> /\ eventsTail = "clean"
  /\ outbox = <<>> /\ outboxTail = "clean"
  /\ eventLog = <<>>
  /\ writeAt = "idle" /\ draft = NoEvent
  /\ syncAt = "idle" /\ maxCursor = 0 /\ claimed = 0 /\ wire = "none"
  /\ late = {}
  /\ inbox = <<>> /\ artifacts = {}
  /\ failures = 0

-----------------------------------------------------------------------------
(* The event mutation queue.                                               *)

Running == lifecycle \in {"ready", "closing"}

MutationAllowedUnderFault == Running

\* queueEventMutation refuses every mutation once a fault is latched.
MutationAllowed == Running /\ persistenceFault = "none"

\* buildEvent numbers the event when its mutation starts, inside the queue.
NextCursor == LastCursor + 1

\* A queued mutation starts.
BeginMutation ==
  /\ MutationAllowed
  /\ writeAt = "idle"
  /\ LastCursor < MaxEvents
  /\ \E p \in Payload : draft' = [cursor |-> NextCursor, payload |-> p]
  /\ writeAt' = "append"
  /\ UNCHANGED <<localVars, memoryVars, syncVars, cloudVars, late, failures>>

\* A line appended behind a torn one is joined to it: neither can be read.
EventLine(e) == events' = IF eventsTail = "clean" THEN Append(events, e) ELSE events

AppendEvent ==
  /\ writeAt = "append"
  /\ EventLine(draft)
  /\ eventLog' = Append(eventLog, draft)
  /\ writeAt' = "outbox"
  /\ UNCHANGED <<eventsTail, outbox, outboxTail, lifecycle, persistenceFault,
                 draft, syncVars, cloudVars, late, failures>>

\* The append fails and truncating back to the previous length succeeds.
AppendEventFails ==
  /\ writeAt = "append"
  /\ Inject
  /\ writeAt' = "idle" /\ draft' = NoEvent
  /\ UNCHANGED <<localVars, memoryVars, syncVars, cloudVars, late>>

\* The append fails and so does the truncation: nothing, part of the line or
\* the whole line is in the file, and the service refuses further mutations.
AppendEventRollbackFails ==
  /\ writeAt = "append"
  /\ Inject
  /\ \/ UNCHANGED <<events, eventsTail>>
     \/ EventLine(draft) /\ UNCHANGED eventsTail
     \/ eventsTail' = "torn" /\ UNCHANGED events
  /\ persistenceFault' = "event-append"
  /\ writeAt' = "idle" /\ draft' = NoEvent
  /\ UNCHANGED <<outbox, outboxTail, lifecycle, eventLog, syncVars, cloudVars, late>>

OutboxLine(e) ==
  outbox' = IF outboxTail = "clean" THEN WithItem(outbox, e.cursor, CreateOutboxItem(e))
                                    ELSE outbox

AppendOutbox ==
  /\ writeAt = "outbox"
  /\ OutboxLine(draft)
  /\ writeAt' = "idle" /\ draft' = NoEvent
  /\ UNCHANGED <<events, eventsTail, outboxTail, memoryVars, syncVars, cloudVars, late, failures>>

\* The append fails; the roll-back may fail too, which appendEvent does not
\* tell apart: both lead to the online repair.
AppendOutboxFails ==
  /\ writeAt = "outbox"
  /\ Inject
  /\ \/ UNCHANGED <<outbox, outboxTail>>
     \/ OutboxLine(draft) /\ UNCHANGED outboxTail
     \/ outboxTail' = "torn" /\ UNCHANGED outbox
  /\ writeAt' = "repair"
  /\ UNCHANGED <<events, eventsTail, memoryVars, draft, syncVars, cloudVars, late>>

RepairOutbox ==
  /\ writeAt = "repair"
  /\ StoreLoads
  /\ outbox' = Reconciled(outbox)
  /\ writeAt' = "idle" /\ draft' = NoEvent
  /\ UNCHANGED <<events, eventsTail, outboxTail, memoryVars, syncVars, cloudVars, late, failures>>

\* The repair finds the file unreadable, or fails to read or write it.
RepairOutboxFails ==
  /\ writeAt = "repair"
  /\ IF StoreLoads THEN Inject ELSE UNCHANGED failures
  /\ persistenceFault' = "outbox-repair"
  /\ writeAt' = "idle" /\ draft' = NoEvent
  /\ UNCHANGED <<localVars, lifecycle, eventLog, syncVars, cloudVars, late>>

-----------------------------------------------------------------------------
(* The sync run.                                                           *)

EndRun == syncAt' = "idle" /\ maxCursor' = 0 /\ claimed' = 0 /\ wire' = "none"

\* A timer or a request starts a run: it is refused under a fault, ignored
\* when a run is in flight, and fails when the outbox cannot be read.
StartRun ==
  /\ lifecycle = "ready" /\ persistenceFault = "none"
  /\ syncAt = "idle"
  /\ outboxTail = "clean"
  /\ syncAt' = "claim"
  /\ \E c \in Cursors \cup {0} : (\A d \in Cursors : d <= c) /\ maxCursor' = c
  /\ UNCHANGED <<localVars, memoryVars, writeVars, claimed, wire, cloudVars, late, failures>>

UnsyncedNotClaimed ==
  {c \in Cursors : c <= maxCursor /\ outbox[c].status \in {"pending", "failed"}}

\* What the run still has to push: the unsynced items up to its snapshot.
Unsynced == {c \in Cursors : c <= maxCursor /\ outbox[c].status # "synced"}

\* The request of the claimed item; closing has aborted it before it is sent.
Send == wire' = IF lifecycle = "closing" THEN "error" ELSE "sent"

\* The item to claim: the first of the sorted outbox that is not synced.
IsNext(c) == \A d \in Unsynced : c <= d

Claim ==
  /\ syncAt = "claim"
  /\ outboxTail = "clean"
  /\ \E c \in Unsynced :
       /\ IsNext(c)
       /\ claimed' = c
       /\ outbox' = MarkOutboxItem(c, "syncing")
  /\ syncAt' = "post"
  /\ Send
  /\ UNCHANGED <<events, eventsTail, outboxTail, memoryVars, writeVars, maxCursor,
                 cloudVars, late, failures>>

FinishRun ==
  /\ syncAt = "claim"
  /\ outboxTail = "clean"
  /\ Unsynced = {}
  /\ EndRun
  /\ UNCHANGED <<localVars, memoryVars, writeVars, cloudVars, late, failures>>

\* The outbox cannot be read, or the claim cannot be written.
ClaimFails ==
  /\ syncAt = "claim"
  /\ IF outboxTail = "clean" THEN Inject ELSE UNCHANGED failures
  /\ EndRun
  /\ UNCHANGED <<localVars, memoryVars, writeVars, cloudVars, late>>

\* The run's copy of its item; an item's event never changes.
ClaimedEvent == outbox[claimed].event

InFlight == [kind |-> syncAt, event |-> ClaimedEvent]

HasBinary(e) == e.payload \in AudioPayload

\* The event has been accepted: the binary of an audio chunk follows.
SendBinary ==
  /\ syncAt = "post" /\ wire = "ok"
  /\ HasBinary(ClaimedEvent)
  /\ syncAt' = "put"
  /\ Send
  /\ UNCHANGED <<localVars, memoryVars, writeVars, maxCursor, claimed, cloudVars, late, failures>>

PushedBeforeBinary == wire = "ok" /\ syncAt \in {"post", "put"}

PushedWhateverTheAnswer == wire \in {"ok", "error"} /\ syncAt \in {"post", "put"}

\* The push has succeeded as a whole.
Pushed ==
  /\ wire = "ok"
  /\ \/ syncAt = "put"
     \/ syncAt = "post" /\ ~HasBinary(ClaimedEvent)

MarkSynced ==
  /\ Pushed
  /\ outboxTail = "clean"
  /\ outbox' = MarkOutboxItem(claimed, "synced")
  /\ syncAt' = "claim" /\ claimed' = 0 /\ wire' = "none"
  /\ UNCHANGED <<events, eventsTail, outboxTail, memoryVars, writeVars, maxCursor,
                 cloudVars, late, failures>>

\* Recording the success fails: the catch clause treats it as a failed push.
MarkSyncedFails ==
  /\ Pushed
  /\ IF outboxTail = "clean" THEN Inject ELSE UNCHANGED failures
  /\ wire' = "error"
  /\ UNCHANGED <<localVars, memoryVars, writeVars, syncAt, maxCursor, claimed, cloudVars, late>>

\* The first failure ends the run.
MarkFailed ==
  /\ wire = "error"
  /\ outboxTail = "clean"
  /\ outbox' = MarkOutboxItem(claimed, "failed")
  /\ EndRun
  /\ UNCHANGED <<events, eventsTail, outboxTail, memoryVars, writeVars, cloudVars, late, failures>>

\* Recording the failure fails: the run throws and the item stays syncing.
MarkFailedFails ==
  /\ wire = "error"
  /\ IF outboxTail = "clean" THEN Inject ELSE UNCHANGED failures
  /\ EndRun
  /\ UNCHANGED <<localVars, memoryVars, writeVars, cloudVars, late>>

-----------------------------------------------------------------------------
(* The receiver and the network.                                           *)

\* receiveEvent, for the envelope e: the next event is stored, a stored one is
\* acknowledged again, anything else is answered by an error.
Stored(e) == e.cursor = Len(inbox) + 1 /\ e.payload \notin Refused
Duplicate(e) == e.cursor \in DOMAIN inbox /\ inbox[e.cursor] = e
Accepts(e) == Stored(e) \/ Duplicate(e)

ReceiveEvent(e) ==
  /\ inbox' = IF Stored(e) THEN Append(inbox, e) ELSE inbox
  /\ UNCHANGED artifacts

\* receiveAudioChunk: the metadata must have been received; idempotent.
Receivable(e) == e.cursor \in DOMAIN inbox /\ inbox[e.cursor] = e

ReceiveAudioChunk(e) ==
  /\ artifacts' = IF Receivable(e) THEN artifacts \cup {e.cursor} ELSE artifacts
  /\ UNCHANGED inbox

Receive(r) == IF r.kind = "post" THEN ReceiveEvent(r.event) ELSE ReceiveAudioChunk(r.event)

AnswerTo(r) ==
  IF IF r.kind = "post" THEN Accepts(r.event) ELSE Receivable(r.event) THEN "ok" ELSE "error"

HandleRequest ==
  /\ wire = "sent"
  /\ Receive(InFlight)
  /\ wire' = AnswerTo(InFlight)
  /\ UNCHANGED <<localVars, memoryVars, writeVars, syncAt, maxCursor, claimed, late, failures>>

\* The client gives the request up; the network may still deliver it.
Abandon == late' \in {late, late \cup {InFlight}}

RequestFails ==
  /\ wire = "sent"
  /\ Inject
  /\ wire' = "error"
  /\ Abandon
  /\ UNCHANGED <<localVars, memoryVars, writeVars, syncAt, maxCursor, claimed, cloudVars>>

HandleLateRequest ==
  /\ \E r \in late : Receive(r) /\ late' = late \ {r}
  /\ UNCHANGED <<localVars, memoryVars, writeVars, syncVars, failures>>

-----------------------------------------------------------------------------
(* The process.                                                            *)

\* initialize: validate the store, complete the outbox, replay the events.
Start ==
  /\ lifecycle = "down"
  /\ StoreLoads
  /\ outbox' = Reconciled(outbox)
  /\ eventLog' = events
  /\ lifecycle' = "ready"
  /\ UNCHANGED <<events, eventsTail, outboxTail, persistenceFault, writeVars, syncVars,
                 cloudVars, late, failures>>

\* close: no further run starts, and the request in flight is aborted.
Close ==
  /\ lifecycle = "ready"
  /\ lifecycle' = "closing"
  /\ IF wire = "sent" THEN wire' = "error" /\ Abandon ELSE UNCHANGED <<wire, late>>
  /\ UNCHANGED <<localVars, persistenceFault, eventLog, writeVars, syncAt, maxCursor, claimed,
                 cloudVars, failures>>

Forget == lifecycle' = "down" /\ persistenceFault' = "none" /\ eventLog' = <<>>

\* The queues are drained before the data root is given up.
Drained == writeAt = "idle" /\ syncAt = "idle"

CloseDone ==
  /\ lifecycle = "closing"
  /\ Drained
  /\ Forget
  /\ UNCHANGED <<localVars, writeVars, syncVars, cloudVars, late, failures>>

\* The process dies.  An append in progress may leave part of its line.
Crash ==
  /\ Running
  /\ Inject
  /\ eventsTail' \in IF writeAt = "append" THEN {eventsTail, "torn"} ELSE {eventsTail}
  /\ outboxTail' \in IF writeAt = "outbox" THEN {outboxTail, "torn"} ELSE {outboxTail}
  /\ IF wire = "sent" THEN Abandon ELSE UNCHANGED late
  /\ Forget
  /\ writeAt' = "idle" /\ draft' = NoEvent
  /\ EndRun
  /\ UNCHANGED <<events, outbox, cloudVars>>

\* The operator removes a partial line from a store that does not load.
RepairStorage ==
  /\ lifecycle = "down"
  /\ "torn" \in {eventsTail, outboxTail}
  /\ eventsTail' = "clean" /\ outboxTail' = "clean"
  /\ UNCHANGED <<events, outbox, memoryVars, writeVars, syncVars, cloudVars, late, failures>>

-----------------------------------------------------------------------------
Mutation ==
  \/ BeginMutation \/ AppendEvent \/ AppendEventFails \/ AppendEventRollbackFails
  \/ AppendOutbox \/ AppendOutboxFails \/ RepairOutbox \/ RepairOutboxFails

SyncRun ==
  \/ StartRun \/ Claim \/ FinishRun \/ ClaimFails \/ SendBinary
  \/ MarkSynced \/ MarkSyncedFails \/ MarkFailed \/ MarkFailedFails

Network == HandleRequest \/ RequestFails \/ HandleLateRequest

Process == Start \/ Close \/ CloseDone \/ Crash \/ RepairStorage

Next == Mutation \/ SyncRun \/ Network \/ Process

Spec == Init /\ [][Next]_vars

-----------------------------------------------------------------------------
(* Properties.                                                             *)

\* The values the state can hold.
TypeOK ==
  /\ lifecycle \in {"down", "ready", "closing"}
  /\ persistenceFault \in {"none", "event-append", "outbox-repair"}
  /\ events \in Seq(Event) /\ eventLog \in Seq(Event) /\ inbox \in Seq(Event)
  /\ eventsTail \in {"clean", "torn"} /\ outboxTail \in {"clean", "torn"}
  /\ outbox \in [Cursors -> Item]
  /\ writeAt \in {"idle", "append", "outbox", "repair"}
  /\ draft \in Event \cup {NoEvent}
  /\ syncAt \in {"idle", "claim", "post", "put"}
  /\ maxCursor \in Nat /\ claimed \in Nat
  /\ wire \in {"none", "sent", "ok", "error"}
  /\ late \subseteq Request
  /\ artifacts \subseteq Nat
  /\ failures \in Nat

IsPrefixOf(s, t) == Len(s) <= Len(t) /\ \A i \in DOMAIN s : s[i] = t[i]

\* Whatever mixture of failed appends, failed roll-backs, latched faults,
\* repairs and crashes came before, the complete lines of the two files never
\* reach a state the validation of initialize rejects: cursors run from 1
\* without gap or repetition and every outbox item is that of its event
\* (readEvents, validateEventTimeline, reconcileOutbox).
StoreStaysLoadable == ValidTimeline /\ ItemsMatchEvents

\* Every event the running service has acknowledged and shown to subscribers
\* is in events.jsonl under its cursor; the file is ahead of the service only
\* by the one event whose failed append could not be rolled back, and only
\* while the service refuses further mutations (appendEvent).
AcknowledgedIsDurable ==
  Running =>
    /\ IsPrefixOf(eventLog, events)
    /\ persistenceFault # "event-append" => events = eventLog
    /\ Len(events) <= Len(eventLog) + 1

\* While the service runs without a fault, every acknowledged event has its
\* outbox item, save the one whose item is just being appended or repaired
\* (appendEvent): no event is silently left out of synchronisation.
OutboxCoversEvents ==
  (Running /\ persistenceFault # "outbox-repair") =>
    \A i \in DOMAIN eventLog :
      i \in Cursors \/ (writeAt \in {"outbox", "repair"} /\ draft = eventLog[i])

\* The receiver holds the first events of this very device's file, none
\* skipped, reordered, repeated or altered, although requests are retried,
\* abandoned and handled late (runSyncOperation, receiveEvent).
InboxIsPrefixOfEvents == IsPrefixOf(inbox, events)

\* An item is marked synced only if the receiver stored that event, and the
\* binary as well when it is an audio chunk: what is never sent again
\* is not lost (pushOutboxItem, updateOutboxItemStatus).
SyncedWasDelivered ==
  \A c \in Cursors : outbox[c].status = "synced" =>
    /\ c \in DOMAIN inbox /\ inbox[c] = outbox[c].event
    /\ HasBinary(outbox[c].event) => c \in artifacts

\* The synced items are the first ones of the outbox: a run stops at its first
\* failure, so no later event overtakes an unsynced one (runSyncOperation).
SyncedIsPrefix ==
  \A c \in Cursors : outbox[c].status = "synced" =>
    \A d \in 1 .. c : d \in Cursors /\ outbox[d].status = "synced"

Requests == late \cup IF wire = "sent" THEN {InFlight} ELSE {}

\* No request that can still reach the receiver is out of turn or in conflict:
\* an envelope is the next event or repeats a stored one exactly, and a binary
\* follows its event.  So a late request is never answered by the 409 of a
\* gap or of a differing hash, and cannot change what is stored.
RequestsAreInTurn ==
  \A r \in Requests :
    /\ r.event.cursor \in DOMAIN events /\ events[r.event.cursor] = r.event
    /\ r.event.cursor <= Len(inbox) + 1
    /\ r.kind = "put" => r.event.cursor <= Len(inbox)

\* What the service promises of its own files: it can start from them, they hold what
\* it has shown, and the outbox leaves out nothing (appendEvent, reconcileOutbox).
DeviceKeepsItsEvents == StoreStaysLoadable /\ AcknowledgedIsDurable /\ OutboxCoversEvents

\* What the service may conclude of the receiver: it holds a prefix of the events, what
\* is marked synced is there, in order, and no late request can change that
\* (runSyncOperation, pushOutboxItem, receiveEvent).
ReceiverFollowsDevice ==
  InboxIsPrefixOfEvents /\ SyncedWasDelivered /\ SyncedIsPrefix /\ RequestsAreInTurn

\* A synced item stays synced, whatever crashes, repairs and further runs do
\* to the outbox file (markOutboxItem, reconcileOutbox).
SyncedIsFinal ==
  [][\A c \in Cursors : outbox[c].status = "synced" =>
       c \in DOMAIN outbox' /\ outbox'[c] = outbox[c]]_vars

-----------------------------------------------------------------------------
(* The log the device keeps and the receiver replicates.                   *)

SyncedCursors == {c \in Cursors : outbox[c].status = "synced"}

Abstract == INSTANCE ReplicatedLog WITH
  log <- events, replica <- inbox, acked <- Cardinality(SyncedCursors)

\* Every step of the store, the sync run, the network and the receiver is an
\* append to the log, an in-order delivery, the acknowledgement of
\* one delivery, or invisible.
ImplementsReplicatedLog == Abstract!Spec

-----------------------------------------------------------------------------
(* Progress.                                                               *)

\* The steps the event loop, the interval timer of startAutoSync and a
\* reachable receiver take without being asked.  Failures, crashes, user
\* requests and the operator are not fair.
Fairness ==
  /\ WF_vars(StartRun)
  /\ WF_vars(Claim \/ FinishRun)
  /\ WF_vars(SendBinary \/ MarkSynced)
  /\ WF_vars(MarkFailed)
  /\ WF_vars(HandleRequest)
  /\ WF_vars(AppendEvent) /\ WF_vars(AppendOutbox)
  /\ WF_vars(RepairOutbox \/ RepairOutboxFails)

FairSpec == Spec /\ Fairness

StaysUp == <>[](lifecycle = "ready" /\ persistenceFault = "none")

\* The events up to cursor c are written, and the receiver takes them all.
Deliverable(c) ==
  c \in DOMAIN events /\ \A d \in 1 .. c : events[d].payload \notin Refused

\* If the service eventually stays up without a fault, every event with no
\* refused event at or before it is eventually marked synced, those included
\* that an earlier run failed on or left in status syncing (runAutoSync,
\* runSyncOperation).
EventuallySynced ==
  StaysUp => \A c \in 1 .. MaxEvents : Deliverable(c) ~> (c \in SyncedCursors)

=============================================================================
