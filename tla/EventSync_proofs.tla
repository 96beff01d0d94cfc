-------------------------- MODULE EventSync_proofs --------------------------
(***************************************************************************)
(* Proofs about EventSync for every set of payloads and every bound: the   *)
(* type invariant, the safety invariants, the action property              *)
(* SyncedIsFinal, and the refinement of ReplicatedLog.  None of the        *)
(* invariants is inductive alone.  The strengthening IInv ties the control *)
(* point of the event mutation to the two files (FilesInv), and the        *)
(* claimed item and every request in the network to the inbox (CloudInv).  *)
(***************************************************************************)
EXTENDS EventSync, FiniteSetTheorems, TLAPS

\* The memory of the process against its files.
MemoryInv ==
  /\ lifecycle = "down" =>
       /\ eventLog = <<>> /\ persistenceFault = "none"
       /\ writeAt = "idle" /\ syncAt = "idle"
  /\ eventsTail = "torn" => lifecycle = "down" \/ persistenceFault = "event-append"
  /\ outboxTail = "torn" =>
       lifecycle = "down" \/ writeAt = "repair" \/ persistenceFault = "outbox-repair"
  /\ writeAt # "idle" => persistenceFault = "none"

\* The event mutation in progress.
WriteInv ==
  /\ writeAt = "append" => draft \in Event /\ draft.cursor = Len(events) + 1
  /\ writeAt \in {"outbox", "repair"} => Len(events) > 0 /\ draft = events[Len(events)]
  /\ writeAt = "outbox" => Len(events) \notin Cursors

\* Only the last event can lack its item.
OutboxGap == \A i \in DOMAIN events : i < Len(events) => i \in Cursors

\* The sync run in flight.
SyncInv ==
  /\ wire = "none" <=> syncAt \in {"idle", "claim"}
  /\ syncAt \in {"post", "put"} =>
       /\ claimed \in Cursors /\ outbox[claimed].status = "syncing"
       /\ \A d \in 1 .. claimed - 1 : d \in Cursors /\ outbox[d].status = "synced"
  /\ syncAt = "put" => claimed <= Len(inbox)
  /\ syncAt = "post" /\ wire = "ok" => claimed <= Len(inbox)
  /\ syncAt = "put" /\ wire = "ok" => claimed \in artifacts

InTurn(r) ==
  /\ r.event.cursor \in DOMAIN events /\ events[r.event.cursor] = r.event
  /\ r.event.cursor <= Len(inbox) + 1
  /\ r.kind = "put" => r.event.cursor <= Len(inbox)

LateInv == \A r \in late : InTurn(r)

\* What holds of the local files, memory and queue.
FilesInv ==
  /\ StoreStaysLoadable
  /\ AcknowledgedIsDurable
  /\ OutboxCoversEvents
  /\ MemoryInv /\ WriteInv /\ OutboxGap

\* What holds of the sync run, the network and the receiver.
CloudInv ==
  /\ InboxIsPrefixOfEvents
  /\ SyncedWasDelivered
  /\ SyncedIsPrefix
  /\ SyncInv /\ LateInv

IInv == TypeOK /\ FilesInv /\ CloudInv

-----------------------------------------------------------------------------
(* The three ways an outbox file is rewritten.                             *)

\* Marking an item changes its status only (markOutboxItem).
LEMMA Marked ==
  ASSUME TypeOK, NEW c \in Cursors, NEW s \in Status
  PROVE  /\ DOMAIN MarkOutboxItem(c, s) = Cursors
         /\ MarkOutboxItem(c, s) \in [Cursors -> Item]
         /\ MarkOutboxItem(c, s)[c].event = outbox[c].event
         /\ MarkOutboxItem(c, s)[c].status = s
         /\ \A d \in Cursors : d # c => MarkOutboxItem(c, s)[d] = outbox[d]
  BY DEF TypeOK, MarkOutboxItem, Cursors, Item

\* A new item is an item (createOutboxItem).
LEMMA Created ==
  ASSUME NEW e \in Event
  PROVE  CreateOutboxItem(e) \in Item
  BY DEF CreateOutboxItem, Item, Status

\* Appending an item keeps the outbox a function to items.
LEMMA Extended ==
  ASSUME TypeOK, NEW e \in Event
  PROVE  LET o == WithItem(outbox, e.cursor, CreateOutboxItem(e)) IN
         /\ DOMAIN o = Cursors \cup {e.cursor}
         /\ o \in [Cursors \cup {e.cursor} -> Item]
  <1>. DEFINE o == WithItem(outbox, e.cursor, CreateOutboxItem(e))
  <1>1. CreateOutboxItem(e) \in Item
    BY Created
  <1>2. \A c \in Cursors : outbox[c] \in Item
    BY DEF TypeOK
  <1>3. QED
    BY <1>1, <1>2 DEF WithItem, Cursors

\* Reconciling keeps every item and adds those that are missing.
LEMMA Completed ==
  ASSUME TypeOK
  PROVE  /\ DOMAIN Reconciled(outbox) = Cursors \cup DOMAIN events
         /\ Reconciled(outbox) \in [Cursors \cup DOMAIN events -> Item]
         /\ \A c \in Cursors : Reconciled(outbox)[c] = outbox[c]
         /\ \A c \in DOMAIN events \ Cursors :
              Reconciled(outbox)[c] = CreateOutboxItem(events[c])
  <1>1. \A c \in DOMAIN events : CreateOutboxItem(events[c]) \in Item
    BY Created DEF TypeOK
  <1>2. \A c \in Cursors : outbox[c] \in Item
    BY DEF TypeOK
  <1>3. QED
    BY <1>1, <1>2 DEF Reconciled, Cursors

\* The receiver stores events and cursors.
LEMMA ReceiveTypes ==
  ASSUME TypeOK, NEW r, r.event \in Event, Receive(r)
  PROVE  inbox' \in Seq(Event) /\ artifacts' \subseteq Nat
  <1>1. DOMAIN inbox \subseteq Nat /\ inbox \in Seq(Event) /\ artifacts \subseteq Nat
    BY DEF TypeOK
  <1>2. inbox' = inbox \/ inbox' = Append(inbox, r.event)
    BY DEF Receive, ReceiveEvent, ReceiveAudioChunk
  <1>3. artifacts' = artifacts \/ (r.event.cursor \in DOMAIN inbox
                                    /\ artifacts' = artifacts \cup {r.event.cursor})
    BY DEF Receive, ReceiveEvent, ReceiveAudioChunk, Receivable
  <1>4. inbox' \in Seq(Event)
    BY <1>1, <1>2
  <1>5. artifacts' \subseteq Nat
    BY <1>1, <1>3
  <1>6. QED
    BY <1>4, <1>5

\* Every step preserves the type invariant.
LEMMA TypeStep == IInv /\ [Next]_vars => TypeOK'
  <1>. SUFFICES ASSUME IInv, [Next]_vars PROVE TypeOK'
    OBVIOUS
  <1>. USE DEF localVars, memoryVars, writeVars, syncVars, cloudVars
  <1>0. TypeOK
    BY DEF IInv
  <1>1. CASE BeginMutation
    <2>1. LastCursor \in Nat
      <3>1. eventLog # <<>> => eventLog[Len(eventLog)] \in Event
        BY <1>0 DEF TypeOK
      <3>2. QED
        BY <3>1 DEF LastCursor, Event
    <2>2. draft' \in Event
      BY <1>1, <2>1 DEF BeginMutation, NextCursor, Event
    <2>3. QED
      BY <1>0, <1>1, <2>2 DEF BeginMutation, TypeOK, Cursors
  <1>2. CASE AppendEvent
    <2>1. draft \in Event
      BY <1>2 DEF IInv, FilesInv, WriteInv, AppendEvent
    <2>2. events' \in Seq(Event) /\ eventLog' \in Seq(Event)
      BY <1>0, <1>2, <2>1 DEF AppendEvent, EventLine, TypeOK
    <2>3. QED
      BY <1>0, <1>2, <2>2 DEF AppendEvent, TypeOK, Cursors
  <1>3. CASE AppendEventFails
    BY <1>0, <1>3 DEF AppendEventFails, Inject, TypeOK, Cursors
  <1>4. CASE AppendEventRollbackFails
    <2>1. draft \in Event
      BY <1>4 DEF IInv, FilesInv, WriteInv, AppendEventRollbackFails
    <2>2. events' = events \/ events' = Append(events, draft)
      BY <1>4 DEF AppendEventRollbackFails, EventLine
    <2>3. events \in Seq(Event)
      BY <1>0 DEF TypeOK
    <2>4. events' \in Seq(Event)
      BY <2>1, <2>2, <2>3
    <2>5. eventsTail' \in {"clean", "torn"}
      BY <1>0, <1>4 DEF AppendEventRollbackFails, TypeOK
    <2>6. QED
      BY <1>0, <1>4, <2>4, <2>5 DEF AppendEventRollbackFails, Inject, TypeOK, Cursors
  <1>5. CASE AppendOutbox \/ AppendOutboxFails
    <2>1. draft \in Event
      BY <1>0, <1>5 DEF IInv, FilesInv, WriteInv, AppendOutbox, AppendOutboxFails, TypeOK
    <2>2. outbox' = outbox \/ outbox' = WithItem(outbox, draft.cursor, CreateOutboxItem(draft))
      BY <1>5 DEF AppendOutbox, AppendOutboxFails, OutboxLine
    <2>3. outbox' \in [DOMAIN outbox' -> Item]
      BY <1>0, <2>1, <2>2, Extended DEF TypeOK, Cursors
    <2>4. QED
      BY <1>0, <1>5, <2>3 DEF AppendOutbox, AppendOutboxFails, Inject, TypeOK, Cursors
  <1>6. CASE RepairOutbox \/ Start
    <2>1. outbox' \in [DOMAIN outbox' -> Item]
      BY <1>0, <1>6, Completed DEF RepairOutbox, Start
    <2>2. QED
      BY <1>0, <1>6, <2>1 DEF RepairOutbox, Start, TypeOK, Cursors
  <1>7. CASE RepairOutboxFails
    BY <1>0, <1>7 DEF RepairOutboxFails, Inject, TypeOK, Cursors
  <1>8. CASE StartRun
    <2>1. Cursors \subseteq Nat
      BY DEF IInv, FilesInv, StoreStaysLoadable, ItemsMatchEvents, TypeOK
    <2>2. maxCursor' \in Nat
      BY <1>8, <2>1 DEF StartRun
    <2>3. QED
      BY <1>0, <1>8, <2>2 DEF StartRun, TypeOK, Cursors
  <1>9. CASE Claim
    <2>1. PICK c \in Unsynced : claimed' = c /\ outbox' = MarkOutboxItem(c, "syncing")
      BY <1>9 DEF Claim
    <2>2. c \in Cursors /\ c \in Nat
      BY <2>1 DEF Unsynced, IInv, FilesInv, StoreStaysLoadable, ItemsMatchEvents, TypeOK
    <2>3. outbox' \in [DOMAIN outbox' -> Item]
      BY <1>0, <2>1, <2>2, Marked DEF Status
    <2>4. QED
      BY <1>0, <1>9, <2>1, <2>2, <2>3 DEF Claim, Send, TypeOK, Cursors
  <1>10. CASE FinishRun \/ ClaimFails \/ SendBinary \/ MarkSyncedFails \/ MarkFailedFails
    BY <1>0, <1>10 DEF FinishRun, ClaimFails, SendBinary, MarkSyncedFails, MarkFailedFails,
       EndRun, Inject, Send, TypeOK, Cursors
  <1>11. CASE MarkSynced \/ MarkFailed
    <2>1. claimed \in Cursors
      BY <1>0, <1>11 DEF IInv, CloudInv, SyncInv, MarkSynced, MarkFailed, Pushed, TypeOK
    <2>2. outbox' \in [DOMAIN outbox' -> Item]
      BY <1>0, <1>11, <2>1, Marked DEF MarkSynced, MarkFailed, Status
    <2>3. QED
      BY <1>0, <1>11, <2>2 DEF MarkSynced, MarkFailed, EndRun, TypeOK, Cursors
  <1>12. CASE HandleRequest \/ RequestFails \/ Close \/ Crash
    <2>1. wire = "sent" => InFlight \in Request
      BY <1>0 DEF IInv, CloudInv, SyncInv, InFlight, ClaimedEvent, Request, TypeOK, Item
    <2>2. CASE HandleRequest
      <3>1. InFlight.event \in Event
        BY <2>1, <2>2 DEF HandleRequest, Request
      <3>2. inbox' \in Seq(Event) /\ artifacts' \subseteq Nat
        BY <1>0, <2>2, <3>1, ReceiveTypes DEF HandleRequest
      <3>3. wire' \in {"ok", "error"}
        BY <2>2 DEF HandleRequest, AnswerTo
      <3>4. QED
        BY <1>0, <2>2, <3>2, <3>3 DEF HandleRequest, TypeOK, Cursors
    <2>3. CASE RequestFails
      BY <1>0, <2>1, <2>3 DEF RequestFails, Abandon, Inject, TypeOK, Cursors
    <2>4. CASE Close
      BY <1>0, <2>1, <2>4 DEF Close, Abandon, TypeOK, Cursors
    <2>5. CASE Crash
      BY <1>0, <2>1, <2>5 DEF Crash, Abandon, Inject, Forget, EndRun, TypeOK, Cursors
    <2>6. QED
      BY <1>12, <2>2, <2>3, <2>4, <2>5
  <1>13. CASE HandleLateRequest
    <2>1. PICK r \in late : Receive(r) /\ late' = late \ {r}
      BY <1>13 DEF HandleLateRequest
    <2>2. r.event \in Event
      BY <1>0 DEF TypeOK, Request
    <2>3. inbox' \in Seq(Event) /\ artifacts' \subseteq Nat
      BY <1>0, <2>1, <2>2, ReceiveTypes
    <2>4. QED
      BY <1>0, <1>13, <2>1, <2>3 DEF HandleLateRequest, TypeOK, Cursors
  <1>14. CASE CloseDone
    BY <1>0, <1>14 DEF CloseDone, Forget, TypeOK, Cursors
  <1>15. CASE RepairStorage
    BY <1>0, <1>15 DEF RepairStorage, TypeOK, Cursors
  <1>16. CASE UNCHANGED vars
    BY <1>0, <1>16 DEF vars, TypeOK, Cursors
  <1>17. QED
    BY <1>1, <1>2, <1>3, <1>4, <1>5, <1>6, <1>7, <1>8, <1>9, <1>10, <1>11, <1>12, <1>13,
       <1>14, <1>15, <1>16 DEF Next, Mutation, SyncRun, Network, Process

-----------------------------------------------------------------------------
(* The local files.                                                        *)

\* A step that touches neither the events, the memory nor the queue, and at
\* most the status of outbox items.
LEMMA FilesFrame ==
  ASSUME FilesInv,
         UNCHANGED <<events, eventsTail, outboxTail, memoryVars, writeVars>>,
         DOMAIN outbox' = Cursors,
         \A c \in Cursors : outbox'[c].event = outbox[c].event,
         lifecycle # "down"
  PROVE  FilesInv'
  BY DEF FilesInv, StoreStaysLoadable, ValidTimeline, ItemsMatchEvents, AcknowledgedIsDurable,
     OutboxCoversEvents, MemoryInv, WriteInv, OutboxGap, IsPrefixOf, Running, Cursors,
     memoryVars, writeVars

\* Every step preserves what holds of the files, the memory and the queue.
LEMMA FilesStep == IInv /\ [Next]_vars => FilesInv'
  <1>. SUFFICES ASSUME IInv, [Next]_vars PROVE FilesInv'
    OBVIOUS
  <1>. USE DEF localVars, memoryVars, writeVars, syncVars, cloudVars, FilesInv,
       StoreStaysLoadable, ValidTimeline, ItemsMatchEvents, AcknowledgedIsDurable,
       OutboxCoversEvents, MemoryInv, WriteInv, OutboxGap, IsPrefixOf, Running, Cursors
  <1>0. TypeOK /\ FilesInv
    BY DEF IInv
  <1>1. CASE BeginMutation
    <2>1. LastCursor = Len(events) /\ events = eventLog
      BY <1>0, <1>1 DEF BeginMutation, MutationAllowed, LastCursor, TypeOK
    <2>2. draft' \in Event /\ draft'.cursor = Len(events) + 1
      BY <1>0, <1>1, <2>1 DEF BeginMutation, NextCursor, Event, TypeOK
    <2>3. QED
      BY <1>0, <1>1, <2>1, <2>2 DEF BeginMutation, MutationAllowed
  <1>2. CASE AppendEvent
    BY <1>0, <1>2 DEF AppendEvent, EventLine, TypeOK
  <1>3. CASE AppendEventFails
    BY <1>0, <1>3 DEF AppendEventFails
  <1>4. CASE AppendEventRollbackFails
    <2>1. draft \in Event /\ draft.cursor = Len(events) + 1 /\ eventsTail = "clean"
      BY <1>0, <1>4 DEF AppendEventRollbackFails, TypeOK
    <2>2. events' = events \/ events' = Append(events, draft)
      BY <1>4 DEF AppendEventRollbackFails, EventLine
    <2>3. /\ UNCHANGED <<outbox, outboxTail, lifecycle, eventLog>>
          /\ writeAt = "append" /\ writeAt' = "idle" /\ persistenceFault' = "event-append"
      BY <1>4 DEF AppendEventRollbackFails
    <2>4. Running
      BY <1>0, <2>3 DEF TypeOK
    <2>5. eventLog = events /\ events \in Seq(Event)
      <3>1. persistenceFault = "none"
        BY <1>0, <2>3
      <3>2. QED
        BY <1>0, <2>4, <3>1 DEF TypeOK
    <2>6. OutboxGap'
      <3>1. \A i \in DOMAIN events : i \in Cursors
        BY <1>0, <2>3, <2>4, <2>5
      <3>2. QED
        BY <2>1, <2>2, <2>3, <2>5, <3>1
    <2>7. StoreStaysLoadable'
      BY <1>0, <2>1, <2>2, <2>3, <2>5
    <2>8. AcknowledgedIsDurable'
      BY <2>1, <2>2, <2>3, <2>5
    <2>9. OutboxCoversEvents'
      BY <1>0, <2>3, <2>4
    <2>10. MemoryInv' /\ WriteInv'
      <3>1. outboxTail' = "torn" => FALSE
        BY <1>0, <2>3, <2>4
      <3>2. lifecycle' # "down"
        BY <2>3, <2>4
      <3>3. QED
        BY <2>3, <3>1, <3>2
    <2>11. QED
      BY <2>6, <2>7, <2>8, <2>9, <2>10
  <1>5. CASE AppendOutbox
    BY <1>0, <1>5 DEF AppendOutbox, OutboxLine, WithItem, CreateOutboxItem, TypeOK
  <1>6. CASE AppendOutboxFails
    BY <1>0, <1>6 DEF AppendOutboxFails, OutboxLine, WithItem, CreateOutboxItem, TypeOK
  <1>7. CASE RepairOutbox
    BY <1>0, <1>7 DEF RepairOutbox, StoreLoads, Reconciled, CreateOutboxItem, TypeOK
  <1>8. CASE RepairOutboxFails
    BY <1>0, <1>8 DEF RepairOutboxFails, StoreLoads
  <1>9. CASE SyncRun \/ Network
    <2>1. CASE StartRun
      BY <1>0, <2>1, FilesFrame DEF StartRun
    <2>2. syncAt # "idle" => lifecycle # "down"
      BY <1>0
    <2>3. wire # "none" => syncAt \in {"post", "put"} /\ claimed \in Cursors
      BY <1>0 DEF IInv, CloudInv, SyncInv, TypeOK
    <2>4. CASE Claim
      <3>1. PICK c \in Cursors : outbox' = MarkOutboxItem(c, "syncing")
        BY <2>4 DEF Claim, Unsynced
      <3>. HIDE DEF Cursors, FilesInv
      <3>2. DOMAIN outbox' = Cursors /\ \A d \in Cursors : outbox'[d].event = outbox[d].event
        BY <1>0, <3>1, Marked DEF Status
      <3>3. QED
        BY <1>0, <2>2, <2>4, <3>2, FilesFrame DEF Claim
    <2>5. CASE FinishRun
      BY <1>0, <2>2, <2>5, FilesFrame DEF FinishRun
    <2>6. CASE ClaimFails
      BY <1>0, <2>2, <2>6, FilesFrame DEF ClaimFails
    <2>7. CASE SendBinary
      BY <1>0, <2>2, <2>7, FilesFrame DEF SendBinary
    <2>8. CASE MarkSynced
      <3>1. claimed \in Cursors /\ outbox' = MarkOutboxItem(claimed, "synced")
        BY <2>3, <2>8 DEF MarkSynced, Pushed
      <3>. HIDE DEF Cursors, FilesInv
      <3>2. DOMAIN outbox' = Cursors /\ \A d \in Cursors : outbox'[d].event = outbox[d].event
        BY <1>0, <3>1, Marked DEF Status
      <3>3. QED
        BY <1>0, <2>2, <2>3, <2>8, <3>2, FilesFrame DEF MarkSynced, Pushed
    <2>9. CASE MarkSyncedFails
      BY <1>0, <2>2, <2>3, <2>9, FilesFrame DEF MarkSyncedFails, Pushed
    <2>10. CASE MarkFailed
      <3>1. claimed \in Cursors /\ outbox' = MarkOutboxItem(claimed, "failed")
        BY <2>3, <2>10 DEF MarkFailed
      <3>. HIDE DEF Cursors, FilesInv
      <3>2. DOMAIN outbox' = Cursors /\ \A d \in Cursors : outbox'[d].event = outbox[d].event
        BY <1>0, <3>1, Marked DEF Status
      <3>3. QED
        BY <1>0, <2>2, <2>3, <2>10, <3>2, FilesFrame DEF MarkFailed
    <2>11. CASE MarkFailedFails
      BY <1>0, <2>2, <2>3, <2>11, FilesFrame DEF MarkFailedFails
    <2>12. CASE HandleRequest
      BY <1>0, <2>2, <2>3, <2>12, FilesFrame DEF HandleRequest
    <2>13. CASE RequestFails
      BY <1>0, <2>2, <2>3, <2>13, FilesFrame DEF RequestFails
    <2>14. CASE HandleLateRequest
      BY <1>0, <2>14 DEF HandleLateRequest
    <2>15. QED
      BY <1>9, <2>1, <2>4, <2>5, <2>6, <2>7, <2>8, <2>9, <2>10, <2>11, <2>12, <2>13, <2>14
         DEF SyncRun, Network
  <1>10. CASE Start
    BY <1>0, <1>10 DEF Start, StoreLoads, Reconciled, CreateOutboxItem, TypeOK
  <1>11. CASE Close
    BY <1>0, <1>11 DEF Close
  <1>12. CASE CloseDone
    BY <1>0, <1>12 DEF CloseDone, Forget, Drained
  <1>13. CASE Crash
    BY <1>0, <1>13 DEF Crash, Forget, EndRun
  <1>14. CASE RepairStorage
    BY <1>0, <1>14 DEF RepairStorage
  <1>15. CASE UNCHANGED vars
    BY <1>0, <1>15 DEF vars
  <1>16. QED
    BY <1>1, <1>2, <1>3, <1>4, <1>5, <1>6, <1>7, <1>8, <1>9, <1>10, <1>11, <1>12, <1>13,
       <1>14, <1>15 DEF Next, Mutation, Process

-----------------------------------------------------------------------------
(* The sync run, the network and the receiver.                             *)

\* A step of the store: the event file grows, existing items are kept, and new
\* items are not synced.
LEMMA CloudFrame ==
  ASSUME TypeOK, CloudInv,
         UNCHANGED <<syncAt, claimed, wire, cloudVars, late>>,
         IsPrefixOf(events, events'),
         Cursors \subseteq DOMAIN outbox',
         \A c \in Cursors : outbox'[c] = outbox[c],
         \A c \in DOMAIN outbox' \ Cursors : outbox'[c].status # "synced"
  PROVE  CloudInv'
  <1>. USE DEF cloudVars
  <1>1. InboxIsPrefixOfEvents'
    BY DEF CloudInv, InboxIsPrefixOfEvents, IsPrefixOf, TypeOK
  <1>2. SyncedWasDelivered'
    BY DEF CloudInv, SyncedWasDelivered, Cursors, HasBinary
  <1>3. SyncedIsPrefix'
    BY DEF CloudInv, SyncedIsPrefix, Cursors
  <1>4. SyncInv'
    BY DEF CloudInv, SyncInv, Cursors
  <1>5. LateInv'
    BY DEF CloudInv, LateInv, InTurn, IsPrefixOf, TypeOK
  <1>6. QED
    BY <1>1, <1>2, <1>3, <1>4, <1>5 DEF CloudInv

\* A step that leaves the files and the receiver alone.
LEMMA RunFrame ==
  ASSUME CloudInv, UNCHANGED <<events, outbox, cloudVars>>, SyncInv', LateInv'
  PROVE  CloudInv'
  BY DEF CloudInv, InboxIsPrefixOfEvents, IsPrefixOf, SyncedWasDelivered, SyncedIsPrefix,
     Cursors, cloudVars

\* The request in flight is in turn, so it may be left to the network.
LEMMA InFlightInTurn ==
  ASSUME IInv, wire = "sent"
  PROVE  /\ InTurn(InFlight)
         /\ InFlight.event = outbox[claimed].event /\ InFlight.kind = syncAt
         /\ claimed \in Cursors /\ claimed \in DOMAIN events
         /\ outbox[claimed].event.cursor = claimed
  <1>1. syncAt \in {"post", "put"} /\ claimed \in Cursors
    BY DEF IInv, CloudInv, SyncInv, TypeOK
  <1>2. claimed \in DOMAIN events /\ outbox[claimed].event = events[claimed]
    BY <1>1 DEF IInv, FilesInv, StoreStaysLoadable, ItemsMatchEvents
  <1>3. events[claimed].cursor = claimed
    BY <1>2 DEF IInv, FilesInv, StoreStaysLoadable, ValidTimeline
  <1>4. claimed \in Nat
    BY DEF IInv, TypeOK
  <1>5. claimed <= Len(inbox) + 1
    <2>1. CASE claimed = 1
      BY <2>1 DEF IInv, TypeOK
    <2>2. CASE claimed # 1
      <3>1. claimed - 1 \in 1 .. claimed - 1
        BY <1>2, <1>4, <2>2 DEF IInv, TypeOK
      <3>2. claimed - 1 \in DOMAIN inbox
        BY <1>1, <3>1 DEF IInv, CloudInv, SyncInv, SyncedWasDelivered
      <3>3. QED
        BY <1>4, <3>2 DEF IInv, TypeOK
    <2>3. QED
      BY <2>1, <2>2
  <1>6. syncAt = "put" => claimed <= Len(inbox)
    BY DEF IInv, CloudInv, SyncInv
  <1>7. InFlight.event = outbox[claimed].event /\ InFlight.kind = syncAt
    BY DEF InFlight, ClaimedEvent
  <1>8. QED
    BY <1>1, <1>2, <1>3, <1>5, <1>6, <1>7 DEF InTurn

\* What the receiver does with a request in turn.
LEMMA Received ==
  ASSUME TypeOK, InboxIsPrefixOfEvents, UNCHANGED events,
         NEW r, InTurn(r), r.kind \in {"post", "put"}, Receive(r)
  PROVE  /\ IsPrefixOf(inbox, inbox') /\ artifacts \subseteq artifacts'
         /\ InboxIsPrefixOfEvents'
         /\ r.kind = "post" /\ AnswerTo(r) = "ok" => r.event.cursor <= Len(inbox')
         /\ r.kind = "put" => r.event.cursor \in artifacts'
  <1>0. inbox \in Seq(Event) /\ events \in Seq(Event)
    BY DEF TypeOK
  <1>1. CASE r.kind = "put"
    <2>1. r.event.cursor \in DOMAIN inbox /\ inbox[r.event.cursor] = r.event
      BY <1>0, <1>1 DEF InTurn, InboxIsPrefixOfEvents, IsPrefixOf
    <2>2. inbox' = inbox /\ artifacts' = artifacts \cup {r.event.cursor}
      BY <1>1, <2>1 DEF Receive, ReceiveAudioChunk, Receivable
    <2>3. QED
      BY <1>0, <1>1, <2>2 DEF InboxIsPrefixOfEvents, IsPrefixOf
  <1>2. CASE r.kind = "post"
    <2>1. artifacts' = artifacts
      BY <1>2 DEF Receive, ReceiveEvent
    <2>2. CASE Stored(r.event)
      <3>1. inbox' = Append(inbox, r.event) /\ r.event.cursor = Len(inbox) + 1
        BY <1>2, <2>2 DEF Receive, ReceiveEvent, Stored
      <3>2. r.event = events[Len(inbox) + 1] /\ Len(inbox) + 1 <= Len(events)
        BY <1>0, <3>1 DEF InTurn
      <3>3. r.event \in Event
        BY <1>0, <3>1, <3>2 DEF InTurn
      <3>4. QED
        BY <1>0, <1>2, <2>1, <3>1, <3>2, <3>3 DEF InboxIsPrefixOfEvents, IsPrefixOf
    <2>3. CASE ~Stored(r.event)
      <3>1. inbox' = inbox
        BY <1>2, <2>3 DEF Receive, ReceiveEvent
      <3>2. AnswerTo(r) = "ok" => r.event.cursor \in DOMAIN inbox
        BY <1>2, <2>3 DEF AnswerTo, Accepts, Duplicate
      <3>3. QED
        BY <1>0, <1>2, <2>1, <3>1, <3>2 DEF InboxIsPrefixOfEvents, IsPrefixOf
    <2>4. QED
      BY <2>2, <2>3
  <1>3. QED
    BY <1>1, <1>2

\* A growing receiver forgets nothing it has delivered or promised.
LEMMA InboxGrows ==
  ASSUME TypeOK, CloudInv, UNCHANGED <<events, outbox>>, late' \subseteq late,
         IsPrefixOf(inbox, inbox'), artifacts \subseteq artifacts', inbox' \in Seq(Event)
  PROVE  SyncedWasDelivered' /\ SyncedIsPrefix' /\ LateInv'
  <1>1. SyncedWasDelivered'
    BY DEF CloudInv, SyncedWasDelivered, IsPrefixOf, Cursors, HasBinary, TypeOK
  <1>2. SyncedIsPrefix'
    BY DEF CloudInv, SyncedIsPrefix, Cursors
  <1>3. LateInv'
    BY DEF CloudInv, LateInv, InTurn, IsPrefixOf, TypeOK, Request, Event
  <1>4. QED
    BY <1>1, <1>2, <1>3

\* Giving the request in flight up leaves a request in turn behind.
LEMMA AbandonKeepsTurn ==
  ASSUME IInv, wire = "sent", Abandon, UNCHANGED <<events, inbox>>
  PROVE  LateInv'
  <1>1. \A r \in late \cup {InFlight} : InTurn(r)
    BY InFlightInTurn DEF IInv, CloudInv, LateInv
  <1>2. QED
    BY <1>1 DEF Abandon, LateInv, InTurn

\* Every step preserves what holds of the sync run, the network and the inbox.
LEMMA CloudStep == IInv /\ [Next]_vars => CloudInv'
  <1>. SUFFICES ASSUME IInv, [Next]_vars PROVE CloudInv'
    OBVIOUS
  <1>. USE DEF localVars, memoryVars, writeVars, syncVars, cloudVars
  <1>0. TypeOK /\ FilesInv /\ CloudInv
    BY DEF IInv
  <1>a. IsPrefixOf(events, events)
    BY <1>0 DEF IsPrefixOf, TypeOK
  <1>b. \A e \in Event : IsPrefixOf(events, Append(events, e))
    BY <1>0 DEF IsPrefixOf, TypeOK
  <1>c. LateInv
    BY <1>0 DEF CloudInv
  <1>d. wire # "none" => syncAt \in {"post", "put"} /\ claimed \in Cursors
    BY <1>0 DEF CloudInv, SyncInv, TypeOK
  <1>1. CASE BeginMutation
    BY <1>0, <1>1, <1>a, CloudFrame DEF BeginMutation, Cursors
  <1>2. CASE AppendEvent
    <2>1. draft \in Event
      BY <1>0, <1>2 DEF AppendEvent, FilesInv, WriteInv
    <2>2. IsPrefixOf(events, events')
      BY <1>2, <1>a, <1>b, <2>1 DEF AppendEvent, EventLine
    <2>3. QED
      BY <1>0, <1>2, <2>2, CloudFrame DEF AppendEvent, Cursors
  <1>3. CASE AppendEventFails
    BY <1>0, <1>3, <1>a, CloudFrame DEF AppendEventFails, Cursors
  <1>4. CASE AppendEventRollbackFails
    <2>1. draft \in Event
      BY <1>0, <1>4 DEF AppendEventRollbackFails, FilesInv, WriteInv
    <2>2. IsPrefixOf(events, events')
      BY <1>4, <1>a, <1>b, <2>1 DEF AppendEventRollbackFails, EventLine
    <2>3. QED
      BY <1>0, <1>4, <2>2, CloudFrame DEF AppendEventRollbackFails, Cursors
  <1>5. CASE AppendOutbox \/ AppendOutboxFails
    <2>1. draft \in Event /\ (outbox' # outbox => draft.cursor \notin Cursors)
      <3>1. writeAt = "outbox"
        BY <1>5 DEF AppendOutbox, AppendOutboxFails
      <3>2. Len(events) > 0 /\ draft = events[Len(events)] /\ Len(events) \notin Cursors
        BY <1>0, <3>1 DEF FilesInv, WriteInv
      <3>3. draft \in Event
        BY <1>0, <3>2 DEF TypeOK
      <3>4. draft.cursor = Len(events)
        BY <1>0, <3>2 DEF FilesInv, StoreStaysLoadable, ValidTimeline, TypeOK
      <3>5. QED
        BY <3>2, <3>3, <3>4
    <2>2. outbox' = outbox \/ outbox' = WithItem(outbox, draft.cursor, CreateOutboxItem(draft))
      BY <1>5 DEF AppendOutbox, AppendOutboxFails, OutboxLine
    <2>3. /\ Cursors \subseteq DOMAIN outbox'
          /\ \A c \in Cursors : outbox'[c] = outbox[c]
          /\ \A c \in DOMAIN outbox' \ Cursors : outbox'[c].status # "synced"
      BY <2>1, <2>2 DEF WithItem, CreateOutboxItem, Cursors
    <2>4. QED
      BY <1>0, <1>5, <1>a, <2>3, CloudFrame DEF AppendOutbox, AppendOutboxFails
  <1>6. CASE RepairOutbox \/ Start
    <2>1. outbox' = Reconciled(outbox)
      BY <1>6 DEF RepairOutbox, Start
    <2>2. /\ Cursors \subseteq DOMAIN outbox'
          /\ \A c \in Cursors : outbox'[c] = outbox[c]
          /\ \A c \in DOMAIN outbox' \ Cursors : outbox'[c].status # "synced"
      BY <1>0, <2>1, Completed DEF CreateOutboxItem
    <2>3. QED
      BY <1>0, <1>6, <1>a, <2>2, CloudFrame DEF RepairOutbox, Start
  <1>7. CASE RepairOutboxFails
    BY <1>0, <1>7, <1>a, CloudFrame DEF RepairOutboxFails, Cursors
  <1>8. CASE StartRun \/ FinishRun \/ ClaimFails \/ MarkFailedFails
    <2>1. UNCHANGED <<events, outbox, inbox, artifacts, late>>
      BY <1>8 DEF StartRun, FinishRun, ClaimFails, MarkFailedFails
    <2>2. wire' = "none" /\ syncAt' \in {"idle", "claim"}
      BY <1>0, <1>8 DEF StartRun, FinishRun, ClaimFails, MarkFailedFails, EndRun, CloudInv, SyncInv
    <2>3. SyncInv'
      BY <2>2 DEF SyncInv
    <2>4. LateInv'
      BY <1>c, <2>1 DEF LateInv, InTurn
    <2>5. QED
      BY <1>0, <2>1, <2>3, <2>4, RunFrame
  <1>9. CASE Claim
    <2>1. PICK c \in Unsynced :
            IsNext(c) /\ claimed' = c /\ outbox' = MarkOutboxItem(c, "syncing")
      BY <1>9 DEF Claim
    <2>2. /\ c \in Cursors /\ c \in DOMAIN events /\ c \in Nat
          /\ outbox[c].status # "synced" /\ c <= maxCursor
      BY <1>0, <2>1 DEF Unsynced, FilesInv, StoreStaysLoadable, ItemsMatchEvents, TypeOK
    <2>3. /\ DOMAIN outbox' = Cursors
          /\ outbox'[c].status = "syncing" /\ outbox'[c].event = outbox[c].event
          /\ \A d \in Cursors : d # c => outbox'[d] = outbox[d]
      BY <1>0, <2>1, <2>2, Marked DEF Status
    <2>4. \A d \in 1 .. c - 1 : d \in Cursors /\ outbox[d].status = "synced"
      <3>1. SUFFICES ASSUME NEW d \in 1 .. c - 1
                     PROVE  d \in Cursors /\ outbox[d].status = "synced"
        OBVIOUS
      <3>2. d \in DOMAIN events /\ d < Len(events) /\ d < c /\ d \in Nat
        BY <1>0, <2>2 DEF TypeOK
      <3>3. d \in Cursors
        BY <1>0, <3>2 DEF FilesInv, OutboxGap
      <3>4. d \notin Unsynced
        BY <2>1, <2>2, <3>2 DEF IsNext
      <3>5. QED
        BY <1>0, <2>2, <3>2, <3>3, <3>4 DEF Unsynced, TypeOK
    <2>5. /\ UNCHANGED <<events, inbox, artifacts, late>>
          /\ syncAt' = "post" /\ wire' \in {"sent", "error"}
      BY <1>9 DEF Claim, Send
    <2>6. SyncInv'
      BY <2>1, <2>2, <2>3, <2>4, <2>5 DEF SyncInv, Cursors
    <2>7. SyncedWasDelivered'
      BY <1>0, <2>2, <2>3, <2>5 DEF CloudInv, SyncedWasDelivered, Cursors, HasBinary
    <2>8. SyncedIsPrefix'
      BY <1>0, <2>2, <2>3 DEF CloudInv, SyncedIsPrefix, Cursors
    <2>9. InboxIsPrefixOfEvents' /\ LateInv'
      BY <1>0, <2>5 DEF CloudInv, InboxIsPrefixOfEvents, IsPrefixOf, LateInv, InTurn
    <2>10. QED
      BY <2>6, <2>7, <2>8, <2>9 DEF CloudInv
  <1>10. CASE SendBinary
    <2>1. UNCHANGED <<events, outbox, inbox, artifacts, late, claimed>>
      BY <1>10 DEF SendBinary
    <2>2. syncAt' = "put" /\ wire' \in {"sent", "error"} /\ syncAt = "post" /\ wire = "ok"
      BY <1>10 DEF SendBinary, Send
    <2>3. SyncInv'
      BY <1>0, <2>1, <2>2 DEF CloudInv, SyncInv, Cursors
    <2>4. LateInv'
      BY <1>c, <2>1 DEF LateInv, InTurn
    <2>5. QED
      BY <1>0, <2>1, <2>3, <2>4, RunFrame
  <1>11. CASE MarkSynced
    <2>1. /\ claimed \in Cursors /\ claimed \in DOMAIN events /\ claimed \in Nat
          /\ outbox[claimed].event = events[claimed]
      BY <1>0, <1>11, <1>d DEF MarkSynced, Pushed, FilesInv, StoreStaysLoadable,
         ItemsMatchEvents, TypeOK
    <2>2. /\ DOMAIN outbox' = Cursors
          /\ outbox'[claimed].status = "synced"
          /\ outbox'[claimed].event = outbox[claimed].event
          /\ \A d \in Cursors : d # claimed => outbox'[d] = outbox[d]
      BY <1>0, <1>11, <2>1, Marked DEF MarkSynced, Status
    <2>3. claimed <= Len(inbox) /\ (HasBinary(outbox[claimed].event) => claimed \in artifacts)
      BY <1>0, <1>11 DEF MarkSynced, Pushed, ClaimedEvent, CloudInv, SyncInv
    <2>4. claimed \in DOMAIN inbox /\ inbox[claimed] = events[claimed]
      BY <1>0, <2>1, <2>3 DEF CloudInv, InboxIsPrefixOfEvents, IsPrefixOf, TypeOK
    <2>5. /\ UNCHANGED <<events, inbox, artifacts, late>>
          /\ syncAt' = "claim" /\ wire' = "none"
      BY <1>11 DEF MarkSynced
    <2>6. SyncInv'
      BY <2>5 DEF SyncInv
    <2>7. SyncedWasDelivered'
      BY <1>0, <2>1, <2>2, <2>3, <2>4, <2>5
         DEF CloudInv, SyncedWasDelivered, Cursors, HasBinary
    <2>8. SyncedIsPrefix'
      <3>1. \A d \in 1 .. claimed - 1 : d \in Cursors /\ outbox[d].status = "synced"
        BY <1>0, <1>11, <1>d DEF CloudInv, SyncInv, MarkSynced, Pushed
      <3>2. \A d \in 1 .. claimed : d \in Cursors /\ outbox'[d].status = "synced"
        BY <2>1, <2>2, <3>1
      <3>3. QED
        BY <1>0, <2>1, <2>2, <3>2 DEF CloudInv, SyncedIsPrefix, Cursors
    <2>9. InboxIsPrefixOfEvents' /\ LateInv'
      BY <1>0, <2>5 DEF CloudInv, InboxIsPrefixOfEvents, IsPrefixOf, LateInv, InTurn
    <2>10. QED
      BY <2>6, <2>7, <2>8, <2>9 DEF CloudInv
  <1>12. CASE MarkSyncedFails
    <2>1. UNCHANGED <<events, outbox, inbox, artifacts, late, claimed, syncAt>>
      BY <1>12 DEF MarkSyncedFails
    <2>2. wire' = "error" /\ wire = "ok"
      BY <1>12 DEF MarkSyncedFails, Pushed
    <2>3. SyncInv'
      BY <1>0, <2>1, <2>2 DEF CloudInv, SyncInv, Cursors
    <2>4. LateInv'
      BY <1>c, <2>1 DEF LateInv, InTurn
    <2>5. QED
      BY <1>0, <2>1, <2>3, <2>4, RunFrame
  <1>13. CASE MarkFailed
    <2>1. claimed \in Cursors /\ outbox[claimed].status = "syncing"
      BY <1>0, <1>13, <1>d DEF MarkFailed, CloudInv, SyncInv
    <2>2. /\ DOMAIN outbox' = Cursors
          /\ outbox'[claimed].status = "failed"
          /\ \A d \in Cursors : d # claimed => outbox'[d] = outbox[d]
      BY <1>0, <1>13, <2>1, Marked DEF MarkFailed, Status
    <2>3. /\ UNCHANGED <<events, inbox, artifacts, late>>
          /\ syncAt' = "idle" /\ wire' = "none"
      BY <1>13 DEF MarkFailed, EndRun
    <2>4. SyncInv'
      BY <2>3 DEF SyncInv
    <2>5. SyncedWasDelivered'
      BY <1>0, <2>1, <2>2, <2>3 DEF CloudInv, SyncedWasDelivered, Cursors, HasBinary
    <2>6. SyncedIsPrefix'
      BY <1>0, <2>1, <2>2 DEF CloudInv, SyncedIsPrefix, Cursors
    <2>7. InboxIsPrefixOfEvents' /\ LateInv'
      BY <1>0, <2>3 DEF CloudInv, InboxIsPrefixOfEvents, IsPrefixOf, LateInv, InTurn
    <2>8. QED
      BY <2>4, <2>5, <2>6, <2>7 DEF CloudInv
  <1>14. CASE HandleRequest
    <2>1. /\ UNCHANGED <<events, outbox, late, claimed, syncAt>>
          /\ wire = "sent" /\ Receive(InFlight) /\ wire' = AnswerTo(InFlight)
      BY <1>14 DEF HandleRequest
    <2>2. /\ InTurn(InFlight) /\ InFlight.kind = syncAt
          /\ InFlight.event.cursor = claimed /\ syncAt \in {"post", "put"}
      BY <1>d, <2>1, InFlightInTurn
    <2>3. /\ IsPrefixOf(inbox, inbox') /\ artifacts \subseteq artifacts'
          /\ InboxIsPrefixOfEvents'
          /\ syncAt = "post" /\ AnswerTo(InFlight) = "ok" => claimed <= Len(inbox')
          /\ syncAt = "put" => claimed \in artifacts'
      BY <1>0, <2>1, <2>2, Received DEF CloudInv
    <2>4. inbox' \in Seq(Event)
      BY TypeStep DEF TypeOK
    <2>5. SyncedWasDelivered' /\ SyncedIsPrefix' /\ LateInv'
      BY <1>0, <2>1, <2>3, <2>4, InboxGrows
    <2>6. Len(inbox) <= Len(inbox')
      BY <2>3 DEF IsPrefixOf
    <2>7. wire' \in {"ok", "error"}
      BY <2>1 DEF AnswerTo
    <2>8. SyncInv'
      <3>1. claimed <= Len(inbox) => claimed <= Len(inbox')
        BY <1>0, <2>4, <2>6 DEF TypeOK
      <3>2. QED
        BY <1>0, <2>1, <2>2, <2>3, <2>7, <3>1 DEF CloudInv, SyncInv, Cursors
    <2>9. QED
      BY <2>3, <2>5, <2>8 DEF CloudInv
  <1>15. CASE RequestFails
    <2>1. /\ UNCHANGED <<events, outbox, inbox, artifacts, claimed, syncAt>>
          /\ wire = "sent" /\ wire' = "error" /\ Abandon
      BY <1>15 DEF RequestFails
    <2>2. LateInv'
      BY <2>1, AbandonKeepsTurn
    <2>3. SyncInv'
      BY <1>0, <1>d, <2>1 DEF CloudInv, SyncInv, Cursors
    <2>4. QED
      BY <1>0, <2>1, <2>2, <2>3, RunFrame
  <1>16. CASE HandleLateRequest
    <2>1. PICK r \in late : Receive(r) /\ late' = late \ {r}
      BY <1>16 DEF HandleLateRequest
    <2>2. InTurn(r) /\ r.kind \in {"post", "put"}
      BY <1>0, <1>c DEF LateInv, TypeOK, Request
    <2>3. UNCHANGED <<events, outbox, claimed, syncAt, wire>>
      BY <1>16 DEF HandleLateRequest
    <2>4. IsPrefixOf(inbox, inbox') /\ artifacts \subseteq artifacts' /\ InboxIsPrefixOfEvents'
      BY <1>0, <2>1, <2>2, <2>3, Received DEF CloudInv
    <2>5. inbox' \in Seq(Event)
      BY TypeStep DEF TypeOK
    <2>6. SyncedWasDelivered' /\ SyncedIsPrefix' /\ LateInv'
      BY <1>0, <2>1, <2>3, <2>4, <2>5, InboxGrows
    <2>7. SyncInv'
      <3>1. claimed <= Len(inbox) => claimed <= Len(inbox')
        BY <1>0, <2>4, <2>5 DEF TypeOK, IsPrefixOf
      <3>2. QED
        BY <1>0, <2>3, <2>4, <3>1 DEF CloudInv, SyncInv, Cursors
    <2>8. QED
      BY <2>4, <2>6, <2>7 DEF CloudInv
  <1>17. CASE Close
    <2>1. UNCHANGED <<events, outbox, inbox, artifacts, claimed, syncAt>>
      BY <1>17 DEF Close
    <2>2. CASE wire = "sent"
      <3>1. wire' = "error" /\ Abandon
        BY <1>17, <2>2 DEF Close
      <3>2. LateInv'
        BY <2>1, <2>2, <3>1, AbandonKeepsTurn
      <3>3. SyncInv'
        BY <1>0, <1>d, <2>1, <2>2, <3>1 DEF CloudInv, SyncInv, Cursors
      <3>4. QED
        BY <1>0, <2>1, <3>2, <3>3, RunFrame
    <2>3. CASE wire # "sent"
      <3>1. UNCHANGED <<wire, late>>
        BY <1>17, <2>3 DEF Close
      <3>2. QED
        BY <1>0, <1>a, <2>1, <3>1, CloudFrame DEF Cursors
    <2>4. QED
      BY <2>2, <2>3
  <1>18. CASE CloseDone
    BY <1>0, <1>18, <1>a, CloudFrame DEF CloseDone, Cursors
  <1>19. CASE Crash
    <2>1. /\ UNCHANGED <<events, outbox, inbox, artifacts>>
          /\ wire' = "none" /\ syncAt' = "idle"
      BY <1>19 DEF Crash, EndRun
    <2>2. LateInv'
      <3>1. CASE wire = "sent"
        BY <1>19, <2>1, <3>1, AbandonKeepsTurn DEF Crash
      <3>2. CASE wire # "sent"
        BY <1>19, <1>c, <2>1, <3>2 DEF Crash, LateInv, InTurn
      <3>3. QED
        BY <3>1, <3>2
    <2>3. SyncInv'
      BY <2>1 DEF SyncInv
    <2>4. QED
      BY <1>0, <2>1, <2>2, <2>3, RunFrame
  <1>20. CASE RepairStorage
    BY <1>0, <1>20, <1>a, CloudFrame DEF RepairStorage, Cursors
  <1>21. CASE UNCHANGED vars
    BY <1>0, <1>21, <1>a, CloudFrame DEF vars, Cursors
  <1>22. QED
    BY <1>1, <1>2, <1>3, <1>4, <1>5, <1>6, <1>7, <1>8, <1>9, <1>10, <1>11, <1>12, <1>13, <1>14,
       <1>15, <1>16, <1>17, <1>18, <1>19, <1>20, <1>21 DEF Next, Mutation, SyncRun, Network, Process

-----------------------------------------------------------------------------
\* The invariant holds of the empty store.
LEMMA InitInv == Init => IInv
  <1>. SUFFICES ASSUME Init PROVE IInv
    OBVIOUS
  <1>1. DOMAIN events = {} /\ Cursors = {} /\ DOMAIN inbox = {} /\ DOMAIN eventLog = {}
    BY DEF Init, Cursors
  <1>2. TypeOK
    BY <1>1 DEF Init, TypeOK, Cursors
  <1>3. FilesInv
    BY <1>1 DEF Init, FilesInv, StoreStaysLoadable, ValidTimeline, ItemsMatchEvents,
       AcknowledgedIsDurable, OutboxCoversEvents, MemoryInv, WriteInv, OutboxGap, Running
  <1>4. CloudInv
    BY <1>1 DEF Init, CloudInv, InboxIsPrefixOfEvents, IsPrefixOf, SyncedWasDelivered,
       SyncedIsPrefix, SyncInv, LateInv
  <1>5. QED
    BY <1>2, <1>3, <1>4 DEF IInv

\* IInv is an inductive invariant of the specification.
LEMMA Inductive == Spec => []IInv
  <1>1. IInv /\ [Next]_vars => IInv'
    BY TypeStep, FilesStep, CloudStep DEF IInv
  <1>2. QED
    BY InitInv, <1>1, PTL DEF Spec

-----------------------------------------------------------------------------
(* The theorems.                                                           *)

\* Every state of the service, its files and the receiver has its type,
\* whatever the payloads and the bounds.
THEOREM TypeCorrect == Spec => []TypeOK
  <1>1. IInv => TypeOK
    BY DEF IInv
  <1>2. QED
    BY Inductive, <1>1, PTL

\* The files always pass the validation of initialize, up to a partial line at
\* their end (readEvents, validateEventTimeline, reconcileOutbox).
THEOREM StoreAlwaysLoadable == Spec => []StoreStaysLoadable
  <1>1. IInv => StoreStaysLoadable
    BY DEF IInv, FilesInv
  <1>2. QED
    BY Inductive, <1>1, PTL

\* No acknowledged event is missing from events.jsonl (appendEvent).
THEOREM AcknowledgedAlwaysDurable == Spec => []AcknowledgedIsDurable
  <1>1. IInv => AcknowledgedIsDurable
    BY DEF IInv, FilesInv
  <1>2. QED
    BY Inductive, <1>1, PTL

\* A service without a fault leaves no acknowledged event out of its outbox.
THEOREM OutboxAlwaysCoversEvents == Spec => []OutboxCoversEvents
  <1>1. IInv => OutboxCoversEvents
    BY DEF IInv, FilesInv
  <1>2. QED
    BY Inductive, <1>1, PTL

\* The receiver always holds the first events of the device, in order
\* (runSyncOperation, receiveEvent).
THEOREM InboxAlwaysPrefix == Spec => []InboxIsPrefixOfEvents
  <1>1. IInv => InboxIsPrefixOfEvents
    BY DEF IInv, CloudInv
  <1>2. QED
    BY Inductive, <1>1, PTL

\* What is marked synced has been delivered, the audio binary included
\* (pushOutboxItem).
THEOREM SyncedAlwaysDelivered == Spec => []SyncedWasDelivered
  <1>1. IInv => SyncedWasDelivered
    BY DEF IInv, CloudInv
  <1>2. QED
    BY Inductive, <1>1, PTL

\* The synced items are always the first ones of the outbox.
THEOREM SyncedAlwaysPrefix == Spec => []SyncedIsPrefix
  <1>1. IInv => SyncedIsPrefix
    BY DEF IInv, CloudInv
  <1>2. QED
    BY Inductive, <1>1, PTL

\* No request that can still reach the receiver is out of turn, those the
\* client has given up included (pushOutboxItem, receiveEvent).
THEOREM RequestsAlwaysInTurn == Spec => []RequestsAreInTurn
  <1>1. IInv => RequestsAreInTurn
    <2>1. IInv => \A r \in late : InTurn(r)
      BY DEF IInv, CloudInv, LateInv
    <2>2. QED
      BY <2>1, InFlightInTurn DEF RequestsAreInTurn, Requests, InTurn
  <1>2. QED
    BY Inductive, <1>1, PTL

\* The three promises of the device together, for every set of payloads and every bound.
THEOREM DeviceAlwaysKeeps == Spec => []DeviceKeepsItsEvents
  BY StoreAlwaysLoadable, AcknowledgedAlwaysDurable, OutboxAlwaysCoversEvents, PTL
     DEF DeviceKeepsItsEvents

\* The four facts about the receiver together.
THEOREM ReceiverAlwaysFollows == Spec => []ReceiverFollowsDevice
  BY InboxAlwaysPrefix, SyncedAlwaysDelivered, SyncedAlwaysPrefix, RequestsAlwaysInTurn, PTL
     DEF ReceiverFollowsDevice

\* No step changes a synced item.
LEMMA SyncedKept ==
  ASSUME IInv, [Next]_vars, NEW c \in Cursors, outbox[c].status = "synced"
  PROVE  c \in DOMAIN outbox' /\ outbox'[c] = outbox[c]
  <1>. USE DEF localVars, memoryVars, writeVars, syncVars, cloudVars
  <1>0. TypeOK /\ FilesInv /\ CloudInv
    BY DEF IInv
  <1>1. CASE AppendOutbox \/ AppendOutboxFails
    <2>1. Len(events) \notin Cursors /\ draft.cursor = Len(events)
      <3>1. Len(events) > 0 /\ draft = events[Len(events)] /\ Len(events) \notin Cursors
        BY <1>0, <1>1 DEF AppendOutbox, AppendOutboxFails, FilesInv, WriteInv
      <3>2. QED
        BY <1>0, <3>1 DEF FilesInv, StoreStaysLoadable, ValidTimeline, TypeOK
    <2>2. outbox' = outbox \/ outbox' = WithItem(outbox, draft.cursor, CreateOutboxItem(draft))
      BY <1>1 DEF AppendOutbox, AppendOutboxFails, OutboxLine
    <2>3. QED
      BY <2>1, <2>2 DEF WithItem, Cursors
  <1>2. CASE RepairOutbox \/ Start
    BY <1>0, <1>2, Completed DEF RepairOutbox, Start
  <1>3. CASE Claim
    <2>1. PICK d \in Unsynced : outbox' = MarkOutboxItem(d, "syncing")
      BY <1>3 DEF Claim
    <2>2. d \in Cursors /\ d # c
      BY <2>1 DEF Unsynced
    <2>3. QED
      BY <1>0, <2>1, <2>2, Marked DEF Status
  <1>4. CASE MarkSynced \/ MarkFailed
    <2>1. claimed \in Cursors /\ outbox[claimed].status = "syncing"
      BY <1>0, <1>4 DEF MarkSynced, MarkFailed, Pushed, CloudInv, SyncInv, TypeOK
    <2>2. \E s \in Status : outbox' = MarkOutboxItem(claimed, s)
      BY <1>4 DEF MarkSynced, MarkFailed, Status
    <2>3. QED
      BY <1>0, <2>1, <2>2, Marked
  <1>5. CASE UNCHANGED outbox
    BY <1>5 DEF Cursors
  <1>6. QED
    <2>1. ~(AppendOutbox \/ AppendOutboxFails \/ RepairOutbox \/ Start \/ Claim
            \/ MarkSynced \/ MarkFailed) => UNCHANGED outbox
      BY DEF Next, Mutation, SyncRun, Network, Process, vars, BeginMutation, AppendEvent,
         AppendEventFails, AppendEventRollbackFails, RepairOutboxFails, StartRun, FinishRun,
         ClaimFails, SendBinary, MarkSyncedFails, MarkFailedFails, HandleRequest, RequestFails,
         HandleLateRequest, Close, CloseDone, Crash, RepairStorage
    <2>2. QED
      BY <1>1, <1>2, <1>3, <1>4, <1>5, <2>1

\* A synced item is never changed again (markOutboxItem, reconcileOutbox).
THEOREM SyncedAlwaysFinal == Spec => SyncedIsFinal
  <1>1. IInv /\ [Next]_vars =>
          [\A c \in Cursors : outbox[c].status = "synced" =>
             c \in DOMAIN outbox' /\ outbox'[c] = outbox[c]]_vars
    BY SyncedKept
  <1>2. QED
    BY Inductive, <1>1, PTL DEF Spec, SyncedIsFinal

-----------------------------------------------------------------------------
(* The refinement of ReplicatedLog.                                        *)

\* A step that leaves the inbox and the synced items alone is an append or
\* invisible to the abstract log.
LEMMA EventsGrow ==
  ASSUME IInv, [Next]_vars, UNCHANGED <<inbox, SyncedCursors>>
  PROVE  events' = events \/ Abstract!Record
  <1>. USE DEF localVars, memoryVars, writeVars, syncVars, cloudVars
  <1>1. events' = events \/ (writeAt = "append" /\ events' = Append(events, draft))
    BY DEF Next, Mutation, SyncRun, Network, Process, vars, BeginMutation, AppendEvent, EventLine,
       AppendEventFails, AppendEventRollbackFails, AppendOutbox, AppendOutboxFails,
       RepairOutbox, RepairOutboxFails, StartRun, Claim, FinishRun,
       ClaimFails, SendBinary, MarkSynced, MarkSyncedFails, MarkFailed, MarkFailedFails,
       HandleRequest, RequestFails, HandleLateRequest, Start, Close, CloseDone, Crash,
       RepairStorage
  <1>2. writeAt = "append" => draft \in Event /\ draft.cursor = Len(events) + 1
    BY DEF IInv, FilesInv, WriteInv
  <1>3. ASSUME draft \in Event, draft.cursor = Len(events) + 1
        PROVE  \E p \in Payload : draft = [cursor |-> Len(events) + 1, payload |-> p]
    BY <1>3 DEF Event
  <1>4. QED
    BY <1>1, <1>2, <1>3 DEF Abstract!Record

\* A request in turn is an in-order delivery or invisible.
LEMMA InboxStep ==
  ASSUME IInv, NEW r, InTurn(r), r.kind \in {"post", "put"}, Receive(r),
         UNCHANGED <<events, SyncedCursors>>
  PROVE  inbox' = inbox \/ Abstract!Replicate
  <1>1. inbox \in Seq(Event) /\ events \in Seq(Event)
    BY DEF IInv, TypeOK
  <1>2. inbox' = inbox \/ (r.event.cursor = Len(inbox) + 1 /\ inbox' = Append(inbox, r.event))
    BY DEF Receive, ReceiveEvent, ReceiveAudioChunk, Stored
  <1>3. r.event.cursor <= Len(events) /\ r.event = events[r.event.cursor]
    BY <1>1 DEF InTurn
  <1>4. QED
    BY <1>1, <1>2, <1>3 DEF Abstract!Replicate

\* The synced items are finitely many, so their number can be compared.
LEMMA SyncedCount ==
  ASSUME IInv
  PROVE  /\ IsFiniteSet(SyncedCursors)
         /\ Cardinality(SyncedCursors) \in Nat
  <1>1. SyncedCursors \in SUBSET (1 .. Len(events))
    BY DEF IInv, FilesInv, StoreStaysLoadable, ItemsMatchEvents, SyncedCursors, TypeOK
  <1>2. IsFiniteSet(1 .. Len(events))
    BY FS_Interval DEF IInv, TypeOK
  <1>3. IsFiniteSet(SyncedCursors)
    BY <1>1, <1>2, FS_Subset
  <1>4. QED
    BY <1>3, FS_CardinalityType

\* Marking an item synced acknowledges one delivery that has happened.
LEMMA Acknowledged ==
  ASSUME IInv, MarkSynced
  PROVE  Abstract!Acknowledge
  <1>. USE DEF localVars, memoryVars, writeVars, syncVars, cloudVars
  <1>1. TypeOK /\ FilesInv /\ CloudInv
    BY DEF IInv
  <1>2. /\ claimed \in Cursors /\ outbox[claimed].status = "syncing"
        /\ claimed <= Len(inbox) /\ claimed \in DOMAIN events
    BY <1>1 DEF MarkSynced, Pushed, CloudInv, SyncInv, FilesInv, StoreStaysLoadable,
       ItemsMatchEvents, TypeOK
  <1>3. claimed \notin SyncedCursors
    BY <1>2 DEF SyncedCursors
  <1>4. SyncedCursors' = SyncedCursors \cup {claimed}
    BY <1>1, <1>2, Marked DEF MarkSynced, SyncedCursors, Cursors, Status
  <1>5. SyncedCursors \cup {claimed} \in SUBSET (1 .. Len(inbox))
    <2>1. DOMAIN inbox = 1 .. Len(inbox) /\ DOMAIN events = 1 .. Len(events)
      BY <1>1 DEF TypeOK
    <2>2. SyncedCursors \subseteq DOMAIN inbox
      BY <1>1 DEF CloudInv, SyncedWasDelivered, SyncedCursors
    <2>3. claimed \in 1 .. Len(inbox)
      BY <1>1, <1>2, <2>1 DEF TypeOK
    <2>4. QED
      BY <2>1, <2>2, <2>3
  <1>6. IsFiniteSet(1 .. Len(inbox)) /\ Cardinality(1 .. Len(inbox)) = Len(inbox)
    <2>1. Len(inbox) \in Nat
      BY <1>1 DEF TypeOK
    <2>2. /\ IsFiniteSet(1 .. Len(inbox))
          /\ Cardinality(1 .. Len(inbox)) = IF 1 > Len(inbox) THEN 0 ELSE Len(inbox) - 1 + 1
      BY <2>1, FS_Interval
    <2>3. QED
      BY <2>1, <2>2
  <1>7. Cardinality(SyncedCursors \cup {claimed}) <= Len(inbox)
    BY <1>5, <1>6, FS_Subset
  <1>8. Cardinality(SyncedCursors \cup {claimed}) = Cardinality(SyncedCursors) + 1
    BY <1>3, FS_AddElement, SyncedCount
  <1>9. Cardinality(SyncedCursors) < Len(inbox)
    BY <1>1, <1>7, <1>8, SyncedCount DEF TypeOK
  <1>10. Cardinality(SyncedCursors)' = Cardinality(SyncedCursors) + 1
    BY <1>4, <1>8
  <1>11. UNCHANGED <<events, inbox>>
    BY DEF MarkSynced
  <1>12. QED
    BY <1>9, <1>10, <1>11 DEF Abstract!Acknowledge

\* Marking an unsynced item anything but synced leaves the synced items alone.
LEMMA OtherMark ==
  ASSUME TypeOK, NEW c \in Cursors, NEW s \in Status, s # "synced",
         outbox[c].status # "synced", outbox' = MarkOutboxItem(c, s)
  PROVE  SyncedCursors' = SyncedCursors
  <1>1. /\ DOMAIN outbox' = Cursors
        /\ outbox'[c].status = s
        /\ \A d \in Cursors : d # c => outbox'[d] = outbox[d]
    BY Marked
  <1>2. \A d \in Cursors : outbox'[d].status = "synced" <=> outbox[d].status = "synced"
    BY <1>1
  <1>3. QED
    BY <1>1, <1>2 DEF SyncedCursors, Cursors

\* Only MarkSynced changes which items are synced.
LEMMA SameSynced ==
  ASSUME IInv, [Next]_vars, ~MarkSynced
  PROVE  SyncedCursors' = SyncedCursors
  <1>. USE DEF localVars, memoryVars, writeVars, syncVars, cloudVars
  <1>0. TypeOK /\ FilesInv /\ CloudInv
    BY DEF IInv
  <1>1. CASE AppendOutbox \/ AppendOutboxFails
    <2>1. outbox' = outbox \/ outbox' = WithItem(outbox, draft.cursor, CreateOutboxItem(draft))
      BY <1>1 DEF AppendOutbox, AppendOutboxFails, OutboxLine
    <2>2. draft.cursor \notin Cursors
      <3>1. Len(events) > 0 /\ draft = events[Len(events)] /\ Len(events) \notin Cursors
        BY <1>0, <1>1 DEF AppendOutbox, AppendOutboxFails, FilesInv, WriteInv
      <3>2. QED
        BY <1>0, <3>1 DEF FilesInv, StoreStaysLoadable, ValidTimeline, TypeOK
    <2>3. QED
      BY <2>1, <2>2 DEF WithItem, CreateOutboxItem, SyncedCursors, Cursors
  <1>2. CASE RepairOutbox \/ Start
    BY <1>0, <1>2, Completed DEF RepairOutbox, Start, SyncedCursors, Cursors, CreateOutboxItem
  <1>3. CASE Claim
    <2>1. PICK d \in Unsynced : outbox' = MarkOutboxItem(d, "syncing")
      BY <1>3 DEF Claim
    <2>2. d \in Cursors /\ outbox[d].status # "synced"
      BY <2>1 DEF Unsynced
    <2>3. QED
      BY <1>0, <2>1, <2>2, OtherMark DEF Status
  <1>4. CASE MarkFailed
    <2>1. claimed \in Cursors /\ outbox[claimed].status = "syncing"
      BY <1>0, <1>4 DEF MarkFailed, CloudInv, SyncInv, TypeOK
    <2>2. QED
      BY <1>0, <1>4, <2>1, OtherMark DEF MarkFailed, Status
  <1>5. CASE UNCHANGED outbox
    BY <1>5 DEF SyncedCursors, Cursors
  <1>6. QED
    <2>1. ~(AppendOutbox \/ AppendOutboxFails \/ RepairOutbox \/ Start \/ Claim
            \/ MarkFailed) => UNCHANGED outbox
      BY DEF Next, Mutation, SyncRun, Network, Process, vars, BeginMutation, AppendEvent,
         AppendEventFails, AppendEventRollbackFails, RepairOutboxFails, StartRun, FinishRun,
         ClaimFails, SendBinary, MarkSyncedFails, MarkFailedFails, HandleRequest, RequestFails,
         HandleLateRequest, Close, CloseDone, Crash, RepairStorage
    <2>2. QED
      BY <1>1, <1>2, <1>3, <1>4, <1>5, <2>1

\* The files, the sync run and the receiver together implement the abstract
\* replicated log: every step is an append, an in-order delivery, the
\* acknowledgement of one delivery, or invisible.
THEOREM Implements == Spec => ImplementsReplicatedLog
  <1>1. Init => Abstract!Init
    <2>1. Init => SyncedCursors = {}
      BY DEF Init, SyncedCursors, Cursors
    <2>2. QED
      BY <2>1, FS_EmptySet DEF Init, Abstract!Init
  <1>2. IInv /\ [Next]_vars => [Abstract!Next]_Abstract!vars
    <2>. SUFFICES ASSUME IInv, [Next]_vars PROVE [Abstract!Next]_Abstract!vars
      OBVIOUS
    <2>. USE DEF localVars, memoryVars, writeVars, syncVars, cloudVars
    <2>1. CASE MarkSynced
      BY <2>1, Acknowledged DEF Abstract!Next
    <2>2. CASE HandleRequest
      <3>1. UNCHANGED <<events, SyncedCursors>>
        BY <2>2 DEF HandleRequest, SyncedCursors, Cursors
      <3>2. InTurn(InFlight) /\ InFlight.kind \in {"post", "put"}
        BY <2>2, InFlightInTurn DEF HandleRequest, IInv, CloudInv, SyncInv, TypeOK
      <3>3. inbox' = inbox \/ Abstract!Replicate
        BY <2>2, <3>1, <3>2, InboxStep DEF HandleRequest
      <3>4. QED
        BY <3>1, <3>3 DEF Abstract!Next, Abstract!vars
    <2>3. CASE HandleLateRequest
      <3>1. UNCHANGED <<events, SyncedCursors>>
        BY <2>3 DEF HandleLateRequest, SyncedCursors, Cursors
      <3>2. PICK r \in late : Receive(r)
        BY <2>3 DEF HandleLateRequest
      <3>3. InTurn(r) /\ r.kind \in {"post", "put"}
        BY <3>2 DEF IInv, CloudInv, LateInv, TypeOK, Request
      <3>4. inbox' = inbox \/ Abstract!Replicate
        BY <3>1, <3>2, <3>3, InboxStep
      <3>5. QED
        BY <3>1, <3>4 DEF Abstract!Next, Abstract!vars
    <2>4. CASE ~MarkSynced /\ ~HandleRequest /\ ~HandleLateRequest
      <3>1. SyncedCursors' = SyncedCursors
        BY <2>4, SameSynced
      <3>2. inbox' = inbox
        BY <2>4 DEF Next, Mutation, SyncRun, Network, Process, vars, BeginMutation, AppendEvent,
           AppendEventFails, AppendEventRollbackFails, AppendOutbox, AppendOutboxFails,
           RepairOutbox, RepairOutboxFails, StartRun, Claim, FinishRun, ClaimFails, SendBinary,
           MarkSyncedFails, MarkFailed, MarkFailedFails, RequestFails, Start, Close, CloseDone,
           Crash, RepairStorage
      <3>3. events' = events \/ Abstract!Record
        BY <3>1, <3>2, EventsGrow
      <3>4. QED
        BY <3>1, <3>2, <3>3 DEF Abstract!Next, Abstract!vars
    <2>5. QED
      BY <2>1, <2>2, <2>3, <2>4
  <1>3. QED
    BY Inductive, <1>1, <1>2, PTL DEF Spec, ImplementsReplicatedLog, Abstract!Spec
=============================================================================
