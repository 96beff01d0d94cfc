---------------------------- MODULE UploadQueue ----------------------------
(***************************************************************************)
(* The browser's recording of one session: AudioUploadCoordinator, its     *)
(* IndexedDB store, the pages that share the store, and the part of the    *)
(* local service that takes the uploads and the end of the session.        *)
(*                                                                         *)
(* A page has four flows that interleave at every await: the operation the *)
(* user asked for, the queue of chunk writes, the drain of the uploads and *)
(* what follows from the news that the session has ended.  An operation    *)
(* reads the store, decides, and writes in a later step: in between, the   *)
(* other flows and the other pages go on.                                  *)
(*                                                                         *)
(* A definition whose comment is missing and which only precedes the one   *)
(* it resembles is a mutated form of it: see the README.                   *)
(***************************************************************************)
EXTENDS Naturals, Sequences

CONSTANTS
  Page,         \* the pages of one browser profile
  Recorders,    \* bound: the pages on which a recording is started
  MaxChunks,    \* bound on the chunks a page records
  MaxAttempts,  \* maxAttempts of an upload
  Faults,       \* the kinds of fault that occur, of FaultKind
  MaxFailures   \* bound on their number

\* A rejected write of the store, a recorder that reports an error, a lost
\* upload, a lost end of the session, a page reloaded or closed, and the end of
\* the session by another device.
FaultKind == {"write", "recorder", "upload", "end", "reload", "others"}

ASSUME UploadAssumption ==
  /\ Recorders \subseteq Page /\ Faults \subseteq FaultKind
  /\ MaxChunks \in Nat /\ MaxAttempts \in Nat \ {0} /\ MaxFailures \in Nat

\* A chunk: the page that recorded it, and its place in the recording.
Chunk == Page \X (1..MaxChunks)

VARIABLES
  record,    \* IndexedDB: the DurableRecordingState of the session
  jobs,      \* IndexedDB: the chunks with a DurableAudioUploadJob
  attempts,  \* ... and their attempts
  page,      \* what each page holds in memory
  server,    \* the session, its tail disposition and its stored chunks
  late,      \* uploads whose page has given up waiting
  taken,     \* the chunks recorders have delivered
  lost,      \* a recorder has gone with audio it had not delivered
  failures   \* number of injected failures

vars == <<record, jobs, attempts, page, server, late, taken, lost, failures>>
store == <<record, jobs, attempts>>
world == <<server, late>>
heard == <<taken, lost>>

-----------------------------------------------------------------------------
NoRecord == [phase |-> "none", disp |-> "none"]

\* A page that is not loaded.
Blank ==
  [up |-> FALSE, ui |-> "idle", copy |-> NoRecord, recorder |-> "off", next |-> 1,
   writes |-> <<>>, failed |-> FALSE,
   drain |-> "idle", job |-> <<>>, tries |-> 0,
   reset |-> {}, retry |-> FALSE, ack |-> "none", closed |-> FALSE]

Init ==
  /\ record = NoRecord /\ jobs = {} /\ attempts = [c \in Chunk |-> 0]
  /\ page = [p \in Page |-> Blank]
  /\ server = [phase |-> "open", disp |-> "none", stored |-> {}]
  /\ late = {} /\ taken = {} /\ lost = FALSE
  /\ failures = 0

Inject(fault) == fault \in Faults /\ failures < MaxFailures /\ failures' = failures + 1

At(p, ui) == page[p].up /\ page[p].ui = ui

\* ensureUploadCoordinator: the page has initialised its coordinator.
Ready(p) == page[p].up /\ page[p].ui \notin {"initialize", "initialize-put", "broken"}

\* The writes the operation awaits have settled (writeTail).
Settled(p) == page[p].writes = <<>>

\* The user's operation of p goes on at ui.
Goto(p, ui) == page' = [page EXCEPT ![p].ui = ui, ![p].copy = IF ui = "idle" THEN NoRecord ELSE @]

\* ... with the record it has just read.
Read(p, ui) == page' = [page EXCEPT ![p].ui = ui, ![p].copy = IF ui = "idle" THEN NoRecord ELSE record]

\* putRecording({...copy, phase}), then the operation goes on at ui.
Put(p, phase, ui) ==
  /\ record' = [page[p].copy EXCEPT !.phase = phase]
  /\ page' = [page EXCEPT ![p].ui = ui, ![p].copy = NoRecord]

\* listJobs: the jobs sorted by the start of their chunk.
FirstJobs == {c \in jobs : \A d \in jobs : c[2] <= d[2]}

Only(changed) ==
  /\ changed # "store" => UNCHANGED store
  /\ changed # "world" => UNCHANGED world
  /\ UNCHANGED <<heard, failures>>

\* The jobs retryPendingUploads resets.
ToReset == {c \in jobs : attempts[c] > 0}

\* drainSession: with no drain running, the operations that want one start it
\* and wait for it.
DrainIfWanted(pg) ==
  LET final == pg.ui = "final-drain"
      retry == pg.retry /\ pg.reset = {}
      ack == pg.ack = "drain"
  IN IF pg.drain # "idle" \/ ~(final \/ retry \/ ack) THEN pg
     ELSE [pg EXCEPT !.drain = "list",
                     !.ui = IF final THEN "final-wait" ELSE @,
                     !.retry = IF retry THEN FALSE ELSE @,
                     !.ack = IF ack THEN "wait" ELSE @]

\* retryPendingUploads lists the jobs it will reset.
Retried(pg) == DrainIfWanted([pg EXCEPT !.retry = TRUE, !.reset = @ \cup ToReset])

-----------------------------------------------------------------------------
(* The store is opened.                                                    *)

Load(p) ==
  /\ ~page[p].up
  /\ page' = [page EXCEPT ![p] = [Blank EXCEPT !.up = TRUE, !.ui = "initialize", !.next = page[p].next]]
  /\ Only("page")

InitializedOnly(p) == [page EXCEPT ![p].ui = "idle", ![p].copy = NoRecord]

\* initialize has dealt with the record: pending jobs are drained.
Initialized(p) == [page EXCEPT ![p].ui = "idle", ![p].copy = NoRecord, ![p].drain = IF jobs = {} THEN "idle" ELSE "list"]

\* It reads the record ...
InitializeReads(p) ==
  /\ At(p, "initialize")
  /\ IF record.phase \in {"recording", "stop_requested"}
       THEN Read(p, "initialize-put")
       ELSE page' = Initialized(p)
  /\ Only("page")

\* ... and declares the tail of an interrupted recording uncertain.
InitializePuts(p) ==
  /\ At(p, "initialize-put")
  /\ record' = [page[p].copy EXCEPT !.phase = "flush_uncertain"]
  /\ page' = Initialized(p)
  /\ UNCHANGED <<jobs, attempts, world, heard, failures>>

-----------------------------------------------------------------------------
(* Recording.                                                              *)

\* beginRecording: there must be no record.
MayBegin == record.phase = "none"

\* startMicRecorderOnce, while the page takes the session to be open.
Begin(p) ==
  /\ At(p, "idle") /\ Settled(p)
  /\ page[p].recorder = "off" /\ ~page[p].closed /\ p \in Recorders
  /\ MayBegin
  /\ page' = [page EXCEPT ![p].ui = "begin-put", ![p].failed = FALSE]
  /\ Only("page")

BeginPuts(p) ==
  /\ At(p, "begin-put")
  /\ record' = [NoRecord EXCEPT !.phase = "recording"]
  /\ page' = [page EXCEPT ![p].ui = "idle", ![p].recorder = "on"]
  /\ UNCHANGED <<jobs, attempts, world, heard, failures>>

\* ondataavailable: the chunk joins the queue of writes.  An empty one is
\* dropped, so a recorder may also stop without delivering.
Delivered(p, pg) ==
  \/ page' = [page EXCEPT ![p] = pg] /\ UNCHANGED taken
  \/ /\ pg.next <= MaxChunks
     /\ taken' = taken \cup {<<p, pg.next>>}
     /\ page' = [page EXCEPT ![p] = [pg EXCEPT !.next = @ + 1, !.writes = Append(@, [n |-> pg.next, at |-> "read"])]]

Deliver(p) ==
  /\ page[p].up /\ page[p].recorder = "on"
  /\ Delivered(p, page[p]) /\ taken' # taken
  /\ UNCHANGED <<store, world, lost, failures>>

\* enqueueChunk: the write looks at the phase, then puts the job.
WriteReads(p) ==
  /\ page[p].up /\ page[p].writes # <<>> /\ Head(page[p].writes).at = "read"
  /\ page' = IF record.phase \in {"recording", "stop_requested"}
               THEN [page EXCEPT ![p].writes[1].at = "put"]
               ELSE [page EXCEPT ![p].writes = Tail(@), ![p].failed = TRUE]
  /\ Only("page")

WritePuts(p) ==
  /\ page[p].up /\ page[p].writes # <<>> /\ Head(page[p].writes).at = "put"
  /\ LET c == <<p, Head(page[p].writes).n>> IN
       jobs' = jobs \cup {c} /\ attempts' = [attempts EXCEPT ![c] = 0]
  /\ page' = [page EXCEPT ![p].writes = Tail(@),
                          ![p].drain = IF @ = "idle" THEN "list" ELSE @]
  /\ UNCHANGED <<record, world, heard, failures>>

\* The read or the put is rejected: the chunk is not persisted.
WriteFails(p) ==
  /\ page[p].up /\ page[p].writes # <<>> /\ Inject("write")
  /\ page' = [page EXCEPT ![p].writes = Tail(@), ![p].failed = TRUE]
  /\ UNCHANGED <<store, world, heard>>

\* The recorder stops by itself; its last data comes before its stop event.
\* While a stop is on its way, the event is taken for the expected one.
RecorderDies(p) ==
  /\ page[p].up /\ page[p].recorder = "on"
  /\ page[p].ui \in {"idle", "stop-put"}
  /\ Delivered(p, [page[p] EXCEPT !.recorder = "off",
                                  !.ui = IF @ = "idle" THEN "unexpected" ELSE @])
  /\ UNCHANGED <<store, world, lost, failures>>

\* finishUnexpectedRecorderStop: markUnexpectedStop, then retryPendingUploads.
UnexpectedReads(p) ==
  /\ At(p, "unexpected") /\ Settled(p)
  /\ IF record.phase = "recording"
       THEN Read(p, "unexpected-put")
       ELSE page' = [page EXCEPT ![p] = Retried([@ EXCEPT !.ui = "idle"])]
  /\ Only("page")

UnexpectedPuts(p) ==
  /\ At(p, "unexpected-put")
  /\ record' = [page[p].copy EXCEPT !.phase = "flush_uncertain"]
  /\ page' = [page EXCEPT ![p] = Retried([@ EXCEPT !.ui = "idle", !.copy = NoRecord])]
  /\ UNCHANGED <<jobs, attempts, world, heard, failures>>

-----------------------------------------------------------------------------
(* stopMicRecorder and stopMediaRecorderAndPersistTail.                    *)

\* requestStop reads the record and looks for a failed write.
Stop(p) ==
  /\ At(p, "idle") /\ Settled(p)
  /\ page[p].recorder = "on"
  /\ Read(p, IF record.phase # "recording" THEN "stop-failed"
             ELSE IF page[p].failed THEN "uncertain-put" ELSE "stop-put")
  /\ Only("page")

\* The recorder is asked for its last data; a dead one rejects that.
StopPuts(p) ==
  /\ At(p, "stop-put")
  /\ Put(p, "stop_requested", IF page[p].recorder = "on" THEN "flush" ELSE "stop-failed")
  /\ UNCHANGED <<jobs, attempts, world, heard, failures>>

\* The last data, then the stop event.
Flush(p) ==
  /\ At(p, "flush")
  /\ Delivered(p, [page[p] EXCEPT !.recorder = "off", !.ui = "tail"])
  /\ UNCHANGED <<store, world, lost, failures>>

\* The recorder reports an error instead.
FlushFails(p) ==
  /\ At(p, "flush") /\ Inject("recorder")
  /\ Delivered(p, [page[p] EXCEPT !.recorder = "off", !.ui = "stop-failed"])
  /\ lost' = TRUE
  /\ UNCHANGED <<store, world>>

TailIsSafeInPhase(p) == record.phase = "stop_requested"

\* markTailDurable: no write of the page may have failed.
TailIsSafe(p) == record.phase = "stop_requested" /\ ~page[p].failed

TailReads(p) ==
  /\ At(p, "tail") /\ Settled(p)
  /\ Read(p, IF TailIsSafe(p) THEN "tail-put"
             ELSE IF record.phase = "stop_requested" THEN "uncertain-put" ELSE "stop-failed")
  /\ Only("page")

\* Then retryPendingUploads.
TailPuts(p) ==
  /\ At(p, "tail-put")
  /\ record' = [page[p].copy EXCEPT !.phase = "tail_durable"]
  /\ page' = [page EXCEPT ![p] = Retried([@ EXCEPT !.ui = "idle", !.copy = NoRecord])]
  /\ UNCHANGED <<jobs, attempts, world, heard, failures>>

\* persistFlushUncertain, before the error is thrown.
UncertainPuts(p) ==
  /\ At(p, "uncertain-put")
  /\ Put(p, "flush_uncertain", "stop-failed")
  /\ UNCHANGED <<jobs, attempts, world, heard, failures>>

\* markStopFailed; the tracks of the recorder are stopped.
StopFailedReads(p) ==
  /\ At(p, "stop-failed") /\ Settled(p)
  /\ page' = [page EXCEPT
       ![p].ui = IF record.phase \in {"recording", "stop_requested"} THEN "stop-failed-put" ELSE "idle",
       ![p].copy = IF record.phase \in {"recording", "stop_requested"} THEN record ELSE NoRecord,
       ![p].recorder = "off"]
  /\ lost' = (lost \/ page[p].recorder = "on")
  /\ UNCHANGED <<store, world, taken, failures>>

StopFailedPuts(p) ==
  /\ At(p, "stop-failed-put")
  /\ Put(p, "flush_uncertain", "idle")
  /\ UNCHANGED <<jobs, attempts, world, heard, failures>>

-----------------------------------------------------------------------------
(* The drain of the uploads, one per page.                                 *)

Draining(p, at) == page[p].up /\ page[p].drain = at

\* A drain that has found no job left, or has thrown, wakes those who wait for
\* it.  Those who came while it ran want another one.
DrainEnds(p, thrown) ==
  LET pg == page[p]
      woken == [pg EXCEPT
        !.drain = "idle", !.job = <<>>, !.tries = 0,
        !.ui = CASE thrown /\ @ \in {"final-drain", "final-wait"} -> "idle"
                 [] ~thrown /\ @ = "final-wait" -> "final-check"
                 [] OTHER -> @,
        !.copy = IF thrown /\ pg.ui \in {"final-drain", "final-wait"} THEN NoRecord ELSE @,
        !.retry = IF thrown /\ pg.reset = {} THEN FALSE ELSE @,
        !.ack = CASE thrown /\ @ \in {"drain", "wait"} -> "none"
                  [] ~thrown /\ @ = "wait" -> "check"
                  [] OTHER -> @]
  IN page' = [page EXCEPT ![p] = DrainIfWanted(woken)]

\* performDrain takes the first job; one that has failed too often blocks.
NextJobAny == jobs

NextJob == FirstJobs

IsBlocked(c) == attempts[c] >= MaxAttempts

DrainLists(p) ==
  /\ Draining(p, "list")
  /\ \/ jobs = {} /\ DrainEnds(p, FALSE)
     \/ \E c \in NextJob :
          IF IsBlocked(c)
            THEN DrainEnds(p, TRUE)
            ELSE page' = [page EXCEPT ![p].drain = "sent", ![p].job = c, ![p].tries = attempts[c]]
  /\ Only("page")

\* saveAudioChunkUnlocked: a stored chunk is acknowledged again; a new one
\* needs an open session.
Takes(c) == c \in server.stored \/ server.phase = "open"

Served(c) == server' = IF Takes(c) THEN [server EXCEPT !.stored = @ \cup {c}] ELSE server

Serve(p) ==
  /\ Draining(p, "sent")
  /\ Served(page[p].job)
  /\ page' = [page EXCEPT ![p].drain = IF Takes(page[p].job) THEN "delete" ELSE "count"]
  /\ UNCHANGED <<store, late, heard, failures>>

\* The connection is lost, before or after the service has the request.
UploadFails(p) ==
  /\ Draining(p, "sent") /\ Inject("upload")
  /\ late' \in {late, late \cup {page[p].job}}
  /\ page' = [page EXCEPT ![p].drain = "count"]
  /\ UNCHANGED <<store, server, heard>>

ServeLate(c) ==
  /\ c \in late /\ late' = late \ {c}
  /\ Served(c)
  /\ UNCHANGED <<store, page, heard, failures>>

AfterAnswerDeletes(p) == Draining(p, "delete") \/ Draining(p, "count")

AfterAnswer(p) == Draining(p, "delete")

DeleteJob(p) ==
  /\ AfterAnswer(p)
  /\ jobs' = jobs \ {page[p].job} /\ attempts' = [attempts EXCEPT ![page[p].job] = 0]
  /\ page' = [page EXCEPT ![p].drain = "list", ![p].job = <<>>, ![p].tries = 0]
  /\ UNCHANGED <<record, world, heard, failures>>

\* The attempt is counted on the job as it was listed.
CountFailure(p) ==
  /\ Draining(p, "count")
  /\ jobs' = jobs \cup {page[p].job}
  /\ attempts' = [attempts EXCEPT ![page[p].job] = page[p].tries + 1]
  /\ IF page[p].tries + 1 >= MaxAttempts
       THEN DrainEnds(p, TRUE)
       ELSE page' = [page EXCEPT ![p].drain = "list", ![p].job = <<>>, ![p].tries = 0]
  /\ UNCHANGED <<record, world, heard, failures>>

\* deleteJob is rejected: that counts as a failed attempt.  The put that counts
\* an attempt is rejected: the drain is over.
DrainWriteFails(p) ==
  /\ Inject("write")
  /\ \/ Draining(p, "delete") /\ page' = [page EXCEPT ![p].drain = "count"]
     \/ Draining(p, "count") /\ DrainEnds(p, TRUE)
  /\ UNCHANGED <<store, world, heard>>

\* The user asks for a retry, which the page offers when a job is blocked.
Retry(p) ==
  /\ Ready(p) /\ ~page[p].retry /\ Settled(p)
  /\ \E c \in jobs : IsBlocked(c)
  /\ page' = [page EXCEPT ![p] = Retried(@)]
  /\ Only("page")

\* The jobs are reset, one put each; after the last the page drains.
RetryPuts(p, c) ==
  /\ page[p].up /\ page[p].retry /\ c \in page[p].reset
  /\ jobs' = jobs \cup {c} /\ attempts' = [attempts EXCEPT ![c] = 0]
  /\ page' = [page EXCEPT ![p] = DrainIfWanted([page[p] EXCEPT !.reset = @ \ {c}])]
  /\ UNCHANGED <<record, world, heard, failures>>

-----------------------------------------------------------------------------
(* The end of the session.                                                 *)

\* endCurrentSession with the loss confirmed: confirmUncertainTailLoss.
Confirm(p) ==
  /\ At(p, "idle") /\ Settled(p) /\ page[p].recorder = "off" /\ ~page[p].closed
  /\ record.phase = "flush_uncertain"
  /\ Read(p, "confirm-put")
  /\ Only("page")

ConfirmPuts(p) ==
  /\ At(p, "confirm-put")
  /\ record' = [page[p].copy EXCEPT !.phase = "loss_confirmed"]
  /\ page' = [page EXCEPT ![p].ui = "final", ![p].copy = NoRecord, ![p].failed = FALSE]
  /\ UNCHANGED <<jobs, attempts, world, heard, failures>>

Unfinished == {"recording", "stop_requested", "flush_uncertain"}

\* endCurrentSession: finalizeSession, also after a confirmation.
End(p) ==
  /\ Settled(p)
  /\ \/ At(p, "idle") /\ page[p].recorder = "off" /\ ~page[p].closed
     \/ At(p, "final")
  /\ IF record.phase \in Unfinished
       THEN Read(p, "idle")
       ELSE page' = [page EXCEPT ![p] = DrainIfWanted([@ EXCEPT !.ui = "final-drain", !.copy = record])]
  /\ Only("page")

\* The jobs are listed again: none may be left.
FinalChecks(p) ==
  /\ At(p, "final-check")
  /\ Goto(p, IF jobs # {} THEN "idle"
             ELSE IF page[p].copy.phase \in {"tail_durable", "loss_confirmed"} THEN "final-put"
             ELSE "ending")
  /\ Only("page")

\* recordingTailDisposition.
Disposition(r) ==
  CASE r.phase = "none" -> "not-recording"
    [] r.phase = "tail_durable" -> "durable"
    [] r.phase = "loss_confirmed" -> "loss-confirmed"
    [] OTHER -> r.disp

FinalPuts(p) ==
  /\ At(p, "final-put")
  /\ record' = [phase |-> "end_pending", disp |-> Disposition(page[p].copy)]
  /\ Goto(p, "ending")
  /\ UNCHANGED <<jobs, attempts, world, heard, failures>>

\* endSession on the service: the first disposition stays, unless a loss is
\* confirmed later.
Ends(disp, phase) ==
  server' = IF server.phase = "ended" THEN server
            ELSE [server EXCEPT !.phase = phase,
                                !.disp = IF @ = "none" \/ disp = "loss-confirmed" THEN disp ELSE @]

EndSucceeds(p) ==
  /\ At(p, "ending")
  /\ Ends(Disposition(page[p].copy), "ended")
  /\ page' = [page EXCEPT ![p].ui = IF page[p].copy.phase = "none" THEN "idle" ELSE "delete",
                          ![p].copy = NoRecord, ![p].closed = TRUE]
  /\ UNCHANGED <<store, late, heard, failures>>

\* The request fails, or only its answer: the record stays end_pending.
EndFails(p) ==
  /\ At(p, "ending") /\ Inject("end")
  /\ \/ UNCHANGED server
     \/ \E phase \in {"stopping", "ended"} : Ends(Disposition(page[p].copy), phase)
  /\ Goto(p, "idle")
  /\ UNCHANGED <<store, late, heard>>

DeleteRecord(p) ==
  /\ At(p, "delete")
  /\ record' = NoRecord
  /\ page' = [page EXCEPT ![p].ui = "idle", ![p].failed = FALSE]
  /\ UNCHANGED <<jobs, attempts, world, heard, failures>>

\* Another device, which has recorded nothing, ends the session.
OthersEnd ==
  /\ server.phase # "ended" /\ Inject("others")
  /\ Ends("not-recording", "ended")
  /\ UNCHANGED <<store, page, late, heard>>

SessionHasEnded == server.phase = "ended"

\* The page hears that the session has ended, from the event or a refresh:
\* acknowledgeSessionEnded.
HearEnded(p) ==
  /\ Ready(p) /\ page[p].ack = "none" /\ SessionHasEnded
  /\ Settled(p)
  /\ page' = [page EXCEPT ![p] = DrainIfWanted([@ EXCEPT !.closed = TRUE, !.ack = "drain"])]
  /\ Only("page")

AckChecks(p) ==
  /\ page[p].up /\ page[p].ack = "check"
  /\ page' = [page EXCEPT ![p].ack = IF jobs = {} /\ record.phase # "none" THEN "delete" ELSE "none"]
  /\ Only("page")

AckDeletes(p) ==
  /\ page[p].up /\ page[p].ack = "delete"
  /\ record' = NoRecord
  /\ page' = [page EXCEPT ![p].ack = "none", ![p].failed = FALSE]
  /\ UNCHANGED <<jobs, attempts, world, heard, failures>>

\* Where an operation goes on when its put or its delete is rejected.
Rejected(ui) ==
  CASE ui = "initialize-put" -> "broken"
    [] ui \in {"stop-put", "tail-put"} -> "uncertain-put"
    [] ui = "uncertain-put" -> "stop-failed"
    [] ui \in {"begin-put", "unexpected-put", "stop-failed-put", "confirm-put", "final-put", "delete"} -> "idle"
    [] OTHER -> ui

RecordWriteFails(p) ==
  /\ page[p].up /\ Rejected(page[p].ui) # page[p].ui /\ Inject("write")
  /\ Goto(p, Rejected(page[p].ui))
  /\ UNCHANGED <<store, world, heard>>

\* A put of retryPendingUploads or the delete of acknowledgeSessionEnded fails.
OtherWriteFails(p) ==
  /\ page[p].up /\ Inject("write")
  /\ \/ page[p].retry /\ page[p].reset # {} /\ page' = [page EXCEPT ![p].retry = FALSE, ![p].reset = {}]
     \/ page[p].ack = "delete" /\ page' = [page EXCEPT ![p].ack = "none"]
  /\ UNCHANGED <<store, world, heard>>

\* The page is reloaded or closed: what it holds in memory is gone, an upload
\* it has sent may still arrive.
Unload(p) ==
  /\ page[p].up /\ Inject("reload")
  /\ page' = [page EXCEPT ![p] = [Blank EXCEPT !.next = page[p].next]]
  /\ lost' = (lost \/ page[p].recorder = "on")
  /\ late' \in IF page[p].drain = "sent" THEN {late, late \cup {page[p].job}} ELSE {late}
  /\ UNCHANGED <<store, server, taken>>

-----------------------------------------------------------------------------
Recording(p) ==
  \/ Begin(p) \/ BeginPuts(p)
  \/ Deliver(p) \/ WriteReads(p) \/ WritePuts(p) \/ WriteFails(p)
  \/ RecorderDies(p) \/ UnexpectedReads(p) \/ UnexpectedPuts(p)

Stopping(p) ==
  \/ Stop(p) \/ StopPuts(p) \/ Flush(p) \/ FlushFails(p)
  \/ TailReads(p) \/ TailPuts(p) \/ UncertainPuts(p)
  \/ StopFailedReads(p) \/ StopFailedPuts(p)

Uploading(p) ==
  \/ DrainLists(p) \/ Serve(p) \/ UploadFails(p) \/ DeleteJob(p) \/ CountFailure(p) \/ DrainWriteFails(p)
  \/ Retry(p) \/ \E c \in Chunk : RetryPuts(p, c)

Ending(p) ==
  \/ Confirm(p) \/ ConfirmPuts(p)
  \/ End(p) \/ FinalChecks(p) \/ FinalPuts(p)
  \/ EndSucceeds(p) \/ EndFails(p) \/ DeleteRecord(p)
  \/ HearEnded(p) \/ AckChecks(p) \/ AckDeletes(p)

Loading(p) ==
  \/ Load(p) \/ InitializeReads(p) \/ InitializePuts(p) \/ Unload(p)
  \/ RecordWriteFails(p) \/ OtherWriteFails(p)

Next ==
  \/ \E p \in Page : Loading(p) \/ Recording(p) \/ Stopping(p) \/ Uploading(p) \/ Ending(p)
  \/ \E c \in Chunk : ServeLate(c)
  \/ OthersEnd

Spec == Init /\ [][Next]_vars

\* What the page does on its own once it has started goes on while the page is
\* loaded, and a request is served or lost.  The user owes nothing.
Fairness ==
  \A p \in Page :
    /\ WF_vars(InitializeReads(p)) /\ WF_vars(InitializePuts(p))
    /\ WF_vars(DrainLists(p)) /\ WF_vars(Serve(p))
    /\ WF_vars(DeleteJob(p)) /\ WF_vars(CountFailure(p))
    /\ WF_vars(\E c \in Chunk : RetryPuts(p, c))

FairSpec == Spec /\ Fairness

-----------------------------------------------------------------------------
(* Properties.                                                             *)

Record == [phase : {"none", "recording", "stop_requested", "flush_uncertain", "tail_durable",
                    "loss_confirmed", "end_pending"},
           disp : {"none", "durable", "loss-confirmed"}]

UiState ==
  {"idle", "initialize", "initialize-put", "broken", "begin-put", "unexpected", "unexpected-put",
   "stop-put", "flush", "tail", "tail-put", "uncertain-put", "stop-failed", "stop-failed-put",
   "confirm-put", "final", "final-drain", "final-wait", "final-check", "final-put", "ending", "delete"}

Write == [n : 1..MaxChunks, at : {"read", "put"}]

PageState ==
  [up : BOOLEAN, ui : UiState, copy : Record, recorder : {"off", "on"}, next : 1..(MaxChunks + 1),
   writes : Seq(Write), failed : BOOLEAN,
   drain : {"idle", "list", "sent", "delete", "count"}, job : Chunk \cup {<<>>}, tries : 0..MaxAttempts,
   reset : SUBSET Chunk, retry : BOOLEAN, ack : {"none", "drain", "wait", "check", "delete"},
   closed : BOOLEAN]

\* The values the state can hold: an upload is not tried more often than
\* maxAttempts.
TypeOK ==
  /\ record \in Record
  /\ jobs \subseteq Chunk
  /\ attempts \in [Chunk -> 0..MaxAttempts]
  /\ server \in [phase : {"open", "stopping", "ended"},
                 disp : {"none", "not-recording", "durable", "loss-confirmed"},
                 stored : SUBSET Chunk]
  /\ page \in [Page -> PageState]
  /\ late \subseteq Chunk /\ taken \subseteq Chunk
  /\ lost \in BOOLEAN /\ failures \in 0..MaxFailures

\* An audio chunk the service does not have is still a job of the store:
\* uploads that fail, are answered late or are sent by two pages lose nothing
\* that was persisted (performDrain deletes a job after the answer only).
PersistedIsKept ==
  [][jobs \subseteq jobs' \cup server'.stored]_vars

\* When the service is told that the tail is durable, it has every chunk the
\* recorder delivered, and the recorder has delivered all it recorded
\* (requestStop, markTailDurable and finalizeSession, across failed writes,
\* reloads and uploads that fail).
DurableEndIsComplete ==
  [][server.disp # "durable" /\ server'.disp = "durable" =>
       /\ taken \subseteq server.stored /\ ~lost
       /\ \A p \in Page : page[p].recorder = "off"]_vars

\* Uploads do not overtake: of one recording, a stored chunk has before it only
\* chunks that are stored or were never persisted (performDrain stops at a
\* chunk that fails).
NoOvertaking ==
  \A c \in jobs, d \in server.stored :
    c[1] = d[1] /\ c[2] < d[2] => c \in server.stored

\* The record of a recording is only deleted once the session has ended, so an
\* end that fails can be repeated with its disposition (finalizeSession,
\* acknowledgeSessionEnded).
RecordKeptUntilEnded ==
  [][record.phase # "none" /\ record'.phase = "none" => server.phase = "ended"]_vars

\* While a page is loaded a persisted chunk is uploaded, unless the queue is
\* blocked by a job that has failed too often and waits for the user: neither
\* an upload that fails nor a reload leaves a job that nobody works on
\* (performDrain, initialize, retryPendingUploads).
UploadsSettle ==
  \A c \in Chunk :
    c \in jobs ~> \/ c \notin jobs
                  \/ \E d \in jobs : IsBlocked(d)
                  \/ \A p \in Page : ~page[p].up

=============================================================================
