------------------------------ MODULE Service ------------------------------
(***************************************************************************)
(* The service of one data root through starts, crashes and closes, with   *)
(* what goes on meanwhile: captions and synchronisation, publishing to     *)
(* Memos, feeding a page with events, or with previews between the starts  *)
(* and ends of sessions, and the tools that an operator runs on the root.  *)
(* These share the life of the process and the page, which either of its   *)
(* two workloads changes; a behaviour has one workload.                    *)
(***************************************************************************)
EXTENDS AppLifecycle, MemosPublish, LiveStream, DataTools

CONSTANT Workloads

ASSUME ServiceAssumption == Workloads \subseteq {"capture", "memos", "events", "previews", "tools"} /\ Nobody = NoProcess

VARIABLE workload

vars == <<lifecycleVars, memosVars, liveVars, toolVars, workload>>

\* A root of the old version is met by the tools only.
Init ==
  /\ LifecycleInit /\ MemosInit /\ LiveInit /\ ToolsInit /\ workload \in Workloads
  /\ workload # "tools" => original = NoFiles

Serving(p) == Life(p) = "ready"
NotServing == {p \in Process : ~Serving(p)}

Idles == UNCHANGED <<memosVars, liveVars, toolVars, workload>>

-----------------------------------------------------------------------------
(* The life of a process.                                                  *)

\* Processes contend for the root under the captures only.
Starts(p) ==
  /\ workload # "capture" => \A q \in Process : Life(q) \in {"new", "closed", "dead"}
  /\ StartProcess(p) /\ Idles

\* Beside the tools and the previews a process ends by a crash: a close leaves no other
\* root, and takes the connections like a crash.
Locks(p) ==
  \/ (LockRefused(p) \/ (workload \notin {"tools", "previews"} /\ Close(p))) /\ Idles
  \/ LockAcquired(p) /\ RootTaken /\ UNCHANGED <<memosVars, liveVars, workload>>
  \/ InitFails(p) /\ FeedLost /\ UNCHANGED <<memosVars, toolVars, workload>>

Ready(p) ==
  /\ InitSucceeds(p) /\ MemosLoaded /\ RootOpened /\ ~feed.unsent
  /\ workload # "capture" => proc'[p].work \subseteq {"timer"}
  /\ UNCHANGED <<disk, publish, instance, liveVars, workload>>

Dies(p) ==
  /\ Crash(p) /\ UNCHANGED <<disk, instance, workload>>
  /\ IF Life(p) = "locking" THEN UNCHANGED <<memory, publish, liveVars, toolVars>>
     ELSE MemosLost /\ FeedLost /\ RootLeft

\* The requests to Memos are requests like others: the barrier waits for them.
NothingPublished == Publishing = {} /\ memory.test = None

Drained(p) == RequestsDrained(p) /\ NothingPublished /\ Idles

\* Every event that is stored has its item and was broadcast.
EventsSettled == ~feed.unsent /\ ~root.owed

Settles(p) ==
  /\ \/ AdaptersStopped(p) \/ SyncsSettled(p) \/ TransitionsSettled(p) \/ StopsDrained(p)
     \/ TailsSettled(p) /\ EventsSettled
  /\ Idles

Closed(p) == Released(p) /\ FeedLost /\ UNCHANGED <<memosVars, toolVars, workload>>

LifeStep(p) == Starts(p) \/ Locks(p) \/ Ready(p) \/ Dies(p) \/ Drained(p) \/ Settles(p) \/ Closed(p)

-----------------------------------------------------------------------------
(* The workloads.                                                          *)

CaptureBegins(p) ==
  /\ workload = "capture" /\ Idles
  /\ \/ RequestArrives(p) \/ RequestAttaches(p) \/ RequestDetaches(p) \/ RuntimeTransition(p)
     \/ RuntimeFailure(p) \/ RuntimeExit(p) \/ TranslationAnswered(p) \/ SyncStarts(p)
     \/ \E k \in MayWrite : WriteBegins(p, k)

Finishes(p, k) == WorkEnds(p, k) /\ Idles
Recorded(p) == ExitRecorded(p) /\ Idles
Written(p) == WriteEnds(p) /\ Idles
Stopped(p) == RuntimeStopped(p) /\ Idles

Capture(p) ==
  CaptureBegins(p) \/ Recorded(p) \/ Written(p) \/ Stopped(p) \/ \E k \in WorkKind : Finishes(p, k)

MemosRequest(p) ==
  /\ workload = "memos" /\ Serving(p) /\ UNCHANGED <<lifecycleVars, liveVars, toolVars, workload>>
  /\ \/ \E srv \in Server : UpdateSettings(srv)
     \/ TestConnection
     \/ \E a \in Attempt, s \in Session : BeginPublish(a, s, p)

MemosAnswer(p) ==
  /\ workload = "memos" /\ Life(p) \in {"ready", "closing"}
  /\ ConnectionTested \/ \E a \in Attempt : publish[a].by = p /\ PublishStep(a, Life(p) = "closing")
  /\ UNCHANGED <<lifecycleVars, liveVars, toolVars, workload>>

LiveStep ==
  workload \in {"events", "previews"} /\ UNCHANGED <<lifecycleVars, memosVars, toolVars, workload>>

\* The recovery stores events too.  A process that closes has no connection any more.
Broadcasts(p) ==
  /\ LiveStep /\ Life(p) \in {"initializing", "ready", "closing"}
  /\ EventBroadcast(p, Serving(p))

\* Beside the previews the events are the ends of sessions and their starts.
Feeds(p) ==
  /\ LiveStep /\ Len(conn.queue) < MaxQueue
  /\ \/ /\ Life(p) \in {"initializing", "ready", "closing"}
        /\ EventStored(workload = "previews" /\ SessionOpen)
     \/ /\ workload = "previews" /\ Serving(p)
        /\ \/ CaptionerAttached \/ PreviewPublished(p) \/ PreviewWithdrawn(p)
           \/ TranscriptDone(p) \/ HelperReconnects(p) \/ CaptionerDetached(p)

Connects(p) == LiveStep /\ Serving(p) /\ (OpenPage(p) \/ Reconnect(p))
Answers(p) == LiveStep /\ Serving(p) /\ RefreshAnswered(p)
Receives == LiveStep /\ (ReceiveHello \/ ReceiveEvent \/ ReceivePreview)
Applies == LiveStep /\ RefreshApplied
Drops == LiveStep /\ Drop(FALSE)
Disconnects == LiveStep /\ ((conn.by \in NotServing /\ Drop(TRUE)) \/ RefreshFails(NotServing))

ToolStep == workload = "tools" /\ UNCHANGED <<lifecycleVars, memosVars, liveVars, workload>>

Appends(p) ==
  /\ ToolStep
  /\ (Serving(p) /\ LineAppended) \/ (Life(p) \in {"ready", "closing"} /\ ItemAppended)

Operates == ToolStep /\ (MigrationStep \/ BackupStep(endpoint # NoProcess) \/ ToolDies)

Next ==
  \/ \E p \in Process : \/ LifeStep(p) \/ Capture(p) \/ MemosRequest(p) \/ MemosAnswer(p)
                        \/ Feeds(p) \/ Broadcasts(p) \/ Connects(p) \/ Answers(p) \/ Appends(p)
  \/ Receives \/ Applies \/ Drops \/ Disconnects \/ Operates

Spec == Init /\ [][Next]_vars

-----------------------------------------------------------------------------
(* Properties.                                                             *)

TypeOK == LifecycleTypeOK /\ MemosTypeOK /\ LiveTypeOK /\ ToolsTypeOK

\* A process writes to the root: it initialises it, it appends an event, or it
\* publishes.  The write of an exit handler is not counted: nobody awaits it.
Writing(p) ==
  \/ Life(p) = "initializing" \/ proc[p].writer \notin {"none", "exit"}
  \/ \E a \in Publishing : publish[a].by = p

\* Who writes to a root holds its lock: a process that closes releases it after the
\* last of its writes, whatever was going on when the close began.
LockCoversWrites == \A p \in Process : Writing(p) => endpoint = p

\* The close of a process may go to its next stage, or release the root.
StageMayEnd(p) ==
  /\ StageOver(p, proc[p].stage)
  /\ proc[p].stage = "requests" => NothingPublished
  /\ proc[p].stage = "tails" => EventsSettled

\* A request of a publication, or of the test of the connection, may be answered.
MemosMayAnswer(p) ==
  /\ workload = "memos"
  /\ \/ memory.test # None
     \/ \E a \in Publishing : publish[a].by = p /\ (At(a, "recording") => Turn(a))

EventMaySettle ==
  (workload \in {"events", "previews"} /\ feed.unsent) \/ (workload = "tools" /\ root.owed)

\* A close is never stuck: whatever was going on when it began, it ends or something
\* that it waits for does (closeReadyApp, and the queues that its stages await).
CloseIsNeverStuck ==
  \A p \in Process : Life(p) = "closing" =>
    \/ StageMayEnd(p) \/ MemosMayAnswer(p) \/ EventMaySettle
    \/ proc[p].writer # "none" \/ MayStop(p) \/ MayBeRecorded(p) \/ \E k \in WorkKind : MayEnd(p, k)

\* A page that has read what it was sent shows the preview that the service keeps.
PreviewIsCurrent ==
  conn.by # Nobody /\ Serving(conn.by) /\ conn.queue = <<>> => page.preview = feed.preview

\* A page that has read what it was sent and has no refresh under way shows all events of
\* the service, those of a lost connection too, unless a forced refresh took it back: its
\* answer was overtaken by the stream, and neither an event nor a hello has come since.
EventsAreCurrent ==
  conn.by # Nobody /\ Serving(conn.by) /\ conn.queue = <<>> /\ ~feed.unsent
    /\ (\A i \in Refreshes : refresh[i] = Idle) /\ ~page.back
    => page.applied = 1 .. feed.cursor

\* A page that has caught up, and was not just taken back, shows the preview and the
\* events that the service holds.
PageIsCurrent == PreviewIsCurrent /\ EventsAreCurrent

=============================================================================
