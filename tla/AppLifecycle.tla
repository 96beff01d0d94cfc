---------------------------- MODULE AppLifecycle ----------------------------
(***************************************************************************)
(* The programs that share one data root, each a process that lives once:  *)
(* it takes the lock of the root, initialises, serves, and closes, in the  *)
(* order in which LiteServerApp.close waits for what is still going on.    *)
(*                                                                         *)
(* What a process does while it serves is a set of kinds of work.  Each    *)
(* kind may write to the root, one write at a time (queueEventMutation).   *)
(* A crash ends a process at any moment; the operating system then         *)
(* releases its lock.                                                      *)
(***************************************************************************)
EXTENDS Naturals, FiniteSets

CONSTANTS Process, NoProcess

ASSUME ProcessAssumption == NoProcess \notin Process

\* request: an accepted HTTP request.  runtime: a caption runtime that is attached.
\* transition: an operation of captureTransitionTails.  stop: a member of
\* pendingCaptionRuntimeStops.  exit: handleCaptionAdapterExit, which nobody awaits.
\* translation: a task of a translation pool whose result may be stored.  timer, sync: the
\* automatic synchronisation.
WorkKind == {"request", "runtime", "transition", "stop", "exit", "translation", "timer", "sync"}

VARIABLES
  endpoint,  \* the process that listens on the endpoint of the root
  proc       \* the state of each process

lifecycleVars == <<endpoint, proc>>

NewProcess == [life |-> "new", closeAsked |-> FALSE, stage |-> "none", work |-> {},
               writer |-> "none", stopping |-> FALSE]

LifecycleInit == endpoint = NoProcess /\ proc = [p \in Process |-> NewProcess]

Life(p) == proc[p].life
Set(p, r) == proc' = [proc EXCEPT ![p] = r]
Busy(p, k) == k \in proc[p].work

-----------------------------------------------------------------------------
(* The lock and the start.                                                 *)

StartProcess(p) ==
  /\ Life(p) = "new" /\ Set(p, [proc[p] EXCEPT !.life = "locking"]) /\ UNCHANGED endpoint

\* server.listen on the endpoint.
LockAcquired(p) ==
  /\ Life(p) = "locking" /\ endpoint = NoProcess /\ endpoint' = p
  /\ Set(p, [proc[p] EXCEPT !.life = "initializing"])

LockRefused(p) ==
  /\ Life(p) = "locking" /\ endpoint # NoProcess
  /\ Set(p, [proc[p] EXCEPT !.life = "closed"]) /\ UNCHANGED endpoint

Closing(r) == [r EXCEPT !.life = "closing", !.stage = "requests",
                        !.work = @ \ {"timer"}]

\* initialize succeeds; the recovery may have attached a runtime.  A close that was
\* asked for meanwhile begins.
InitSucceeds(p) ==
  /\ Life(p) = "initializing"
  /\ \E recovered \in SUBSET {"runtime"} :
       LET r == [proc[p] EXCEPT !.life = "ready", !.work = recovered \cup {"timer"}] IN
         Set(p, IF r.closeAsked THEN Closing(r) ELSE r)
  /\ UNCHANGED endpoint

\* DataRootLock.close
Unlocked(p) ==
  /\ Set(p, [proc[p] EXCEPT !.life = "closed", !.stage = "none"])
  /\ endpoint' = IF endpoint = p THEN NoProcess ELSE endpoint

InitFails(p) == Life(p) = "initializing" /\ Unlocked(p)

Crash(p) ==
  /\ Life(p) \in {"locking", "initializing", "ready", "closing"}
  /\ Set(p, [NewProcess EXCEPT !.life = "dead"])
  /\ endpoint' = IF endpoint = p THEN NoProcess ELSE endpoint

-----------------------------------------------------------------------------
(* What a process does.                                                    *)

Begins(p, k) == [proc[p] EXCEPT !.work = @ \cup {k}]
Becomes(p, k, ks) == [proc[p] EXCEPT !.work = (@ \ {k}) \cup ks]

\* A request is accepted; one that comes later is answered 503.
RequestArrives(p) ==
  /\ Life(p) = "ready" /\ ~Busy(p, "request")
  /\ Set(p, Begins(p, "request")) /\ UNCHANGED endpoint

\* A request starts a session, whose captioner is attached, or ends one.
RequestAttaches(p) ==
  /\ Busy(p, "request") /\ ~Busy(p, "runtime")
  /\ Set(p, Begins(p, "runtime")) /\ UNCHANGED endpoint

RequestDetaches(p) ==
  /\ Busy(p, "request") /\ Busy(p, "runtime")
  /\ Set(p, Becomes(p, "runtime", {})) /\ UNCHANGED endpoint

\* A caption, a status or a failure of the captioner queues a transition.
RuntimeTransition(p) ==
  /\ Busy(p, "runtime") /\ ~proc[p].stopping /\ ~Busy(p, "transition")
  /\ Set(p, Begins(p, "transition")) /\ UNCHANGED endpoint

\* handleCaptionRuntimeFailure, which a process that closes ignores.
RuntimeFailure(p) ==
  /\ Life(p) = "ready" /\ Busy(p, "transition") /\ Busy(p, "runtime") /\ ~Busy(p, "stop")
  /\ Set(p, Becomes(p, "runtime", {"stop"})) /\ UNCHANGED endpoint

\* The captioner exits: its runtime is detached and its capture is stopped.
RuntimeExit(p) ==
  /\ Busy(p, "runtime") /\ ~Busy(p, "exit")
  /\ Set(p, Becomes(p, "runtime", {"exit"})) /\ UNCHANGED endpoint

MayBeRecorded(p) == Busy(p, "exit") /\ proc[p].writer # "exit"

ExitRecorded(p) ==
  /\ MayBeRecorded(p)
  /\ Set(p, Becomes(p, "exit", IF Life(p) = "ready" THEN {"transition"} ELSE {}))
  /\ UNCHANGED endpoint

\* The timer of the automatic synchronisation; a run that goes on is not joined.
SyncStarts(p) ==
  /\ Busy(p, "timer") /\ Life(p) = "ready"
  /\ Set(p, Becomes(p, "timer", {"sync"})) /\ UNCHANGED endpoint

\* translationWritesAllowed, after the model has answered.
TranslationAnswered(p) ==
  /\ Life(p) = "ready" /\ ~Busy(p, "translation")
  /\ Set(p, Begins(p, "translation")) /\ UNCHANGED endpoint

\* A write begins when it is its turn, and ends; a stored event arms the timer.
MayWrite == WorkKind \ {"timer"}

WriteBegins(p, k) ==
  /\ Busy(p, k) /\ proc[p].writer = "none"
  /\ Set(p, [proc[p] EXCEPT !.writer = k]) /\ UNCHANGED endpoint

WriteEnds(p) ==
  /\ proc[p].writer # "none"
  /\ Set(p, [proc[p] EXCEPT !.writer = "none",
                            !.work = IF Life(p) = "ready" THEN @ \cup {"timer"} ELSE @])
  /\ UNCHANGED endpoint

MayEnd(p, k) ==
  k \in {"request", "transition", "stop", "translation", "sync"} /\ Busy(p, k) /\ proc[p].writer # k

WorkEnds(p, k) == MayEnd(p, k) /\ Set(p, Becomes(p, k, {})) /\ UNCHANGED endpoint

-----------------------------------------------------------------------------
(* close.                                                                  *)

\* SIGINT, SIGTERM, the close event of the HTTP server, or a call.
Close(p) ==
  \/ /\ Life(p) = "ready" /\ Set(p, Closing(proc[p])) /\ UNCHANGED endpoint
  \/ /\ Life(p) \in {"locking", "initializing"} /\ ~proc[p].closeAsked
     /\ Set(p, [proc[p] EXCEPT !.closeAsked = TRUE]) /\ UNCHANGED endpoint

Awaited(p, stage) == Life(p) = "closing" /\ proc[p].stage = stage

\* What a stage waits for is over.
StageOver(p, stage) ==
  CASE stage = "requests" -> ~Busy(p, "request")
    [] stage = "adapters" -> ~Busy(p, "runtime") /\ (proc[p].stopping => ~Busy(p, "exit"))
    [] stage = "syncs" -> ~Busy(p, "sync")
    [] stage = "transitions" -> ~Busy(p, "transition") /\ ~Busy(p, "translation")
    [] stage = "stops" -> ~Busy(p, "stop")
    [] stage = "tails" -> proc[p].writer = "none"
    [] OTHER -> TRUE

Passes(p, stage) == Awaited(p, stage) /\ StageOver(p, stage)

GoesTo(p, stage) == Set(p, [proc[p] EXCEPT !.stage = stage]) /\ UNCHANGED endpoint

\* HttpRequestBarrier.drain.  The runtimes that are attached now are stopped.
RequestsDrained(p) ==
  /\ Passes(p, "requests")
  /\ Set(p, [proc[p] EXCEPT !.stage = "adapters", !.stopping = Busy(p, "runtime")])
  /\ UNCHANGED endpoint

\* stopCaptionRuntime of a runtime that is still attached, which also awaits its exit.
MayStop(p) == Awaited(p, "adapters") /\ Busy(p, "runtime") /\ proc[p].writer # "runtime"

RuntimeStopped(p) == MayStop(p) /\ Set(p, Becomes(p, "runtime", {})) /\ UNCHANGED endpoint

AdaptersStopped(p) ==
  /\ Passes(p, "adapters")
  /\ Set(p, [proc[p] EXCEPT !.stage = "syncs", !.stopping = FALSE]) /\ UNCHANGED endpoint

SyncsSettled(p) == Passes(p, "syncs") /\ GoesTo(p, "transitions")

\* captureTransitionTails, and the translation pools.
TransitionsSettled(p) == Passes(p, "transitions") /\ GoesTo(p, "stops")

StopsForgotten(p) == Awaited(p, "stops") /\ GoesTo(p, "tails")

StopsDrained(p) == Passes(p, "stops") /\ GoesTo(p, "tails")

TailsSettled(p) == Passes(p, "tails") /\ GoesTo(p, "release")

Released(p) == Passes(p, "release") /\ Unlocked(p)

LifecycleTypeOK ==
  /\ endpoint \in Process \cup {NoProcess}
  /\ \A p \in Process :
       /\ proc[p].life \in {"new", "locking", "initializing", "ready", "closing", "closed", "dead"}
       /\ proc[p].stage \in {"none", "requests", "adapters", "syncs", "transitions", "stops",
                             "tails", "release"}
       /\ proc[p].work \subseteq WorkKind /\ proc[p].writer \in WorkKind \cup {"none"}

=============================================================================
