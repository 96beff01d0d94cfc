--------------------------- MODULE Service_proofs ---------------------------
(***************************************************************************)
(* What Service keeps for any number of processes, publications, pages and *)
(* runs of the tools.                                                      *)
(*                                                                         *)
(* The lock comes first: a process is orderly when what it still does fits *)
(* the stage its close has reached, and only one process at a time is      *)
(* between taking the root and giving it up.  Because of it the ledger of  *)
(* the publications has one writer, a migration meets no service, and a    *)
(* backup knows whether the root was quiet.  What a page holds depends on  *)
(* no lock: nothing on its way to the page names an event not yet stored.  *)
(***************************************************************************)
EXTENDS Service, TLAPS, FiniteSetTheorems

Stages == {"none", "requests", "adapters", "syncs", "transitions", "stops", "tails", "release"}

ProcRecord ==
  [life : {"new", "locking", "initializing", "ready", "closing", "closed", "dead"},
   closeAsked : BOOLEAN, stage : Stages, work : SUBSET WorkKind,
   writer : WorkKind \cup {"none"}, stopping : BOOLEAN]

Typed == endpoint \in Process \cup {NoProcess} /\ proc \in [Process -> ProcRecord]

\* Nobody waits for the handler of an exit, and the timer writes nothing.
Untracked == {"exit", "timer"}

\* What a process still does fits the stage it has reached.
Orderly(r) ==
  /\ r.life \in {"new", "locking", "initializing", "dead"} => r.work = {} /\ r.writer = "none"
  /\ r.life = "closed" => r.work \subseteq Untracked /\ r.writer \in {"none", "exit"}
  /\ r.life = "closing" =>
       /\ r.stage # "none"
       /\ r.stage # "requests" => "request" \notin r.work
       /\ r.stage \notin {"requests", "adapters"} => "runtime" \notin r.work
       /\ r.stage \notin {"requests", "adapters", "syncs"} => "sync" \notin r.work
       /\ r.stage \in {"stops", "tails", "release"} => {"transition", "translation"} \cap r.work = {}
       /\ r.stage \in {"tails", "release"} => "stop" \notin r.work
       /\ r.stage = "release" => r.writer \in {"none", "exit"}

Owning == {"initializing", "ready", "closing"}

OwnersHold == \A p \in Process : Life(p) \in Owning => endpoint = p

LockInv == Typed /\ (\A p \in Process : Orderly(proc[p])) /\ OwnersHold

-----------------------------------------------------------------------------
(* The life of a process.                                                  *)

\* Initially nobody owns the root and nothing is going on.
LEMMA ProcessesInit == Init => LockInv
  BY DEF Init, LifecycleInit, LockInv, Typed, Orderly, OwnersHold, Life, Owning, NewProcess, ProcRecord,
         Stages, WorkKind

\* A step of one process keeps the invariant if its new record does, and the lock too.
LEMMA ProcessStep ==
  ASSUME LockInv, NEW p \in Process, NEW r \in ProcRecord, Set(p, r), Orderly(r),
         endpoint' \in Process \cup {NoProcess},
         r.life \in Owning => endpoint' = p,
         \A q \in Process \ {p} : endpoint = q => endpoint' = q
  PROVE  LockInv'
<1>1. proc' = [proc EXCEPT ![p] = r] /\ proc \in [Process -> ProcRecord]
  BY DEF Set, LockInv, Typed
<1>2. proc'[p] = r /\ \A q \in Process \ {p} : proc'[q] = proc[q]
  BY <1>1
<1>3. Typed'
  BY <1>1 DEF Typed
<1>4. \A q \in Process : Orderly(proc'[q])
  BY <1>2 DEF LockInv
<1>5. OwnersHold'
  BY <1>2 DEF LockInv, OwnersHold, Life
<1> QED
  BY <1>3, <1>4, <1>5 DEF LockInv

\* The same for a step that leaves the lock alone.
LEMMA HolderStep ==
  ASSUME LockInv, NEW p \in Process, NEW r \in ProcRecord, Set(p, r), Orderly(r),
         UNCHANGED endpoint, r.life \in Owning => Life(p) \in Owning
  PROVE  LockInv'
<1>1. endpoint \in Process \cup {NoProcess} /\ (Life(p) \in Owning => endpoint = p)
  BY DEF LockInv, Typed, OwnersHold
<1> QED
  BY <1>1, ProcessStep

\* What the invariant says of one process.
LEMMA RecordOf ==
  ASSUME LockInv, NEW p \in Process
  PROVE  /\ proc[p] \in ProcRecord /\ Orderly(proc[p])
         /\ Life(p) = proc[p].life
  BY DEF LockInv, Typed, Life

\* What changes the work of a process.
WorkStep(p) ==
  \/ RequestArrives(p) \/ RequestAttaches(p) \/ RequestDetaches(p) \/ RuntimeTransition(p)
  \/ RuntimeFailure(p) \/ RuntimeExit(p) \/ TranslationAnswered(p) \/ SyncStarts(p)
  \/ ExitRecorded(p) \/ WriteEnds(p) \/ RuntimeStopped(p)
  \/ \E k \in MayWrite : WriteBegins(p, k)
  \/ \E k \in WorkKind : WorkEnds(p, k)

\* What begins and ends while a process serves fits the stage of its close.
LEMMA WorkKeepsLock ==
  ASSUME LockInv, NEW p \in Process, WorkStep(p)
  PROVE  LockInv'
<1> DEFINE R == proc[p]
<1>0. R \in ProcRecord /\ Orderly(R) /\ Life(p) = R.life
  BY RecordOf
<1>1. CASE RequestArrives(p)
  <2> DEFINE r == [R EXCEPT !.work = @ \cup {"request"}]
  <2>1. Set(p, r) /\ UNCHANGED endpoint /\ R.life = "ready"
    BY <1>0, <1>1 DEF RequestArrives, Begins
  <2>2. r \in ProcRecord /\ Orderly(r) /\ r.life = R.life
    BY <1>0, <2>1 DEF ProcRecord, Orderly, WorkKind, Untracked
  <2> QED
    BY <1>0, <2>1, <2>2, HolderStep
<1>2. CASE RequestAttaches(p)
  <2> DEFINE r == [R EXCEPT !.work = @ \cup {"runtime"}]
  <2>1. Set(p, r) /\ UNCHANGED endpoint /\ "request" \in R.work
    BY <1>0, <1>2 DEF RequestAttaches, Begins, Busy
  <2>2. r \in ProcRecord /\ Orderly(r) /\ r.life = R.life
    BY <1>0, <2>1 DEF ProcRecord, Orderly, WorkKind, Untracked
  <2> QED
    BY <1>0, <2>1, <2>2, HolderStep
<1>3. CASE RequestDetaches(p)
  <2> DEFINE r == [R EXCEPT !.work = (@ \ {"runtime"}) \cup {}]
  <2>1. Set(p, r) /\ UNCHANGED endpoint
    BY <1>0, <1>3 DEF RequestDetaches, Becomes
  <2>2. r \in ProcRecord /\ Orderly(r) /\ r.life = R.life
    BY <1>0, <2>1 DEF ProcRecord, Orderly, WorkKind, Untracked
  <2> QED
    BY <1>0, <2>1, <2>2, HolderStep
<1>4. CASE RuntimeTransition(p)
  <2> DEFINE r == [R EXCEPT !.work = @ \cup {"transition"}]
  <2>1. Set(p, r) /\ UNCHANGED endpoint /\ "runtime" \in R.work
    BY <1>0, <1>4 DEF RuntimeTransition, Begins, Busy
  <2>2. r \in ProcRecord /\ Orderly(r) /\ r.life = R.life
    BY <1>0, <2>1 DEF ProcRecord, Orderly, WorkKind, Untracked, Stages
  <2> QED
    BY <1>0, <2>1, <2>2, HolderStep
<1>5. CASE RuntimeFailure(p)
  <2> DEFINE r == [R EXCEPT !.work = (@ \ {"runtime"}) \cup {"stop"}]
  <2>1. Set(p, r) /\ UNCHANGED endpoint /\ R.life = "ready"
    BY <1>0, <1>5 DEF RuntimeFailure, Becomes
  <2>2. r \in ProcRecord /\ Orderly(r) /\ r.life = R.life
    BY <1>0, <2>1 DEF ProcRecord, Orderly, WorkKind, Untracked
  <2> QED
    BY <1>0, <2>1, <2>2, HolderStep
<1>6. CASE RuntimeExit(p)
  <2> DEFINE r == [R EXCEPT !.work = (@ \ {"runtime"}) \cup {"exit"}]
  <2>1. Set(p, r) /\ UNCHANGED endpoint /\ "runtime" \in R.work
    BY <1>0, <1>6 DEF RuntimeExit, Becomes, Busy
  <2>2. r \in ProcRecord /\ Orderly(r) /\ r.life = R.life
    BY <1>0, <2>1 DEF ProcRecord, Orderly, WorkKind, Untracked
  <2> QED
    BY <1>0, <2>1, <2>2, HolderStep
<1>7. CASE TranslationAnswered(p)
  <2> DEFINE r == [R EXCEPT !.work = @ \cup {"translation"}]
  <2>1. Set(p, r) /\ UNCHANGED endpoint /\ R.life = "ready"
    BY <1>0, <1>7 DEF TranslationAnswered, Begins
  <2>2. r \in ProcRecord /\ Orderly(r) /\ r.life = R.life
    BY <1>0, <2>1 DEF ProcRecord, Orderly, WorkKind, Untracked
  <2> QED
    BY <1>0, <2>1, <2>2, HolderStep
<1>8. CASE SyncStarts(p)
  <2> DEFINE r == [R EXCEPT !.work = (@ \ {"timer"}) \cup {"sync"}]
  <2>1. Set(p, r) /\ UNCHANGED endpoint /\ R.life = "ready"
    BY <1>0, <1>8 DEF SyncStarts, Becomes
  <2>2. r \in ProcRecord /\ Orderly(r) /\ r.life = R.life
    BY <1>0, <2>1 DEF ProcRecord, Orderly, WorkKind, Untracked
  <2> QED
    BY <1>0, <2>1, <2>2, HolderStep
<1>9. CASE ExitRecorded(p)
  <2> DEFINE r == [R EXCEPT !.work = (@ \ {"exit"}) \cup IF R.life = "ready" THEN {"transition"} ELSE {}]
  <2>1. Set(p, r) /\ UNCHANGED endpoint
    BY <1>0, <1>9 DEF ExitRecorded, Becomes
  <2>2. r \in ProcRecord /\ Orderly(r) /\ r.life = R.life
    BY <1>0, <2>1 DEF ProcRecord, Orderly, WorkKind, Untracked
  <2> QED
    BY <1>0, <2>1, <2>2, HolderStep
<1>10. CASE WriteEnds(p)
  <2> DEFINE r == [R EXCEPT !.writer = "none",
                            !.work = IF R.life = "ready" THEN @ \cup {"timer"} ELSE @]
  <2>1. Set(p, r) /\ UNCHANGED endpoint
    BY <1>0, <1>10 DEF WriteEnds
  <2>2. r \in ProcRecord /\ Orderly(r) /\ r.life = R.life
    BY <1>0, <2>1 DEF ProcRecord, Orderly, WorkKind, Untracked
  <2> QED
    BY <1>0, <2>1, <2>2, HolderStep
<1>11. CASE RuntimeStopped(p)
  <2> DEFINE r == [R EXCEPT !.work = (@ \ {"runtime"}) \cup {}]
  <2>1. Set(p, r) /\ UNCHANGED endpoint
    BY <1>0, <1>11 DEF RuntimeStopped, Becomes
  <2>2. r \in ProcRecord /\ Orderly(r) /\ r.life = R.life
    BY <1>0, <2>1 DEF ProcRecord, Orderly, WorkKind, Untracked
  <2> QED
    BY <1>0, <2>1, <2>2, HolderStep
<1>12. CASE \E k \in MayWrite : WriteBegins(p, k)
  <2> PICK k \in MayWrite : WriteBegins(p, k)
    BY <1>12
  <2> DEFINE r == [R EXCEPT !.writer = k]
  <2>1. Set(p, r) /\ UNCHANGED endpoint /\ k \in R.work
    BY <1>0 DEF WriteBegins, Busy
  <2>2. r \in ProcRecord /\ Orderly(r) /\ r.life = R.life
    BY <1>0, <2>1 DEF ProcRecord, Orderly, WorkKind, Untracked, MayWrite
  <2> QED
    BY <1>0, <2>1, <2>2, HolderStep
<1>13. CASE \E k \in WorkKind : WorkEnds(p, k)
  <2> PICK k \in WorkKind : WorkEnds(p, k)
    BY <1>13
  <2> DEFINE r == [R EXCEPT !.work = (@ \ {k}) \cup {}]
  <2>1. Set(p, r) /\ UNCHANGED endpoint
    BY <1>0 DEF WorkEnds, Becomes
  <2>2. r \in ProcRecord /\ Orderly(r) /\ r.life = R.life
    BY <1>0, <2>1 DEF ProcRecord, Orderly, WorkKind, Untracked
  <2> QED
    BY <1>0, <2>1, <2>2, HolderStep
<1> QED
  BY <1>1, <1>2, <1>3, <1>4, <1>5, <1>6, <1>7, <1>8, <1>9, <1>10, <1>11, <1>12, <1>13 DEF WorkStep

\* What a close goes through, and what changes no lock.
CloseStep(p) ==
  \/ StartProcess(p) \/ LockRefused(p) \/ Close(p) \/ RequestsDrained(p) \/ AdaptersStopped(p)
  \/ SyncsSettled(p) \/ TransitionsSettled(p) \/ StopsDrained(p) \/ TailsSettled(p)

\* Each stage of a close is left when the work it waits for is over.
LEMMA CloseKeepsLock ==
  ASSUME LockInv, NEW p \in Process, CloseStep(p)
  PROVE  LockInv'
<1> DEFINE R == proc[p]
<1>0. R \in ProcRecord /\ Orderly(R) /\ Life(p) = R.life
  BY RecordOf
<1>1. CASE StartProcess(p)
  <2> DEFINE r == [R EXCEPT !.life = "locking"]
  <2>1. Set(p, r) /\ UNCHANGED endpoint /\ R.life = "new"
    BY <1>0, <1>1 DEF StartProcess
  <2>2. r \in ProcRecord /\ Orderly(r) /\ (r.life \in Owning => Life(p) \in Owning)
    BY <1>0, <2>1 DEF ProcRecord, Orderly, WorkKind, Untracked, Stages, Owning
  <2> QED
    BY <1>0, <2>1, <2>2, HolderStep
<1>2. CASE LockRefused(p)
  <2> DEFINE r == [R EXCEPT !.life = "closed"]
  <2>1. Set(p, r) /\ UNCHANGED endpoint /\ R.life = "locking"
    BY <1>0, <1>2 DEF LockRefused
  <2>2. r \in ProcRecord /\ Orderly(r) /\ (r.life \in Owning => Life(p) \in Owning)
    BY <1>0, <2>1 DEF ProcRecord, Orderly, WorkKind, Untracked, Stages, Owning
  <2> QED
    BY <1>0, <2>1, <2>2, HolderStep
<1>3. CASE Close(p)
  <2>1. CASE R.life = "ready" /\ Set(p, Closing(R)) /\ UNCHANGED endpoint
    <3> DEFINE r == Closing(R)
    <3>1. r \in ProcRecord /\ Orderly(r) /\ r.life = "closing"
      BY <1>0, <2>1 DEF ProcRecord, Orderly, WorkKind, Untracked, Stages, Closing
    <3> QED
      BY <1>0, <2>1, <3>1, HolderStep DEF Owning
  <2>2. CASE R.life \in {"locking", "initializing"} /\ Set(p, [R EXCEPT !.closeAsked = TRUE]) /\ UNCHANGED endpoint
    <3> DEFINE r == [R EXCEPT !.closeAsked = TRUE]
    <3>1. r \in ProcRecord /\ Orderly(r) /\ r.life = R.life
      BY <1>0, <2>2 DEF ProcRecord, Orderly
    <3> QED
      BY <1>0, <2>2, <3>1, HolderStep
  <2> QED
    BY <1>0, <1>3, <2>1, <2>2 DEF Close
<1>4. CASE RequestsDrained(p)
  <2> DEFINE stops == "runtime" \in R.work
             r == [R EXCEPT !.stage = "adapters", !.stopping = stops]
  <2>1. Set(p, r) /\ UNCHANGED endpoint /\ R.life = "closing" /\ "request" \notin R.work
    BY <1>0, <1>4 DEF RequestsDrained, Passes, StageOver, Awaited, Busy
  <2>2. stops \in BOOLEAN
    OBVIOUS
  <2> HIDE DEF stops
  <2>3. r \in ProcRecord /\ Orderly(r) /\ (r.life \in Owning => Life(p) \in Owning)
    BY <1>0, <2>1, <2>2 DEF ProcRecord, Orderly, Stages, Owning
  <2> QED
    BY <1>0, <2>1, <2>3, HolderStep
<1>5. CASE AdaptersStopped(p)
  <2> DEFINE r == [R EXCEPT !.stage = "syncs", !.stopping = FALSE]
  <2>1. Set(p, r) /\ UNCHANGED endpoint /\ R.life = "closing" /\ R.stage = "adapters" /\ "runtime" \notin R.work
    BY <1>0, <1>5 DEF AdaptersStopped, Passes, StageOver, Awaited, Busy
  <2>2. r \in ProcRecord /\ Orderly(r) /\ (r.life \in Owning => Life(p) \in Owning)
    BY <1>0, <2>1 DEF ProcRecord, Orderly, WorkKind, Untracked, Stages, Owning
  <2> QED
    BY <1>0, <2>1, <2>2, HolderStep
<1>6. CASE SyncsSettled(p)
  <2> DEFINE r == [R EXCEPT !.stage = "transitions"]
  <2>1. Set(p, r) /\ UNCHANGED endpoint /\ R.life = "closing" /\ R.stage = "syncs" /\ "sync" \notin R.work
    BY <1>0, <1>6 DEF SyncsSettled, Passes, StageOver, Awaited, Busy, GoesTo
  <2>2. r \in ProcRecord /\ Orderly(r) /\ (r.life \in Owning => Life(p) \in Owning)
    BY <1>0, <2>1 DEF ProcRecord, Orderly, WorkKind, Untracked, Stages, Owning
  <2> QED
    BY <1>0, <2>1, <2>2, HolderStep
<1>7. CASE TransitionsSettled(p)
  <2> DEFINE r == [R EXCEPT !.stage = "stops"]
  <2>1. Set(p, r) /\ UNCHANGED endpoint /\ R.life = "closing" /\ R.stage = "transitions" /\ "transition" \notin R.work /\ "translation" \notin R.work
    BY <1>0, <1>7 DEF TransitionsSettled, Passes, StageOver, Awaited, Busy, GoesTo
  <2>2. r \in ProcRecord /\ Orderly(r) /\ (r.life \in Owning => Life(p) \in Owning)
    BY <1>0, <2>1 DEF ProcRecord, Orderly, WorkKind, Untracked, Stages, Owning
  <2> QED
    BY <1>0, <2>1, <2>2, HolderStep
<1>8. CASE StopsDrained(p)
  <2> DEFINE r == [R EXCEPT !.stage = "tails"]
  <2>1. Set(p, r) /\ UNCHANGED endpoint /\ R.life = "closing" /\ R.stage = "stops" /\ "stop" \notin R.work
    BY <1>0, <1>8 DEF StopsDrained, Passes, StageOver, Awaited, Busy, GoesTo
  <2>2. r \in ProcRecord /\ Orderly(r) /\ (r.life \in Owning => Life(p) \in Owning)
    BY <1>0, <2>1 DEF ProcRecord, Orderly, WorkKind, Untracked, Stages, Owning
  <2> QED
    BY <1>0, <2>1, <2>2, HolderStep
<1>9. CASE TailsSettled(p)
  <2> DEFINE r == [R EXCEPT !.stage = "release"]
  <2>1. Set(p, r) /\ UNCHANGED endpoint /\ R.life = "closing" /\ R.stage = "tails" /\ R.writer = "none"
    BY <1>0, <1>9 DEF TailsSettled, Passes, StageOver, Awaited, Busy, GoesTo
  <2>2. r \in ProcRecord /\ Orderly(r) /\ (r.life \in Owning => Life(p) \in Owning)
    BY <1>0, <2>1 DEF ProcRecord, Orderly, WorkKind, Untracked, Stages, Owning
  <2> QED
    BY <1>0, <2>1, <2>2, HolderStep
<1> QED
  BY <1>1, <1>2, <1>3, <1>4, <1>5, <1>6, <1>7, <1>8, <1>9 DEF CloseStep

\* What takes the lock or gives it up.
LockStep(p) == LockAcquired(p) \/ InitFails(p) \/ InitSucceeds(p) \/ Crash(p) \/ Released(p)

\* The lock is taken by one process at a time and given up with its last write.
LEMMA LockStepKeepsLock ==
  ASSUME LockInv, NEW p \in Process, LockStep(p)
  PROVE  LockInv'
<1> DEFINE R == proc[p]
<1>0. R \in ProcRecord /\ Orderly(R) /\ Life(p) = R.life /\ endpoint \in Process \cup {NoProcess}
      /\ NoProcess \notin Process /\ (R.life \in Owning => endpoint = p)
  BY RecordOf, ProcessAssumption DEF LockInv, Typed, OwnersHold
<1>1. CASE LockAcquired(p)
  <2> DEFINE r == [R EXCEPT !.life = "initializing"]
  <2>1. Set(p, r) /\ endpoint = NoProcess /\ endpoint' = p /\ R.life = "locking"
    BY <1>0, <1>1 DEF LockAcquired
  <2>2. r \in ProcRecord /\ Orderly(r)
    BY <1>0, <2>1 DEF ProcRecord, Orderly
  <2> QED
    BY <1>0, <2>1, <2>2, ProcessStep
<1>2. ASSUME NEW r \in ProcRecord, Set(p, r), Orderly(r), r.life \notin Owning,
             endpoint' = IF endpoint = p THEN NoProcess ELSE endpoint
      PROVE  LockInv'
  BY <1>0, <1>2, ProcessStep
<1>3. CASE Unlocked(p) /\ (R.life = "initializing" \/ (R.life = "closing" /\ R.stage = "release"))
  <2> DEFINE r == [R EXCEPT !.life = "closed", !.stage = "none"]
  <2>1. r \in ProcRecord /\ Orderly(r) /\ r.life \notin Owning
    BY <1>0, <1>3 DEF ProcRecord, Orderly, Stages, Untracked, WorkKind, Owning
  <2> QED
    BY <1>2, <1>3, <2>1 DEF Unlocked
<1>4. CASE Crash(p)
  <2> DEFINE r == [NewProcess EXCEPT !.life = "dead"]
  <2>1. r \in ProcRecord /\ Orderly(r) /\ r.life \notin Owning
    BY DEF ProcRecord, Orderly, NewProcess, Stages, Owning
  <2> QED
    BY <1>2, <1>4, <2>1 DEF Crash
<1>5. CASE InitSucceeds(p)
  <2> PICK recovered \in SUBSET {"runtime"} :
        LET r == [R EXCEPT !.life = "ready", !.work = recovered \cup {"timer"}]
        IN Set(p, IF r.closeAsked THEN Closing(r) ELSE r)
    BY <1>5 DEF InitSucceeds
  <2> DEFINE s == [R EXCEPT !.life = "ready", !.work = recovered \cup {"timer"}]
             r == IF s.closeAsked THEN Closing(s) ELSE s
  <2>1. Set(p, r) /\ UNCHANGED endpoint /\ R.life = "initializing"
    BY <1>0, <1>5 DEF InitSucceeds
  <2>2. s \in ProcRecord /\ Orderly(s)
    BY <1>0 DEF ProcRecord, WorkKind, Orderly
  <2> HIDE DEF s
  <2> DEFINE c == Closing(s)
  <2>3. c \in ProcRecord /\ c.life = "closing" /\ c.stage = "requests"
    BY <2>2 DEF ProcRecord, Stages, Closing
  <2>3a. Orderly(c)
    BY <2>3 DEF Orderly
  <2>4. r \in ProcRecord /\ Orderly(r)
    BY <2>2, <2>3, <2>3a
  <2> QED
    BY <1>0, <2>1, <2>4, HolderStep DEF Owning
<1> QED
  BY <1>0, <1>1, <1>3, <1>4, <1>5 DEF LockStep, InitFails, Released, Passes, Awaited

\* The invariant of the lock is inductive.
LEMMA LockStepOrNone ==
  ASSUME LockInv, [Next]_vars
  PROVE  LockInv'
<1>0. ASSUME UNCHANGED lifecycleVars PROVE LockInv'
  BY <1>0 DEF LockInv, Typed, OwnersHold, Life, lifecycleVars
<1>1. CASE UNCHANGED vars
  BY <1>0, <1>1 DEF vars
<1>2. ASSUME NEW p \in Process, LifeStep(p) PROVE LockInv'
  <2>1. CloseStep(p) \/ LockStep(p)
    BY <1>2 DEF LifeStep, Starts, Locks, Ready, Dies, Drained, Settles, Closed, CloseStep, LockStep
  <2> QED
    BY <2>1, CloseKeepsLock, LockStepKeepsLock
<1>3. ASSUME NEW p \in Process, Capture(p) PROVE LockInv'
  <2>1. WorkStep(p)
    BY <1>3 DEF Capture, CaptureBegins, Recorded, Written, Stopped, Finishes, WorkStep
  <2> QED
    BY <2>1, WorkKeepsLock
<1>4. ASSUME NEW p \in Process,
             MemosRequest(p) \/ MemosAnswer(p) \/ Feeds(p) \/ Broadcasts(p) \/ Connects(p)
               \/ Answers(p) \/ Appends(p)
      PROVE  LockInv'
  BY <1>0, <1>4 DEF MemosRequest, MemosAnswer, Feeds, Broadcasts, Connects, Answers, Appends, LiveStep, ToolStep
<1>5. CASE Receives \/ Applies \/ Drops \/ Disconnects \/ Operates
  BY <1>0, <1>5 DEF Receives, Applies, Drops, Disconnects, Operates, LiveStep, ToolStep
<1> QED
  BY <1>1, <1>2, <1>3, <1>4, <1>5 DEF Next

-----------------------------------------------------------------------------
(* Publications: the attempts.                                             *)

Made == {"memo", "wire", "record", "recording", "writing", "published", "unrecorded"}

AttemptRecord ==
  [at : Made \cup {"unused", "limit", "audio", "files", "rollback", "failed", "lost"},
   session : Session \cup {None}, to : Server \cup {None}, by : Process \cup {None},
   limit : Server \cup {None}, parts : Nat, created : SUBSET Nat,
   memo : BOOLEAN, expired : BOOLEAN, refused : BOOLEAN, clean : BOOLEAN]

Attempts == publish \in [Attempt -> AttemptRecord]

\* What an attempt has created is on the instance, or the attempt says that it is not.
Stands(a, r, inst) ==
  /\ r.at \in {"unused", "limit", "audio", "lost"} => r.created = {} /\ ~r.memo
  /\ r.at = "limit" => r.to \in Server
  /\ r.at = "audio" => r.limit \in Server
  /\ r.at = "files" => \E n \in Nat : n < r.parts /\ r.created = 1 .. n
  /\ r.at \in Made => r.created = 1 .. r.parts
  /\ r.at \in Made \cup {"files"} => \A n \in r.created : <<a, n>> \in inst.files
  /\ r.at \in Made \ {"memo"} => a \in inst.memos
  /\ r.at = "failed" /\ r.clean =>
       ~(r.memo /\ a \in inst.memos) /\ \A n \in r.created : <<a, n>> \notin inst.files
  /\ r.at \notin Ended => r.session \in Session

\* What belongs to another attempt stays as it is.
OthersKept(a) ==
  \A b \in Attempt \ {a} : /\ b \in instance'.memos <=> b \in instance.memos
                           /\ \A n : <<b, n>> \in instance'.files <=> <<b, n>> \in instance.files

InstanceTyped ==
  instance \in [memos : SUBSET Attempt, files : SUBSET (Attempt \X Nat)]

\* A step of an attempt.
Turns(a, r) ==
  /\ publish' = [publish EXCEPT ![a] = r] /\ r \in AttemptRecord /\ Stands(a, r, instance')
  /\ OthersKept(a) /\ r.session = publish[a].session
  /\ publish[a].at \notin Ended /\ (r.at \notin Ended => r.by = publish[a].by)
  /\ InstanceTyped'

AttemptsInv ==
  /\ Attempts /\ InstanceTyped /\ memory.limit \in Server \cup {None}
  /\ \A a \in Attempt : Stands(a, publish[a], instance)

\* An attempt that is over keeps what it has created.
LEMMA OverRecord ==
  ASSUME Attempts, NEW a \in Attempt, NEW at \in {"failed", "published", "unrecorded"}
  PROVE  /\ Over(a, at) \in AttemptRecord /\ Over(a, at).at = at
         /\ Over(a, at).session = publish[a].session /\ Over(a, at).created = publish[a].created
         /\ Over(a, at).memo = publish[a].memo /\ Over(a, at).parts = publish[a].parts
         /\ Over(a, at).clean = publish[a].clean
<1> DEFINE q == publish[a]
           r == [q EXCEPT !.at = at, !.to = None, !.by = None, !.limit = None, !.expired = FALSE]
<1>1. q \in AttemptRecord
  BY DEF Attempts
<1>2. Over(a, at) = r
  BY DEF Over
<1> HIDE DEF q
<1>3. r \in AttemptRecord
  BY <1>1 DEF AttemptRecord, Made
<1>4. r.at = at /\ r.session = q.session /\ r.created = q.created
  BY <1>1 DEF AttemptRecord
<1>5. r.memo = q.memo /\ r.parts = q.parts /\ r.clean = q.clean
  BY <1>1 DEF AttemptRecord
<1> QED
  BY <1>2, <1>3, <1>4, <1>5 DEF q

\* An attempt whose instance is left alone.
LEMMA QuietTurn ==
  ASSUME AttemptsInv, NEW a \in Attempt, NEW r \in AttemptRecord,
         publish' = [publish EXCEPT ![a] = r], UNCHANGED instance, Stands(a, r, instance),
         r.session = publish[a].session, publish[a].at \notin Ended,
         r.at \notin Ended => r.by = publish[a].by
  PROVE  Turns(a, r)
  BY DEF Turns, OthersKept, AttemptsInv, InstanceTyped

LEMMA FailedTurn ==
  ASSUME AttemptsInv, NEW a \in Attempt, NEW closing \in BOOLEAN, Failed(a, closing),
         UNCHANGED instance, publish[a].at \in {"files", "memo", "wire"}
  PROVE  \E r : Turns(a, r)
<1> DEFINE R == publish[a]
<1>1. PICK expired \in {R.expired \/ closing, TRUE} :
        publish' = [publish EXCEPT ![a] = [R EXCEPT !.at = "rollback", !.expired = expired]]
  BY DEF Failed, Put
<1>2. R \in AttemptRecord /\ Stands(a, R, instance) /\ R.at \notin Ended
  BY DEF AttemptsInv, Attempts, Ended
<1>3. expired \in BOOLEAN
  OBVIOUS
<1> DEFINE r == [R EXCEPT !.at = "rollback", !.expired = expired]
<1>4. r \in AttemptRecord /\ r.session = R.session /\ r.by = R.by /\ r.at = "rollback"
  BY <1>2, <1>3 DEF AttemptRecord
<1>5. Stands(a, r, instance)
  BY <1>2, <1>4 DEF Stands, Made, Ended
<1> QED
  BY <1>1, <1>2, <1>4, <1>5, QuietTurn

\* Every step of a publication is a turn of its attempt.
LEMMA AttemptTurns ==
  ASSUME AttemptsInv, NEW a \in Attempt, NEW closing \in BOOLEAN, PublishStep(a, closing)
  PROVE  \E r : Turns(a, r)
<1> DEFINE R == publish[a]
<1>0. R \in AttemptRecord /\ Stands(a, R, instance) /\ Attempts /\ InstanceTyped
  BY DEF AttemptsInv, Attempts
<1>1. CASE LimitKnown(a)
  <2> DEFINE known == IF memory.limit # None THEN memory.limit ELSE R.to
             r == [R EXCEPT !.at = "audio", !.limit = known]
  <2>1. R.at = "limit" /\ publish' = [publish EXCEPT ![a] = r] /\ UNCHANGED instance
    BY <1>1 DEF LimitKnown, At, Put
  <2>2. known \in Server
    BY <1>0, <2>1 DEF AttemptsInv, Stands
  <2> HIDE DEF known
  <2>3. r \in AttemptRecord /\ r.session = R.session /\ r.by = R.by
    BY <1>0, <2>2 DEF AttemptRecord
  <2>4. Stands(a, r, instance) /\ R.at \notin Ended
    BY <1>0, <2>1, <2>2 DEF AttemptRecord, Stands, Made, Ended
  <2> QED
    BY <2>1, <2>3, <2>4, QuietTurn
<1>2. CASE FilesBuilt(a)
  <2> DEFINE parts == PartsUnder[R.limit]
             r == [R EXCEPT !.at = "files", !.parts = parts]
  <2>1. R.at = "audio" /\ publish' = [publish EXCEPT ![a] = r] /\ UNCHANGED instance
    BY <1>2 DEF FilesBuilt, At, Put
  <2>2. parts \in Nat \ {0}
    BY <1>0, <2>1, MemosAssumption DEF Stands
  <2> HIDE DEF parts
  <2>3. r \in AttemptRecord /\ r.session = R.session /\ r.by = R.by /\ r.at = "files" /\ r.parts = parts
        /\ r.created = R.created
    BY <1>0, <2>2 DEF AttemptRecord
  <2>4. R.created = {} /\ R.at \notin Ended /\ R.session \in Session
    BY <1>0, <2>1 DEF Stands, Ended
  <2>5. \E n \in Nat : n < r.parts /\ r.created = 1 .. n
    <3>1. 0 < r.parts /\ r.created = 1 .. 0
      BY <2>2, <2>3, <2>4
    <3> QED
      BY <3>1
  <2>6. Stands(a, r, instance)
    BY <2>3, <2>4, <2>5 DEF Stands, Made
  <2> QED
    BY <2>1, <2>3, <2>4, <2>6, QuietTurn
<1>3. CASE PreparationFails(a)
  <2> DEFINE r == Over(a, "failed")
  <2>1. R.at \in {"limit", "audio"} /\ publish' = [publish EXCEPT ![a] = r] /\ UNCHANGED instance
    BY <1>3 DEF PreparationFails, Fails, Ends, At, Put
  <2>2. r \in AttemptRecord /\ r.at = "failed" /\ r.session = R.session /\ r.created = R.created /\ r.memo = R.memo
    BY <1>0, OverRecord
  <2>3. Stands(a, r, instance) /\ R.at \notin Ended /\ r.at \in Ended
    BY <1>0, <2>1, <2>2 DEF Stands, Made, Ended
  <2> QED
    BY <2>1, <2>2, <2>3, QuietTurn
<1>4. CASE CreateFile(a, closing)
  <2> DEFINE part == Cardinality(R.created) + 1
             next == IF part = R.parts THEN "memo" ELSE "files"
             r == [R EXCEPT !.created = @ \cup {part}, !.at = next]
  <2>1. R.at = "files" /\ R.at \notin Ended
    BY <1>4 DEF CreateFile, At, Ended
  <2>2. CASE publish' = [publish EXCEPT ![a] = r]
             /\ instance' = [instance EXCEPT !.files = @ \cup {<<a, part>>}]
    <3>1. PICK n \in Nat : n < R.parts /\ R.created = 1 .. n
      BY <1>0, <2>1 DEF Stands
    <3>2. part = n + 1
      <4>1. Cardinality(1 .. n) = n
        BY FS_Interval
      <4> QED
        BY <3>1, <4>1
    <3> HIDE DEF part
    <3>3. next \in {"memo", "files"} /\ (next = "memo" <=> n + 1 = R.parts)
      BY <3>2
    <3> HIDE DEF next
    <3>4. r \in AttemptRecord /\ r.created = 1 .. (n + 1) /\ r.at = next /\ r.parts = R.parts
          /\ r.session = R.session /\ r.by = R.by
      <4>1. 1 .. (n + 1) = (1 .. n) \cup {n + 1}
        OBVIOUS
      <4>2. QED
        <5>1. R.created \cup {part} = 1 .. (n + 1) /\ 1 .. (n + 1) \subseteq Nat
          BY <3>1, <3>2, <4>1
        <5> QED
          BY <1>0, <3>3, <5>1 DEF AttemptRecord, Made
    <3>5. instance'.files = instance.files \cup {<<a, n + 1>>} /\ instance'.memos = instance.memos
      BY <1>0, <2>2, <3>2 DEF InstanceTyped
    <3>6. \A m \in r.created : <<a, m>> \in instance'.files
      BY <1>0, <2>1, <3>1, <3>4, <3>5 DEF Stands
    <3>7. R.parts \in Nat /\ R.session \in Session
      BY <1>0, <2>1 DEF AttemptRecord, Stands, Ended
    <3>8. r.at = "files" => n + 1 < r.parts
      BY <3>1, <3>3, <3>4, <3>7
    <3>9. Stands(a, r, instance')
      BY <3>3, <3>4, <3>6, <3>7, <3>8 DEF Stands, Made
    <3>10. OthersKept(a)
      BY <3>5 DEF OthersKept
    <3>11. InstanceTyped'
      BY <1>0, <2>2, <3>2 DEF InstanceTyped
    <3> QED
      BY <2>1, <2>2, <3>4, <3>9, <3>10, <3>11 DEF Turns
  <2>3. CASE Failed(a, closing) /\ UNCHANGED instance
    BY <2>1, <2>3, FailedTurn
  <2> QED
    BY <1>4, <2>2, <2>3 DEF CreateFile, Put
<1>5. CASE CreateMemo(a, closing)
  <2> DEFINE r == [R EXCEPT !.memo = TRUE, !.at = "wire"]
  <2>1. R.at = "memo" /\ R.at \notin Ended
    BY <1>5 DEF CreateMemo, At, Ended
  <2>2. CASE publish' = [publish EXCEPT ![a] = r] /\ instance' = [instance EXCEPT !.memos = @ \cup {a}]
    <3>1. r \in AttemptRecord /\ r.created = R.created /\ r.at = "wire" /\ r.parts = R.parts
          /\ r.session = R.session /\ r.by = R.by
      BY <1>0 DEF AttemptRecord, Made
    <3>2. instance'.files = instance.files /\ instance'.memos = instance.memos \cup {a}
      BY <1>0, <2>2 DEF InstanceTyped
    <3>3. Stands(a, r, instance')
      BY <1>0, <2>1, <3>1, <3>2 DEF Stands, Made, Ended
    <3>4. OthersKept(a)
      BY <3>2 DEF OthersKept
    <3>5. InstanceTyped'
      BY <1>0, <2>2 DEF InstanceTyped
    <3> QED
      BY <2>1, <2>2, <3>1, <3>3, <3>4, <3>5 DEF Turns
  <2>3. CASE Failed(a, closing) /\ UNCHANGED instance
    BY <2>1, <2>3, FailedTurn
  <2> QED
    BY <1>5, <2>2, <2>3 DEF CreateMemo, Put
<1>6. CASE SetAttachments(a, closing)
  <2> DEFINE r == [R EXCEPT !.at = "record"]
  <2>1. R.at = "wire" /\ R.at \notin Ended /\ UNCHANGED instance
    BY <1>6 DEF SetAttachments, At, Ended
  <2>2. CASE publish' = [publish EXCEPT ![a] = r]
    <3>1. r \in AttemptRecord /\ r.session = R.session /\ r.by = R.by
      BY <1>0 DEF AttemptRecord, Made
    <3>2. Stands(a, r, instance)
      BY <1>0, <2>1 DEF AttemptRecord, Stands, Made, Ended
    <3> QED
      BY <2>1, <2>2, <3>1, <3>2, QuietTurn
  <2>3. CASE Failed(a, closing)
    BY <2>1, <2>3, FailedTurn
  <2> QED
    BY <1>6, <2>2, <2>3 DEF SetAttachments, Put
<1>7. CASE RollsBack(a, closing)
  <2> DEFINE q == Over(a, "failed")
             memo == IF q.memo THEN {a} ELSE {}
  <2>1. R.at = "rollback" /\ R.at \notin Ended
    BY <1>7 DEF RollsBack, At, Ended
  <2>2. q \in AttemptRecord /\ q.at = "failed" /\ q.session = R.session /\ q.created = R.created
        /\ q.memo = R.memo /\ R.memo \in BOOLEAN /\ R.created \subseteq Nat
    BY <1>0, OverRecord DEF AttemptRecord
  <2>3. Mine(a) = {<<a, n>> : n \in q.created}
    BY <2>2 DEF Mine
  <2> HIDE DEF q
  <2>4. ASSUME NEW r \in AttemptRecord, r.at = "failed", r.session = q.session, r.created = q.created,
               r.memo = q.memo, publish' = [publish EXCEPT ![a] = r],
               r.clean => ~(r.memo /\ a \in instance'.memos)
                          /\ \A n \in r.created : <<a, n>> \notin instance'.files,
               OthersKept(a), InstanceTyped'
        PROVE  Turns(a, r)
    <3>1. Stands(a, r, instance')
      BY <2>4 DEF Stands, Made, Ended
    <3> QED
      BY <2>1, <2>2, <2>4, <3>1 DEF Turns, Ended
  <2>5. CASE UNCHANGED instance /\ Put(a, [q EXCEPT !.clean = memo = {} /\ Mine(a) = {}])
    <3> DEFINE clean == memo = {} /\ Mine(a) = {}
               r == [q EXCEPT !.clean = clean]
    <3>1. clean \in BOOLEAN /\ (clean => ~q.memo /\ q.created = {})
      BY <2>3
    <3> HIDE DEF clean
    <3>2. r \in AttemptRecord /\ r.at = "failed" /\ r.session = q.session /\ r.created = q.created
          /\ r.memo = q.memo /\ r.clean = clean
      BY <2>2, <3>1 DEF AttemptRecord
    <3>3. publish' = [publish EXCEPT ![a] = r] /\ OthersKept(a) /\ InstanceTyped'
      BY <1>0, <2>5 DEF Put, OthersKept, clean, InstanceTyped
    <3> QED
      BY <2>4, <3>1, <3>2, <3>3
  <2>6. CASE \E memosKept \in {{}, memo}, filesKept \in {{}, Mine(a)} :
               LET clean == memosKept = {} /\ filesKept = {} IN
                 /\ instance' = [memos |-> instance.memos \ (memo \ memosKept),
                                 files |-> instance.files \ (Mine(a) \ filesKept)]
                 /\ Put(a, [q EXCEPT !.clean = clean, !.refused = ~clean])
    <3>1. PICK memosKept \in {{}, memo}, filesKept \in {{}, Mine(a)} :
               LET clean == memosKept = {} /\ filesKept = {} IN
                 /\ instance' = [memos |-> instance.memos \ (memo \ memosKept),
                                 files |-> instance.files \ (Mine(a) \ filesKept)]
                 /\ Put(a, [q EXCEPT !.clean = clean, !.refused = ~clean])
      BY <2>6
    <3> DEFINE clean == memosKept = {} /\ filesKept = {}
               refused == ~clean
               r == [q EXCEPT !.clean = clean, !.refused = refused]
    <3>2. publish' = [publish EXCEPT ![a] = r]
      BY <3>1 DEF Put
    <3>3. clean \in BOOLEAN /\ refused \in BOOLEAN
      OBVIOUS
    <3>4. instance'.memos = instance.memos \ (memo \ memosKept)
          /\ instance'.files = instance.files \ (Mine(a) \ filesKept)
      BY <3>1
    <3>5. clean => ~(q.memo /\ a \in instance'.memos) /\ \A n \in q.created : <<a, n>> \notin instance'.files
      BY <2>3, <3>4
    <3>6. OthersKept(a) /\ InstanceTyped'
      BY <1>0, <2>3, <3>1, <3>4 DEF OthersKept, InstanceTyped
    <3> HIDE DEF clean, refused, q
    <3>7a. r \in AttemptRecord
      BY <2>2, <3>3 DEF AttemptRecord
    <3>7b. r.at = "failed" /\ r.session = q.session /\ r.created = q.created
      BY <2>2, <3>3 DEF AttemptRecord
    <3>7c. r.memo = q.memo /\ r.clean = clean
      BY <2>2, <3>3 DEF AttemptRecord
    <3>7. r \in AttemptRecord /\ r.at = "failed" /\ r.session = q.session /\ r.created = q.created
          /\ r.memo = q.memo /\ r.clean = clean
      BY <3>7a, <3>7b, <3>7c
    <3> QED
      BY <2>4, <3>2, <3>5, <3>6, <3>7
  <2> QED
    BY <1>7, <2>5, <2>6 DEF RollsBack, q
<1>8. CASE Record(a)
  <2> DEFINE r == [R EXCEPT !.at = "recording"]
  <2>1. R.at = "record" /\ publish' = [publish EXCEPT ![a] = r] /\ UNCHANGED instance
    BY <1>8 DEF Record, At, Put
  <2>2. r \in AttemptRecord /\ r.session = R.session /\ r.by = R.by
    BY <1>0, <2>1 DEF AttemptRecord, Made
  <2>3. Stands(a, r, instance) /\ R.at \notin Ended
    BY <1>0, <2>1 DEF AttemptRecord, Stands, Made, Ended
  <2> QED
    BY <2>1, <2>2, <2>3, QuietTurn
<1>9. CASE LedgerChanges(a)
  <2> DEFINE r == [R EXCEPT !.at = "writing"]
  <2>1. R.at = "recording" /\ publish' = [publish EXCEPT ![a] = r] /\ UNCHANGED instance
    BY <1>9 DEF LedgerChanges, At, Put
  <2>2. r \in AttemptRecord /\ r.session = R.session /\ r.by = R.by
    BY <1>0, <2>1 DEF AttemptRecord, Made
  <2>3. Stands(a, r, instance) /\ R.at \notin Ended
    BY <1>0, <2>1 DEF AttemptRecord, Stands, Made, Ended
  <2> QED
    BY <2>1, <2>2, <2>3, QuietTurn
<1>10. CASE LedgerWritten(a)
  <2>1. PICK at \in {"published", "unrecorded"} : publish' = [publish EXCEPT ![a] = Over(a, at)]
    BY <1>10 DEF LedgerWritten, Put
  <2>2. R.at = "writing" /\ UNCHANGED instance
    BY <1>10 DEF LedgerWritten, At
  <2> DEFINE r == Over(a, at)
  <2>3. r \in AttemptRecord /\ r.at = at /\ r.session = R.session /\ r.created = R.created /\ r.parts = R.parts
    BY <1>0, OverRecord
  <2>4. Stands(a, r, instance) /\ R.at \notin Ended /\ r.at \in Ended
    BY <1>0, <2>2, <2>3 DEF Stands, Made, Ended
  <2> QED
    BY <2>1, <2>2, <2>3, <2>4, QuietTurn
<1> QED
  BY <1>1, <1>2, <1>3, <1>4, <1>5, <1>6, <1>7, <1>8, <1>9, <1>10 DEF PublishStep

-----------------------------------------------------------------------------
(* Publications: the processes.                                            *)

\* A process that may publish, and one that may write the ledger.
Admitting(q) == Life(q) = "ready" \/ (Life(q) = "closing" /\ proc[q].stage = "requests")
Deciding(q) == Life(q) \in {"ready", "closing"}

\* The work of a process changes neither who serves nor who admits publications.
LEMMA WorkFrame ==
  ASSUME LockInv, NEW p \in Process, WorkStep(p), NEW q \in Process
  PROVE  (Admitting(q)' <=> Admitting(q)) /\ (Deciding(q)' <=> Deciding(q))
<1> DEFINE R == proc[p]
<1>1. R \in ProcRecord /\ proc \in [Process -> ProcRecord]
  BY DEF LockInv, Typed
<1>2. ASSUME NEW r, Set(p, r), r.life = R.life, r.stage = R.stage
      PROVE  proc'[q].life = proc[q].life /\ proc'[q].stage = proc[q].stage
  BY <1>1, <1>2 DEF Set
<1>3. ASSUME NEW work \in SUBSET WorkKind, Set(p, [R EXCEPT !.work = work])
      PROVE  proc'[q].life = proc[q].life /\ proc'[q].stage = proc[q].stage
  <2>1. [R EXCEPT !.work = work].life = R.life /\ [R EXCEPT !.work = work].stage = R.stage
    BY <1>1 DEF ProcRecord
  <2> QED
    BY <1>2, <1>3, <2>1
<1>4. R.work \subseteq WorkKind
  BY <1>1 DEF ProcRecord
<1>5. CASE \/ RequestArrives(p) \/ RequestAttaches(p) \/ RuntimeTransition(p) \/ TranslationAnswered(p)
  <2>1. PICK k \in WorkKind : Set(p, [R EXCEPT !.work = @ \cup {k}])
    BY <1>5 DEF RequestArrives, RequestAttaches, RuntimeTransition, TranslationAnswered, Begins, WorkKind
  <2> QED
    BY <1>3, <1>4, <2>1 DEF Admitting, Deciding, Life
<1>6. CASE \/ RequestDetaches(p) \/ RuntimeFailure(p) \/ RuntimeExit(p) \/ SyncStarts(p) \/ ExitRecorded(p)
           \/ RuntimeStopped(p) \/ \E k \in WorkKind : WorkEnds(p, k)
  <2>1. PICK k \in WorkKind, ks \in SUBSET WorkKind : Set(p, [R EXCEPT !.work = (@ \ {k}) \cup ks])
    BY <1>6 DEF RequestDetaches, RuntimeFailure, RuntimeExit, SyncStarts, ExitRecorded, RuntimeStopped,
                WorkEnds, Becomes, WorkKind
  <2> QED
    BY <1>3, <1>4, <2>1 DEF Admitting, Deciding, Life
<1>7. CASE WriteEnds(p)
  <2> DEFINE work == IF Life(p) = "ready" THEN R.work \cup {"timer"} ELSE R.work
             r == [R EXCEPT !.writer = "none", !.work = work]
  <2>1. Set(p, r)
    BY <1>7 DEF WriteEnds
  <2> HIDE DEF work
  <2>2. r.life = R.life /\ r.stage = R.stage
    BY <1>1 DEF ProcRecord
  <2> QED
    BY <1>2, <2>1, <2>2 DEF Admitting, Deciding, Life
<1>8. CASE \E k \in MayWrite : WriteBegins(p, k)
  <2>1. PICK k \in MayWrite : Set(p, [R EXCEPT !.writer = k])
    BY <1>8 DEF WriteBegins
  <2>2. [R EXCEPT !.writer = k].life = R.life /\ [R EXCEPT !.writer = k].stage = R.stage
    BY <1>1 DEF ProcRecord
  <2> QED
    BY <1>2, <2>1, <2>2 DEF Admitting, Deciding, Life
<1> QED
  BY <1>5, <1>6, <1>7, <1>8 DEF WorkStep

\* Only a start makes a process decide, and one that admits publications goes on
\* until it dies or none is under way.
LEMMA LifeFrame ==
  ASSUME LockInv, NEW p \in Process, LifeStep(p), NEW q \in Process
  PROVE  /\ Deciding(q)' => Deciding(q) \/ (q = p /\ Ready(p))
         /\ Admitting(q) => Admitting(q)' \/ (Dies(p) /\ MemosLost) \/ Publishing = {}
<1> DEFINE R == proc[p]
<1>0. R \in ProcRecord /\ proc \in [Process -> ProcRecord] /\ Life(p) = R.life
  BY DEF LockInv, Typed, Life
<1>1. ASSUME NEW r, Set(p, r)
      PROVE  proc'[p] = r /\ (q # p => proc'[q] = proc[q])
  BY <1>0, <1>1 DEF Set
<1>2. ASSUME NEW r, Set(p, r), r.life \notin {"ready", "closing"}, R.life \notin {"ready", "closing"}
      PROVE  (Deciding(q)' => Deciding(q)) /\ (Admitting(q) => Admitting(q)')
  BY <1>0, <1>1, <1>2 DEF Deciding, Admitting, Life
<1>3. ASSUME NEW r, Set(p, r), r.life = "closing", Deciding(p),
             Admitting(p) => r.stage = "requests" \/ Publishing = {}
      PROVE  (Deciding(q)' => Deciding(q)) /\ (Admitting(q) => Admitting(q)' \/ Publishing = {})
  BY <1>0, <1>1, <1>3 DEF Deciding, Admitting, Life
<1>4. ASSUME NEW r, Set(p, r), r.life \notin {"ready", "closing"}, ~Admitting(p)
      PROVE  (Deciding(q)' => Deciding(q)) /\ (Admitting(q) => Admitting(q)')
  BY <1>0, <1>1, <1>4 DEF Deciding, Admitting, Life
<1>5. CASE Starts(p)
  <2>1. Set(p, [R EXCEPT !.life = "locking"]) /\ R.life = "new"
    BY <1>0, <1>5 DEF Starts, StartProcess
  <2>2. [R EXCEPT !.life = "locking"].life = "locking"
    BY <1>0 DEF ProcRecord
  <2> QED
    BY <1>2, <2>1, <2>2
<1>6. CASE LockRefused(p) \/ LockAcquired(p)
  <2>1. PICK x \in {"closed", "initializing"} : Set(p, [R EXCEPT !.life = x]) /\ R.life = "locking"
    BY <1>0, <1>6 DEF LockRefused, LockAcquired
  <2>2. [R EXCEPT !.life = x].life = x
    BY <1>0 DEF ProcRecord
  <2> QED
    BY <1>2, <2>1, <2>2
<1>7. CASE Close(p)
  <2>1. CASE R.life = "ready" /\ Set(p, Closing(R))
    <3>1. Closing(R).life = "closing" /\ Closing(R).stage = "requests"
      BY <1>0 DEF ProcRecord, Closing
    <3> QED
      BY <1>0, <1>3, <2>1, <3>1 DEF Deciding
  <2>2. CASE R.life \in {"locking", "initializing"} /\ Set(p, [R EXCEPT !.closeAsked = TRUE])
    <3>1. [R EXCEPT !.closeAsked = TRUE].life = R.life
      BY <1>0 DEF ProcRecord
    <3> QED
      BY <1>2, <2>2, <3>1
  <2> QED
    BY <1>0, <1>7, <2>1, <2>2 DEF Close
<1>8. CASE InitFails(p) \/ Closed(p)
  <2>1. Set(p, [R EXCEPT !.life = "closed", !.stage = "none"])
    BY <1>8 DEF InitFails, Closed, Released, Unlocked
  <2>2. ~Admitting(p)
    BY <1>0, <1>8 DEF InitFails, Closed, Released, Passes, Awaited, Admitting
  <2>3. [R EXCEPT !.life = "closed", !.stage = "none"].life = "closed"
    BY <1>0 DEF ProcRecord
  <2> QED
    BY <1>4, <2>1, <2>2, <2>3
<1>9. CASE Ready(p)
  <2>1. PICK r : Set(p, r) /\ R.life = "initializing"
    BY <1>0, <1>9 DEF Ready, InitSucceeds
  <2>2. ~Deciding(p) /\ ~Admitting(p)
    BY <1>0, <2>1 DEF Deciding, Admitting
  <2> QED
    BY <1>1, <1>9, <2>1, <2>2 DEF Deciding, Admitting, Life
<1>10. CASE Dies(p)
  <2>1. Set(p, [NewProcess EXCEPT !.life = "dead"])
    BY <1>10 DEF Dies, Crash
  <2>2. [NewProcess EXCEPT !.life = "dead"].life = "dead"
    BY DEF NewProcess
  <2>3. R.life # "locking" => MemosLost
    BY <1>0, <1>10 DEF Dies
  <2> QED
    BY <1>0, <1>1, <1>10, <2>1, <2>2, <2>3 DEF Deciding, Admitting, Life
<1>11. CASE Drained(p)
  <2>1. Set(p, [R EXCEPT !.stage = "adapters", !.stopping = Busy(p, "runtime")]) /\ R.life = "closing"
        /\ Publishing = {}
    BY <1>0, <1>11 DEF Drained, NothingPublished, RequestsDrained, Passes, Awaited
  <2>2. [R EXCEPT !.stage = "adapters", !.stopping = Busy(p, "runtime")].life = R.life
    BY <1>0 DEF ProcRecord
  <2> QED
    BY <1>0, <1>3, <2>1, <2>2 DEF Deciding
<1>12. CASE Settles(p)
  <2>1. PICK r : Set(p, r) /\ R.life = "closing" /\ R.stage # "requests" /\ r.life = "closing"
    <3>1. ASSUME NEW x PROVE [R EXCEPT !.stage = x].life = R.life
      BY <1>0 DEF ProcRecord
    <3>2. [R EXCEPT !.stage = "syncs", !.stopping = FALSE].life = R.life
      BY <1>0 DEF ProcRecord
    <3>3. CASE AdaptersStopped(p)
      BY <1>0, <3>2, <3>3 DEF AdaptersStopped, Passes, Awaited
    <3>4. CASE SyncsSettled(p) \/ TransitionsSettled(p) \/ StopsDrained(p) \/ TailsSettled(p)
      BY <1>0, <3>1, <3>4 DEF SyncsSettled, TransitionsSettled, StopsDrained, TailsSettled, Passes, Awaited, GoesTo
    <3> QED
      BY <1>12, <3>3, <3>4 DEF Settles
  <2>2. ~Admitting(p) /\ Deciding(p)
    BY <1>0, <2>1 DEF Admitting, Deciding
  <2> QED
    BY <1>3, <2>1, <2>2
<1> QED
  BY <1>5, <1>6, <1>7, <1>8, <1>9, <1>10, <1>11, <1>12 DEF LifeStep, Locks

-----------------------------------------------------------------------------
(* Publications: the ledger.                                               *)

MemosTyped ==
  /\ memory \in [settings : Server \cup {None}, limit : Server \cup {None}, inFlight : SUBSET Session,
                 ledger : [Session -> Nat], queue : Seq(Attempt), test : Server \cup {None}]
  /\ disk \in [settings : Server \cup {None}, ledger : [Session -> Nat], changes : Nat]

Filed(n, s, ats) == n \in Attempt /\ publish[n].session = s /\ publish[n].at \in ats

\* The ledger on disk names attempts that are over.
DiskIsFiled == \A s \in Session : disk.ledger[s] # 0 => Filed(disk.ledger[s], s, {"published", "unrecorded"})

\* The ledger in memory forgets nothing of it, and may name the attempt whose turn it is.
MemoryIsFiled ==
  \A s \in Session :
    /\ memory.ledger[s] # 0 => Filed(memory.ledger[s], s, {"writing", "published", "unrecorded"})
    /\ disk.ledger[s] # 0 => memory.ledger[s] # 0

\* Every attempt that waits to be recorded is in the queue, the one that is written first.
Queued(a) ==
  /\ publish[a].at \in {"recording", "writing"} => \E i \in DOMAIN memory.queue : memory.queue[i] = a
  /\ publish[a].at = "writing" => a = Head(memory.queue)

PublishersServe ==
  \A a \in Attempt : publish[a].at \notin Ended => publish[a].by \in Process /\ Admitting(publish[a].by)

LedgerInv ==
  /\ MemosTyped /\ DiskIsFiled
  /\ (\E p \in Process : Deciding(p)) => MemoryIsFiled
  /\ \A a \in Attempt : Queued(a)
  /\ PublishersServe

MemosInv == AttemptsInv /\ LedgerInv

\* Which step writes the ledger.
LEMMA Writers ==
  ASSUME Attempts, MemosTyped, NEW a \in Attempt, NEW closing \in BOOLEAN, PublishStep(a, closing),
         ~Record(a), ~LedgerChanges(a), ~LedgerWritten(a)
  PROVE  /\ UNCHANGED disk /\ memory'.ledger = memory.ledger /\ memory'.queue = memory.queue
         /\ publish[a].at \notin {"recording", "writing"} \cup Ended
         /\ \E r : publish' = [publish EXCEPT ![a] = r] /\ r.at \notin {"recording", "writing"}
         /\ MemosTyped'
<1> DEFINE R == publish[a]
<1>0. R \in AttemptRecord
  BY DEF Attempts
<1>1. ASSUME NEW at, NEW r, r = Over(a, at), at = "failed" PROVE r.at = "failed"
  BY <1>0, <1>1, OverRecord
<1>2. ASSUME memory' = [memory EXCEPT !.inFlight = @ \ {R.session}]
      PROVE  /\ memory'.ledger = memory.ledger /\ memory'.queue = memory.queue
             /\ memory' \in [settings : Server \cup {None}, limit : Server \cup {None}, inFlight : SUBSET Session,
                            ledger : [Session -> Nat], queue : Seq(Attempt), test : Server \cup {None}]
  BY <1>2 DEF MemosTyped
<1>3. ASSUME NEW cl \in BOOLEAN, Failed(a, cl)
      PROVE  \E r : publish' = [publish EXCEPT ![a] = r] /\ r.at \notin {"recording", "writing"}
  <2>1. PICK x : publish' = [publish EXCEPT ![a] = [R EXCEPT !.at = "rollback", !.expired = x]]
    BY <1>3 DEF Failed, Put
  <2>2. [R EXCEPT !.at = "rollback", !.expired = x].at = "rollback"
    BY <1>0 DEF AttemptRecord
  <2> QED
    BY <2>1, <2>2
<1>4. CASE LimitKnown(a)
  <2> DEFINE known == IF memory.limit # None THEN memory.limit ELSE R.to
  <2>1. R.at = "limit" /\ memory' = [memory EXCEPT !.limit = known] /\ UNCHANGED disk
        /\ publish' = [publish EXCEPT ![a] = [R EXCEPT !.at = "audio", !.limit = known]]
    BY <1>4 DEF LimitKnown, At, Put
  <2>2. known \in Server \cup {None}
    BY <1>0 DEF MemosTyped, AttemptRecord
  <2> HIDE DEF known
  <2>3. /\ memory'.ledger = memory.ledger /\ memory'.queue = memory.queue
        /\ memory' \in [settings : Server \cup {None}, limit : Server \cup {None}, inFlight : SUBSET Session,
                       ledger : [Session -> Nat], queue : Seq(Attempt), test : Server \cup {None}]
    BY <2>1, <2>2 DEF MemosTyped
  <2>4. [R EXCEPT !.at = "audio", !.limit = known].at = "audio"
    BY <1>0 DEF AttemptRecord
  <2> QED
    BY <2>1, <2>3, <2>4 DEF MemosTyped, Ended
<1>5. CASE FilesBuilt(a)
  <2>1. R.at = "audio" /\ UNCHANGED <<memory, disk>>
        /\ publish' = [publish EXCEPT ![a] = [R EXCEPT !.at = "files", !.parts = PartsUnder[R.limit]]]
    BY <1>5 DEF FilesBuilt, At, Put
  <2>2. [R EXCEPT !.at = "files", !.parts = PartsUnder[R.limit]].at = "files"
    BY <1>0 DEF AttemptRecord
  <2> QED
    BY <2>1, <2>2 DEF MemosTyped, Ended
<1>6. CASE PreparationFails(a)
  <2>1. R.at \in {"limit", "audio"} /\ publish' = [publish EXCEPT ![a] = Over(a, "failed")] /\ UNCHANGED disk
        /\ memory' = [memory EXCEPT !.inFlight = @ \ {R.session}]
    BY <1>6 DEF PreparationFails, Fails, Ends, At, Put
  <2> QED
    BY <1>1, <1>2, <2>1 DEF MemosTyped, Ended
<1>7. CASE CreateFile(a, closing)
  <2>1. R.at = "files" /\ UNCHANGED <<memory, disk>>
    BY <1>7 DEF CreateFile, At
  <2>2. ASSUME NEW part, publish' = [publish EXCEPT ![a] = [R EXCEPT !.created = @ \cup {part},
                                       !.at = IF part = R.parts THEN "memo" ELSE "files"]]
        PROVE  \E r : publish' = [publish EXCEPT ![a] = r] /\ r.at \notin {"recording", "writing"}
    <3> DEFINE x == IF part = R.parts THEN "memo" ELSE "files"
    <3>1. x \in {"memo", "files"}
      OBVIOUS
    <3> HIDE DEF x
    <3>2. [R EXCEPT !.created = @ \cup {part}, !.at = x].at = x
      BY <1>0 DEF AttemptRecord
    <3> QED
      BY <2>2, <3>1, <3>2 DEF x
  <2> QED
    BY <1>3, <1>7, <2>1, <2>2 DEF CreateFile, MemosTyped, Ended, Put
<1>8. CASE CreateMemo(a, closing)
  <2>1. R.at = "memo" /\ UNCHANGED <<memory, disk>>
    BY <1>8 DEF CreateMemo, At
  <2>2. [R EXCEPT !.memo = TRUE, !.at = "wire"].at = "wire"
    BY <1>0 DEF AttemptRecord
  <2> QED
    BY <1>3, <1>8, <2>1, <2>2 DEF CreateMemo, MemosTyped, Ended, Put
<1>9. CASE SetAttachments(a, closing)
  <2>1. R.at = "wire" /\ UNCHANGED <<memory, disk>>
    BY <1>9 DEF SetAttachments, At
  <2>2. [R EXCEPT !.at = "record"].at = "record"
    BY <1>0 DEF AttemptRecord
  <2> QED
    BY <1>3, <1>9, <2>1, <2>2 DEF SetAttachments, MemosTyped, Ended, Put
<1>10. CASE RollsBack(a, closing)
  <2> DEFINE q == Over(a, "failed")
  <2>1. R.at = "rollback" /\ UNCHANGED disk /\ memory' = [memory EXCEPT !.inFlight = @ \ {R.session}]
    BY <1>10 DEF RollsBack, At
  <2>2. q \in AttemptRecord /\ q.at = "failed"
    BY OverRecord
  <2>3. \E r : publish' = [publish EXCEPT ![a] = r] /\ r.at = "failed"
    <3> DEFINE memo == IF q.memo THEN {a} ELSE {}
               c == memo = {} /\ Mine(a) = {}
    <3>1. CASE Put(a, [q EXCEPT !.clean = c])
      <4> HIDE DEF q, c
      <4>1. [q EXCEPT !.clean = c].at = "failed"
        BY <2>2 DEF AttemptRecord
      <4> QED
        BY <3>1, <4>1 DEF Put
    <3>2. CASE \E memosKept \in {{}, memo}, filesKept \in {{}, Mine(a)} :
                 LET clean == memosKept = {} /\ filesKept = {} IN
                   /\ instance' = [memos |-> instance.memos \ (memo \ memosKept),
                                   files |-> instance.files \ (Mine(a) \ filesKept)]
                   /\ Put(a, [q EXCEPT !.clean = clean, !.refused = ~clean])
      <4>1. PICK memosKept \in {{}, memo}, filesKept \in {{}, Mine(a)} :
              Put(a, [q EXCEPT !.clean = memosKept = {} /\ filesKept = {},
                               !.refused = ~(memosKept = {} /\ filesKept = {})])
        BY <3>2
      <4> DEFINE clean == memosKept = {} /\ filesKept = {}
                 refused == ~clean
      <4>2. Put(a, [q EXCEPT !.clean = clean, !.refused = refused])
        BY <4>1
      <4> HIDE DEF q, clean, refused
      <4>3. [q EXCEPT !.clean = clean, !.refused = refused].at = "failed"
        BY <2>2 DEF AttemptRecord
      <4> QED
        BY <4>2, <4>3 DEF Put
    <3> QED
      BY <1>10, <3>1, <3>2 DEF RollsBack
  <2> QED
    BY <1>2, <2>1, <2>3 DEF MemosTyped, Ended
<1> QED
  BY <1>4, <1>5, <1>6, <1>7, <1>8, <1>9, <1>10 DEF PublishStep

\* What the ledger on disk names is named there for ever.
Remembers == \A s \in Session : disk.ledger[s] # 0 => disk'.ledger[s] # 0

\* The attempts after a step of one of them.
LEMMA AttemptsAfter ==
  ASSUME AttemptsInv, NEW a \in Attempt, NEW r, Turns(a, r), memory'.limit \in Server \cup {None}
  PROVE  /\ AttemptsInv' /\ publish'[a] = r /\ \A b \in Attempt \ {a} : publish'[b] = publish[b]
<1>1. publish'[a] = r /\ (\A b \in Attempt \ {a} : publish'[b] = publish[b]) /\ Attempts'
  BY DEF Turns, AttemptsInv, Attempts
<1>2. ASSUME NEW b \in Attempt \ {a} PROVE Stands(b, publish'[b], instance')
  <2>1. b \in instance'.memos <=> b \in instance.memos
    BY DEF Turns, OthersKept
  <2>2. \A n : <<b, n>> \in instance'.files <=> <<b, n>> \in instance.files
    BY DEF Turns, OthersKept
  <2>3. Stands(b, publish[b], instance)
    BY DEF AttemptsInv
  <2> QED
    BY <1>1, <2>1, <2>2, <2>3 DEF Stands
<1>3. Stands(a, publish'[a], instance') /\ InstanceTyped'
  BY <1>1 DEF Turns
<1> QED
  BY <1>1, <1>2, <1>3 DEF AttemptsInv

LEMMA TurnKeepsServing ==
  ASSUME PublishersServe, NEW a \in Attempt, NEW r, Turns(a, r), publish'[a] = r,
         \A b \in Attempt \ {a} : publish'[b] = publish[b], UNCHANGED lifecycleVars
  PROVE  PublishersServe'
<1>1. \A p : Admitting(p)' <=> Admitting(p)
  BY DEF Admitting, Life, lifecycleVars
<1>2. publish[a].at \notin Ended /\ (r.at \notin Ended => r.by = publish[a].by)
  BY DEF Turns
<1> QED
  BY <1>1, <1>2 DEF PublishersServe

\* A step of a publication keeps the ledgers and their queue.
LEMMA PublishKeepsLedger ==
  ASSUME MemosInv, NEW a \in Attempt, NEW closing \in BOOLEAN, PublishStep(a, closing),
         UNCHANGED lifecycleVars
  PROVE  MemosInv' /\ Remembers
<1>0. AttemptsInv /\ LedgerInv /\ MemosTyped /\ Attempts /\ DiskIsFiled /\ PublishersServe
  BY DEF MemosInv, LedgerInv, AttemptsInv
<1>1. PICK r : Turns(a, r)
  BY <1>0, AttemptTurns
<1>2. publish[a].at \notin Ended /\ r.session = publish[a].session
  BY <1>1 DEF Turns
<1>3. publish[a].session \in Session
  BY <1>0, <1>2 DEF AttemptsInv, Stands
<1>4. publish[a].by \in Process /\ Deciding(publish[a].by)
  BY <1>0, <1>2 DEF PublishersServe, Admitting, Deciding
<1>5. MemoryIsFiled
  BY <1>0, <1>4 DEF LedgerInv
<1>6. publish'[a] = r /\ \A b \in Attempt \ {a} : publish'[b] = publish[b]
  BY <1>0, <1>1 DEF Turns, Attempts
<1>7. PublishersServe'
  BY <1>0, <1>1, <1>6, TurnKeepsServing
<1>8. ASSUME MemosTyped', DiskIsFiled', MemoryIsFiled', \A b \in Attempt : Queued(b)', Remembers
      PROVE  MemosInv' /\ Remembers
  <2>1. memory'.limit \in Server \cup {None}
    BY <1>8 DEF MemosTyped
  <2> QED
    BY <1>0, <1>1, <1>7, <1>8, <2>1, AttemptsAfter DEF MemosInv, LedgerInv
<1>9. ASSUME NEW n, NEW s, NEW ats \in SUBSET {"writing", "published", "unrecorded"}, Filed(n, s, ats), n # a
      PROVE  Filed(n, s, ats)'
  BY <1>6, <1>9 DEF Filed
<1>10. ASSUME NEW s \in Session, disk.ledger[s] # 0 PROVE disk.ledger[s] # a
  BY <1>0, <1>2, <1>10 DEF DiskIsFiled, Filed, Ended
<1>11. ASSUME NEW b \in Attempt \ {a}, memory'.queue = memory.queue PROVE Queued(b)'
  <2>1. Queued(b)
    BY <1>0 DEF LedgerInv
  <2> QED
    BY <1>6, <1>11, <2>1 DEF Queued
<1>12. CASE ~Record(a) /\ ~LedgerChanges(a) /\ ~LedgerWritten(a)
  <2>1. /\ UNCHANGED disk /\ memory'.ledger = memory.ledger /\ memory'.queue = memory.queue
        /\ publish[a].at \notin {"recording", "writing"} \cup Ended /\ MemosTyped'
        /\ \E q : publish' = [publish EXCEPT ![a] = q] /\ q.at \notin {"recording", "writing"}
    BY <1>0, <1>12, Writers
  <2>2. r.at \notin {"recording", "writing"}
    BY <1>0, <1>6, <2>1 DEF Attempts
  <2>3. DiskIsFiled' /\ Remembers
    BY <1>0, <1>9, <1>10, <2>1 DEF DiskIsFiled, Remembers
  <2>4. MemoryIsFiled'
    <3>1. ASSUME NEW s \in Session, memory.ledger[s] # 0
          PROVE  Filed(memory.ledger[s], s, {"writing", "published", "unrecorded"})'
      <4>1. Filed(memory.ledger[s], s, {"writing", "published", "unrecorded"})
        BY <1>5, <3>1 DEF MemoryIsFiled
      <4>2. memory.ledger[s] # a
        BY <2>1, <4>1 DEF Filed, Ended
      <4> QED
        BY <1>6, <2>1, <4>1, <4>2 DEF Filed
    <3> QED
      BY <1>5, <2>1, <3>1 DEF MemoryIsFiled
  <2>5. \A b \in Attempt : Queued(b)'
    BY <1>6, <1>11, <2>1, <2>2 DEF Queued
  <2> QED
    BY <1>8, <2>1, <2>3, <2>4, <2>5
<1>13. CASE Record(a)
  <2>1. publish[a].at = "record" /\ memory' = [memory EXCEPT !.queue = Append(@, a)] /\ UNCHANGED disk
        /\ publish' = [publish EXCEPT ![a] = [publish[a] EXCEPT !.at = "recording"]]
    BY <1>13 DEF Record, At, Put
  <2>2. r.at = "recording"
    BY <1>0, <1>6, <2>1 DEF Attempts, AttemptRecord
  <2>3. memory'.ledger = memory.ledger /\ memory'.queue = Append(memory.queue, a) /\ MemosTyped'
        /\ memory.queue \in Seq(Attempt)
    <3> DEFINE longer == Append(memory.queue, a)
    <3>1. memory.queue \in Seq(Attempt) /\ longer \in Seq(Attempt) /\ memory' = [memory EXCEPT !.queue = longer]
      BY <1>0, <2>1 DEF MemosTyped
    <3> HIDE DEF longer
    <3>2. memory'.ledger = memory.ledger /\ memory'.queue = longer /\ MemosTyped'
      BY <1>0, <2>1, <3>1 DEF MemosTyped
    <3> QED
      BY <3>1, <3>2 DEF longer
  <2>4. DiskIsFiled' /\ Remembers
    BY <1>0, <1>9, <1>10, <2>1 DEF DiskIsFiled, Remembers
  <2>5. MemoryIsFiled'
    <3>1. ASSUME NEW s \in Session, memory.ledger[s] # 0
          PROVE  memory.ledger[s] # a
      BY <1>5, <2>1, <3>1 DEF MemoryIsFiled, Filed
    <3> QED
      BY <1>5, <1>6, <2>1, <2>3, <3>1 DEF MemoryIsFiled, Filed
  <2>6. Queued(a)'
    <3>1. Len(memory.queue) + 1 \in DOMAIN memory'.queue /\ memory'.queue[Len(memory.queue) + 1] = a
      BY <2>3
    <3> QED
      BY <1>6, <2>2, <3>1 DEF Queued
  <2>7. ASSUME NEW b \in Attempt \ {a} PROVE Queued(b)'
    <3>1. Queued(b) /\ publish'[b] = publish[b]
      BY <1>0, <1>6 DEF LedgerInv
    <3>2. ASSUME NEW i \in DOMAIN memory.queue, memory.queue[i] = b
          PROVE  i \in DOMAIN memory'.queue /\ memory'.queue[i] = b
                 /\ Head(memory'.queue) = Head(memory.queue)
      BY <2>3, <3>2
    <3> QED
      BY <3>1, <3>2 DEF Queued
  <2> QED
    BY <1>8, <2>3, <2>4, <2>5, <2>6, <2>7
<1>14. CASE LedgerChanges(a)
  <2>1. publish[a].at = "recording" /\ a = Head(memory.queue) /\ UNCHANGED disk
        /\ memory' = [memory EXCEPT !.ledger = [memory.ledger EXCEPT ![publish[a].session] = a]]
        /\ publish' = [publish EXCEPT ![a] = [publish[a] EXCEPT !.at = "writing"]]
    BY <1>14 DEF LedgerChanges, Turn, LedgerWith, At, Put
  <2>2. r.at = "writing"
    BY <1>0, <1>6, <2>1 DEF Attempts, AttemptRecord, Made
  <2>3. a \in Nat \ {0}
    BY MemosAssumption DEF Attempt
  <2>4. /\ memory'.ledger = [memory.ledger EXCEPT ![publish[a].session] = a]
        /\ memory'.queue = memory.queue /\ MemosTyped'
    BY <1>0, <2>1, <2>3 DEF MemosTyped
  <2>5. DiskIsFiled' /\ Remembers
    BY <1>0, <1>9, <1>10, <2>1 DEF DiskIsFiled, Remembers
  <2>6. MemoryIsFiled'
    <3>1. memory.ledger \in [Session -> Nat] /\ disk' = disk
      BY <1>0, <2>1 DEF MemosTyped
    <3>2. CASE TRUE
      <4>1. ASSUME NEW s \in Session, s # publish[a].session, memory.ledger[s] # 0
            PROVE  memory.ledger[s] # a
        BY <1>5, <2>1, <4>1 DEF MemoryIsFiled, Filed
      <4> QED
        BY <1>2, <1>3, <1>5, <1>6, <2>2, <2>3, <2>4, <3>1, <4>1 DEF MemoryIsFiled, Filed
    <3> QED
      BY <3>2
  <2>7. Queued(a)'
    <3>1. Queued(a)
      BY <1>0 DEF LedgerInv
    <3> QED
      BY <1>6, <2>1, <2>2, <2>4, <3>1 DEF Queued
  <2> QED
    BY <1>8, <1>11, <2>4, <2>5, <2>6, <2>7
<1>15. CASE LedgerWritten(a)
  <2>1. PICK written \in {TRUE, FALSE} :
          /\ disk' = [disk EXCEPT !.ledger = IF written THEN memory.ledger ELSE @]
          /\ publish' = [publish EXCEPT ![a] = Over(a, IF written THEN "published" ELSE "unrecorded")]
    BY <1>15 DEF LedgerWritten, Put
  <2>2. publish[a].at = "writing"
        /\ memory' = [memory EXCEPT !.inFlight = @ \ {publish[a].session}, !.queue = Tail(@)]
    BY <1>15 DEF LedgerWritten, At
  <2>3. PICK i \in DOMAIN memory.queue : memory.queue[i] = a
    BY <1>0, <2>2 DEF LedgerInv, Queued
  <2>4. a = Head(memory.queue) /\ memory.queue \in Seq(Attempt) /\ memory.queue # <<>>
    BY <1>0, <2>2, <2>3 DEF LedgerInv, Queued, MemosTyped
  <2> DEFINE rest == Tail(memory.queue)
             others == memory.inFlight \ {publish[a].session}
  <2>5. memory' = [memory EXCEPT !.inFlight = others, !.queue = rest] /\ rest \in Seq(Attempt)
        /\ others \in SUBSET Session /\ memory.ledger \in [Session -> Nat]
    BY <1>0, <2>2, <2>4 DEF MemosTyped
  <2> HIDE DEF rest, others
  <2>6. /\ memory'.ledger = memory.ledger /\ memory'.queue = rest
        /\ memory' \in [settings : Server \cup {None}, limit : Server \cup {None}, inFlight : SUBSET Session,
                       ledger : [Session -> Nat], queue : Seq(Attempt), test : Server \cup {None}]
    BY <1>0, <2>5 DEF MemosTyped
  <2>7. (disk'.ledger = memory.ledger \/ disk'.ledger = disk.ledger) /\ MemosTyped'
    <3> DEFINE l == IF written THEN memory.ledger ELSE disk.ledger
    <3>1. l \in {memory.ledger, disk.ledger} /\ disk' = [disk EXCEPT !.ledger = l]
      BY <2>1
    <3> HIDE DEF l
    <3> QED
      BY <1>0, <2>5, <2>6, <3>1 DEF MemosTyped
  <2>8. r.at \in {"published", "unrecorded"}
    <3>1. r = Over(a, "published") \/ r = Over(a, "unrecorded")
      BY <1>0, <1>6, <2>1 DEF Attempts
    <3> QED
      BY <1>0, <3>1, OverRecord
  <2>9. ASSUME NEW s \in Session, memory.ledger[s] # 0
        PROVE  /\ memory.ledger[s] \in Attempt /\ publish'[memory.ledger[s]].session = s
               /\ publish'[memory.ledger[s]].at \in {"published", "unrecorded"}
    <3>1. Filed(memory.ledger[s], s, {"writing", "published", "unrecorded"})
      BY <1>5, <2>9 DEF MemoryIsFiled
    <3>2. CASE memory.ledger[s] = a
      BY <1>2, <1>6, <2>8, <3>1, <3>2 DEF Filed
    <3>3. CASE memory.ledger[s] # a
      <4>1. publish[memory.ledger[s]].at # "writing"
        BY <1>0, <2>4, <3>1, <3>3 DEF LedgerInv, Queued, Filed
      <4> QED
        BY <1>6, <3>1, <3>3, <4>1 DEF Filed
    <3> QED
      BY <3>2, <3>3
  <2>10. ASSUME NEW s \in Session, disk.ledger[s] # 0
         PROVE  /\ disk.ledger[s] \in Attempt /\ publish'[disk.ledger[s]].session = s
                /\ publish'[disk.ledger[s]].at \in {"published", "unrecorded"}
                /\ memory.ledger[s] # 0
    BY <1>0, <1>5, <1>6, <1>10, <2>10 DEF DiskIsFiled, MemoryIsFiled, Filed
  <2>11. DiskIsFiled' /\ Remembers
    BY <2>7, <2>9, <2>10 DEF DiskIsFiled, Remembers, Filed
  <2>12. MemoryIsFiled'
    BY <2>6, <2>7, <2>9, <2>10 DEF MemoryIsFiled, Filed
  <2>13. Queued(a)'
    BY <1>6, <2>8 DEF Queued
  <2>14. ASSUME NEW b \in Attempt \ {a} PROVE Queued(b)'
    <3>1. Queued(b) /\ publish'[b] = publish[b]
      BY <1>0, <1>6 DEF LedgerInv
    <3>2. publish[b].at # "writing"
      BY <2>4, <3>1 DEF Queued
    <3>3. ASSUME NEW j \in DOMAIN memory.queue, memory.queue[j] = b
          PROVE  j - 1 \in DOMAIN memory'.queue /\ memory'.queue[j - 1] = b
      <4>1. memory'.queue = Tail(memory.queue) /\ Head(memory.queue) = memory.queue[1]
        BY <2>4, <2>6 DEF rest
      <4>2. j \in 1 .. Len(memory.queue) /\ j # 1
        BY <2>4, <3>3, <4>1
      <4> HIDE DEF rest
      <4> QED
        BY <2>4, <3>3, <4>1, <4>2
    <3> QED
      BY <3>1, <3>2, <3>3 DEF Queued
  <2> QED
    BY <1>8, <2>7, <2>11, <2>12, <2>13, <2>14
<1> QED
  BY <1>12, <1>13, <1>14, <1>15

\* Initially nothing is published.
LEMMA PublicationsInit == Init => MemosInv
<1> SUFFICES ASSUME Init PROVE MemosInv
  OBVIOUS
<1>1. /\ disk = [settings |-> None, ledger |-> [s \in Session |-> 0], changes |-> 0]
      /\ memory = [settings |-> None, limit |-> None, inFlight |-> {}, ledger |-> disk.ledger,
                   queue |-> <<>>, test |-> None]
      /\ publish = [a \in Attempt |-> Unused] /\ instance = [memos |-> {}, files |-> {}]
  BY DEF Init, MemosInit
<1>2. Unused \in AttemptRecord /\ Unused.at = "unused" /\ Unused.created = {} /\ ~Unused.memo
  BY DEF Unused, AttemptRecord
<1> HIDE DEF Unused
<1>3. AttemptsInv
  BY <1>1, <1>2 DEF AttemptsInv, Attempts, InstanceTyped, Stands, Made, Ended
<1>4. MemosTyped
  BY <1>1 DEF MemosTyped
<1>5. DiskIsFiled /\ MemoryIsFiled
  BY <1>1 DEF DiskIsFiled, MemoryIsFiled
<1>6. (\A a \in Attempt : Queued(a)) /\ PublishersServe
  BY <1>1, <1>2 DEF Queued, PublishersServe, Ended
<1> QED
  BY <1>3, <1>4, <1>5, <1>6 DEF MemosInv, LedgerInv

\* A step that changes none of the attempts but may change who serves.
LEMMA ServingStep ==
  ASSUME LockInv, MemosInv, UNCHANGED <<publish, instance>>, memory'.queue = memory.queue,
         memory'.ledger = memory.ledger, disk'.ledger = disk.ledger, MemosTyped',
         \A q \in Process : Deciding(q)' => Deciding(q),
         \A q \in Process : Admitting(q) => Admitting(q)' \/ Publishing = {}
  PROVE  MemosInv' /\ Remembers
<1>1. memory'.limit \in Server \cup {None}
  BY DEF MemosTyped
<1>2. AttemptsInv'
  BY <1>1 DEF MemosInv, AttemptsInv, Attempts, InstanceTyped, Stands
<1>3. DiskIsFiled' /\ (\A a \in Attempt : Queued(a)')
  BY DEF MemosInv, LedgerInv, DiskIsFiled, Filed, Queued
<1>4. MemoryIsFiled => MemoryIsFiled'
  BY DEF MemoryIsFiled, Filed
<1>5. PublishersServe'
  BY DEF MemosInv, LedgerInv, PublishersServe, Publishing, Active, AttemptsInv, Attempts
<1> QED
  BY <1>2, <1>3, <1>4, <1>5 DEF MemosInv, LedgerInv, Remembers

\* A step that ends every attempt that was under way.
LEMMA LosingStep ==
  ASSUME LockInv, MemosInv, MemosLost, UNCHANGED <<disk, instance>>,
         \A q \in Process : ~Deciding(q)'
  PROVE  MemosInv' /\ Remembers
<1> DEFINE Gone == [Unused EXCEPT !.at = "lost"]
<1>1. memory' = [memory EXCEPT !.inFlight = {}, !.queue = <<>>, !.test = None]
      /\ publish' = [a \in Attempt |-> IF Active(a) THEN Gone ELSE publish[a]]
  BY DEF MemosLost
<1>2. Gone \in AttemptRecord /\ Gone.at = "lost" /\ Gone.created = {} /\ ~Gone.memo
  BY DEF Unused, AttemptRecord
<1> HIDE DEF Gone
<1>3. memory'.ledger = memory.ledger /\ memory'.limit = memory.limit /\ MemosTyped'
  <2> DEFINE nobody == {}
             nothing == <<>>
  <2>1. memory' = [memory EXCEPT !.inFlight = nobody, !.queue = nothing, !.test = None]
        /\ nobody \in SUBSET Session /\ nothing \in Seq(Attempt)
    BY <1>1
  <2> HIDE DEF nobody, nothing
  <2> QED
    BY <2>1 DEF MemosInv, LedgerInv, MemosTyped
<1>4. ASSUME NEW a \in Attempt
      PROVE  /\ publish'[a] \in AttemptRecord /\ publish'[a].at \in Ended
             /\ publish[a].at \in Ended => publish'[a] = publish[a]
             /\ publish[a].at \notin Ended => publish'[a] = Gone
  BY <1>1, <1>2 DEF Active, Ended, MemosInv, AttemptsInv, Attempts
<1>5. Attempts'
  BY <1>1, <1>4 DEF Attempts
<1>6. AttemptsInv'
  <2>1. ASSUME NEW a \in Attempt PROVE Stands(a, publish'[a], instance)
    BY <1>2, <1>4 DEF MemosInv, AttemptsInv, Stands, Made, Ended
  <2> QED
    BY <1>3, <1>5, <2>1 DEF MemosInv, AttemptsInv, InstanceTyped
<1>7. DiskIsFiled'
  BY <1>4 DEF MemosInv, LedgerInv, DiskIsFiled, Filed, Ended
<1>8. PublishersServe' /\ \A a \in Attempt : Queued(a)'
  BY <1>4 DEF PublishersServe, Queued, Ended
<1>9. (\E q \in Process : Deciding(q)') => MemoryIsFiled'
  OBVIOUS
<1> QED
  BY <1>3, <1>6, <1>7, <1>8, <1>9 DEF MemosInv, LedgerInv, Remembers

\* Whatever a process does, the publications stay in order and the ledger forgets nothing.
LEMMA LifeKeepsLedger ==
  ASSUME LockInv, MemosInv, NEW p \in Process, LifeStep(p)
  PROVE  MemosInv' /\ Remembers
<1>0. /\ MemosTyped /\ \A q \in Process : Life(q) \in Owning => endpoint = q
      /\ proc \in [Process -> ProcRecord]
  BY DEF MemosInv, LedgerInv, LockInv, OwnersHold, Typed
<1>1. \A q \in Process : /\ Deciding(q)' => Deciding(q) \/ Ready(p)
                         /\ Admitting(q) => Admitting(q)' \/ (Dies(p) /\ MemosLost) \/ Publishing = {}
  BY LifeFrame
<1>2. CASE ~Ready(p) /\ ~(Dies(p) /\ MemosLost)
  <2>1. UNCHANGED memosVars
    BY <1>2 DEF LifeStep, Starts, Locks, Dies, Drained, Settles, Closed, Idles, memosVars
  <2>2. UNCHANGED <<memory, disk, publish, instance>>
    BY <2>1 DEF memosVars
  <2> QED
    BY <1>0, <1>1, <1>2, <2>2, ServingStep DEF MemosTyped
<1>3. CASE Dies(p) /\ MemosLost
  <2>1. CASE Life(p) = "locking"
    <3>1. UNCHANGED <<memory, disk, publish, instance>>
      BY <1>3, <2>1 DEF Dies
    <3>2. \A q \in Process : proc'[q] = IF q = p THEN [NewProcess EXCEPT !.life = "dead"] ELSE proc[q]
      BY <1>0, <1>3 DEF Dies, Crash, Set
    <3>3. [NewProcess EXCEPT !.life = "dead"].life = "dead"
      BY DEF NewProcess
    <3>4. \A q \in Process : (Deciding(q)' => Deciding(q)) /\ (Admitting(q) => Admitting(q)')
      BY <2>1, <3>2, <3>3 DEF Deciding, Admitting, Life
    <3> QED
      BY <1>0, <3>1, <3>4, ServingStep DEF MemosTyped
  <2>2. CASE Life(p) # "locking"
    <3>1. Life(p) \in Owning /\ proc' = [proc EXCEPT ![p] = [NewProcess EXCEPT !.life = "dead"]]
      BY <1>3, <2>2 DEF Dies, Crash, Owning, Set
    <3>2. [NewProcess EXCEPT !.life = "dead"].life = "dead"
      BY DEF NewProcess
    <3>3. ASSUME NEW q \in Process PROVE ~Deciding(q)'
      BY <1>0, <3>1, <3>2 DEF Deciding, Life, Owning
    <3> QED
      BY <1>3, <3>3, LosingStep DEF Dies
  <2> QED
    BY <2>1, <2>2
<1>4. CASE Ready(p)
  <2>1. Life(p) = "initializing" /\ UNCHANGED <<disk, publish, instance>>
        /\ memory' = [settings |-> disk.settings, limit |-> None, inFlight |-> {},
                       ledger |-> disk.ledger, queue |-> <<>>, test |-> None]
    BY <1>4 DEF Ready, InitSucceeds, MemosLoaded
  <2>2. ASSUME NEW a \in Attempt PROVE publish[a].at \in Ended
    <3>1. SUFFICES ASSUME publish[a].at \notin Ended PROVE FALSE
      OBVIOUS
    <3>2. publish[a].by \in Process /\ Life(publish[a].by) \in {"ready", "closing"}
      BY <3>1 DEF MemosInv, LedgerInv, PublishersServe, Admitting
    <3> QED
      BY <1>0, <2>1, <3>2 DEF Owning
  <2>3. memory'.limit = None /\ memory'.ledger = disk.ledger /\ MemosTyped'
    BY <1>0, <2>1 DEF MemosTyped
  <2>4. AttemptsInv'
    BY <2>1, <2>3 DEF MemosInv, AttemptsInv, Attempts, InstanceTyped, Stands
  <2>5. DiskIsFiled' /\ MemoryIsFiled'
    BY <2>1, <2>3 DEF MemosInv, LedgerInv, DiskIsFiled, MemoryIsFiled, Filed
  <2>6. PublishersServe' /\ \A a \in Attempt : Queued(a)'
    BY <2>1, <2>2 DEF PublishersServe, Queued, Ended
  <2> QED
    BY <2>1, <2>3, <2>4, <2>5, <2>6 DEF MemosInv, LedgerInv, Remembers
<1> QED
  BY <1>2, <1>3, <1>4

\* A request that begins to publish, or changes the settings.
LEMMA RequestKeepsLedger ==
  ASSUME LockInv, MemosInv, NEW p \in Process, MemosRequest(p)
  PROVE  MemosInv' /\ Remembers
<1>0. /\ MemosTyped /\ AttemptsInv /\ Attempts /\ UNCHANGED lifecycleVars /\ Life(p) = "ready"
  BY DEF MemosInv, LedgerInv, AttemptsInv, MemosRequest, Serving
<1>1. \A q : (Deciding(q)' <=> Deciding(q)) /\ (Admitting(q)' <=> Admitting(q))
  BY <1>0 DEF Deciding, Admitting, Life, lifecycleVars
<1>2. ASSUME NEW srv \in Server, UpdateSettings(srv) PROVE MemosInv' /\ Remembers
  <2>1. MemosTyped' /\ memory'.ledger = memory.ledger /\ memory'.queue = memory.queue
        /\ disk'.ledger = disk.ledger
    <3> DEFINE more == disk.changes + 1
    <3>1. /\ disk' = [disk EXCEPT !.settings = srv, !.changes = more] /\ more \in Nat
          /\ memory' = [memory EXCEPT !.settings = srv, !.limit = None]
      BY <1>0, <1>2 DEF UpdateSettings, MemosTyped
    <3> HIDE DEF more
    <3> QED
      BY <1>0, <3>1 DEF MemosTyped
  <2> QED
    BY <1>1, <1>2, <2>1, ServingStep DEF UpdateSettings
<1>3. CASE TestConnection
  <2>1. MemosTyped' /\ memory'.ledger = memory.ledger /\ memory'.queue = memory.queue
    BY <1>0, <1>3 DEF TestConnection, MemosTyped
  <2> QED
    BY <1>1, <1>3, <2>1, ServingStep DEF TestConnection
<1>4. ASSUME NEW a \in Attempt, NEW s \in Session, BeginPublish(a, s, p) PROVE MemosInv' /\ Remembers
  <2> DEFINE r == [Unused EXCEPT !.at = "limit", !.session = s, !.to = memory.settings, !.by = p]
  <2>1. /\ publish[a].at = "unused" /\ memory.settings # None /\ UNCHANGED <<disk, instance>>
        /\ publish' = [publish EXCEPT ![a] = r] /\ memory' = [memory EXCEPT !.inFlight = @ \cup {s}]
    BY <1>4 DEF BeginPublish, At, Accepts, Put
  <2>2. memory.settings \in Server
    BY <1>0, <2>1 DEF MemosTyped
  <2>3. r \in AttemptRecord /\ r.at = "limit" /\ r.session = s /\ r.by = p /\ r.to \in Server
        /\ r.created = {} /\ ~r.memo
    BY <2>2 DEF Unused, AttemptRecord
  <2> HIDE DEF r
  <2>4. MemosTyped' /\ memory'.ledger = memory.ledger /\ memory'.queue = memory.queue
        /\ memory'.limit = memory.limit
    BY <1>0, <2>1 DEF MemosTyped
  <2>5. Attempts' /\ publish'[a] = r /\ \A b \in Attempt \ {a} : publish'[b] = publish[b]
    BY <1>0, <2>1, <2>3 DEF Attempts
  <2>6. Stands(a, r, instance)
    BY <2>3 DEF Stands, Made
  <2>7. AttemptsInv'
    <3>1. ASSUME NEW b \in Attempt PROVE Stands(b, publish'[b], instance')
      BY <1>0, <2>1, <2>5, <2>6 DEF AttemptsInv
    <3> QED
      BY <1>0, <2>1, <2>4, <2>5, <3>1 DEF AttemptsInv, InstanceTyped
  <2>8. ASSUME NEW n \in Attempt, publish[n].at \in {"writing", "published", "unrecorded"}
        PROVE  publish'[n] = publish[n]
    BY <2>1, <2>5, <2>8
  <2>9. DiskIsFiled'
    BY <2>1, <2>8 DEF MemosInv, LedgerInv, DiskIsFiled, Filed
  <2>10. MemoryIsFiled'
    <3>1. MemoryIsFiled
      BY <1>0 DEF MemosInv, LedgerInv, Deciding
    <3> QED
      BY <2>1, <2>4, <2>8, <3>1 DEF MemoryIsFiled, Filed
  <2>11. \A b \in Attempt : Queued(b)'
    BY <2>3, <2>4, <2>5 DEF MemosInv, LedgerInv, Queued
  <2>12. PublishersServe'
    BY <1>0, <1>1, <2>3, <2>5 DEF MemosInv, LedgerInv, PublishersServe, Admitting, Deciding
  <2> QED
    BY <2>1, <2>4, <2>7, <2>9, <2>10, <2>11, <2>12 DEF MemosInv, LedgerInv, Remembers
<1> QED
  BY <1>2, <1>3, <1>4 DEF MemosRequest

\* The invariant of the publications is inductive, and no step forgets an entry.
LEMMA MemosStep ==
  ASSUME LockInv, MemosInv, [Next]_vars
  PROVE  MemosInv' /\ Remembers
<1>0. MemosTyped
  BY DEF MemosInv, LedgerInv
<1>1. ASSUME UNCHANGED memosVars, \A q \in Process : (Deciding(q)' <=> Deciding(q)) /\ (Admitting(q)' <=> Admitting(q))
      PROVE  MemosInv' /\ Remembers
  <2>1. UNCHANGED <<memory, disk, publish, instance>>
    BY <1>1 DEF memosVars
  <2> QED
    BY <1>0, <1>1, <2>1, ServingStep DEF MemosTyped
<1>2. ASSUME UNCHANGED lifecycleVars
      PROVE  \A q \in Process : (Deciding(q)' <=> Deciding(q)) /\ (Admitting(q)' <=> Admitting(q))
  BY <1>2 DEF Deciding, Admitting, Life, lifecycleVars
<1>3. CASE UNCHANGED vars
  BY <1>1, <1>2, <1>3 DEF vars
<1>4. ASSUME NEW p \in Process, Capture(p) PROVE MemosInv' /\ Remembers
  <2>1. WorkStep(p) /\ UNCHANGED memosVars
    BY <1>4 DEF Capture, CaptureBegins, Recorded, Written, Stopped, Finishes, WorkStep, Idles
  <2> QED
    BY <1>1, <2>1, WorkFrame
<1>5. ASSUME NEW p \in Process, MemosAnswer(p) PROVE MemosInv' /\ Remembers
  <2>1. UNCHANGED lifecycleVars
    BY <1>5 DEF MemosAnswer
  <2>2. CASE ConnectionTested
    <3>1. MemosTyped' /\ memory'.ledger = memory.ledger /\ memory'.queue = memory.queue
          /\ UNCHANGED <<disk, publish, instance>>
      <4>1. PICK answered \in {TRUE, FALSE} :
              memory' = [memory EXCEPT !.test = None, !.limit = IF answered THEN memory.test ELSE @]
        BY <2>2 DEF ConnectionTested
      <4> DEFINE l == IF answered THEN memory.test ELSE memory.limit
      <4>2. memory' = [memory EXCEPT !.test = None, !.limit = l] /\ l \in Server \cup {None}
        BY <1>0, <4>1 DEF MemosTyped
      <4> HIDE DEF l
      <4> QED
        BY <1>0, <2>2, <4>2 DEF MemosTyped, ConnectionTested
    <3> QED
      BY <1>2, <2>1, <3>1, ServingStep
  <2>3. ASSUME NEW a \in Attempt, PublishStep(a, Life(p) = "closing") PROVE MemosInv' /\ Remembers
    <3> DEFINE closing == Life(p) = "closing"
    <3>1. closing \in BOOLEAN /\ PublishStep(a, closing)
      BY <2>3
    <3> HIDE DEF closing
    <3> QED
      BY <2>1, <3>1, PublishKeepsLedger
  <2> QED
    BY <1>5, <2>2, <2>3 DEF MemosAnswer
<1>6. ASSUME NEW p \in Process,
             Feeds(p) \/ Broadcasts(p) \/ Connects(p) \/ Answers(p) \/ Appends(p)
      PROVE  MemosInv' /\ Remembers
  BY <1>1, <1>2, <1>6 DEF Feeds, Broadcasts, Connects, Answers, Appends, LiveStep, ToolStep
<1>7. CASE Receives \/ Applies \/ Drops \/ Disconnects \/ Operates
  BY <1>1, <1>2, <1>7 DEF Receives, Applies, Drops, Disconnects, Operates, LiveStep, ToolStep
<1> QED
  BY <1>3, <1>4, <1>5, <1>6, <1>7, LifeKeepsLedger, RequestKeepsLedger DEF Next

-----------------------------------------------------------------------------
(* What follows.                                                           *)

\* The two invariants hold together.
LEMMA LockAndPublications == Spec => [](LockInv /\ MemosInv)
<1>1. Init => LockInv /\ MemosInv
  BY ProcessesInit, PublicationsInit
<1>2. LockInv /\ MemosInv /\ [Next]_vars => (LockInv /\ MemosInv)'
  BY LockStepOrNone, MemosStep
<1> QED
  BY <1>1, <1>2, PTL DEF Spec

\* Who writes to a data root holds its lock, however many processes contend for it and
\* whatever they were doing when they were closed (dataRootLock.ts, closeReadyApp).
THEOREM LockAlwaysCovers == Spec => []LockCoversWrites
<1>1. LockInv /\ MemosInv => LockCoversWrites
  <2> SUFFICES ASSUME LockInv, MemosInv, NEW p \in Process, Writing(p) PROVE endpoint = p
    BY DEF LockCoversWrites
  <2>1. proc[p] \in ProcRecord /\ Orderly(proc[p]) /\ (Life(p) \in Owning => endpoint = p)
    BY RecordOf DEF LockInv, OwnersHold
  <2>2. CASE Life(p) = "initializing"
    BY <2>1, <2>2 DEF Owning
  <2>3. CASE proc[p].writer \notin {"none", "exit"}
    BY <2>1, <2>3 DEF Orderly, ProcRecord, Owning, Life
  <2>4. CASE \E a \in Publishing : publish[a].by = p
    BY <2>1, <2>4 DEF Publishing, Active, MemosInv, LedgerInv, PublishersServe, Admitting, Owning
  <2> QED
    BY <2>2, <2>3, <2>4 DEF Writing
<1> QED
  BY <1>1, LockAndPublications, PTL

\* A publication that fails says so when something it has created is left behind, for
\* any recordings and any number of attempts (memosPublisher.ts, rollback).
THEOREM RollbackAlwaysHonest == Spec => []RollbackIsHonest
<1>1. MemosInv => RollbackIsHonest
  BY DEF MemosInv, AttemptsInv, Stands, RollbackIsHonest, Known, Mine, At
<1> QED
  BY <1>1, LockAndPublications, PTL

\* The ledger on disk names memos that exist, with all their attachments, and forgets
\* none, whatever ends or dies at the same time (recordMemosPublish).
THEOREM LedgerAlwaysKept == Spec => LedgerIsKept
<1>1. LockInv /\ MemosInv => LedgerNamesMemos /\ MemosAreWhole
  <2> SUFFICES ASSUME MemosInv, NEW s \in Session, disk.ledger[s] # 0
               PROVE  LET a == disk.ledger[s] IN
                        /\ publish[a].session = s /\ a \in instance.memos
                        /\ Cardinality(publish[a].created) = publish[a].parts /\ Mine(a) \subseteq instance.files
    BY DEF LedgerNamesMemos, MemosAreWhole
  <2> DEFINE a == disk.ledger[s]
  <2>1. a \in Attempt /\ publish[a].session = s /\ publish[a].at \in {"published", "unrecorded"}
    BY DEF MemosInv, LedgerInv, DiskIsFiled, Filed
  <2> HIDE DEF a
  <2>2. Stands(a, publish[a], instance) /\ publish[a].parts \in Nat
    BY <2>1 DEF MemosInv, AttemptsInv, Attempts, AttemptRecord
  <2>3. /\ publish[a].created = 1 .. publish[a].parts /\ a \in instance.memos
        /\ \A n \in publish[a].created : <<a, n>> \in instance.files
    BY <2>1, <2>2 DEF Stands, Made
  <2>4. Cardinality(1 .. publish[a].parts) = publish[a].parts
    BY <2>2, FS_Interval
  <2> QED
    BY <2>1, <2>3, <2>4 DEF Mine, a
<1>2. LockInv /\ MemosInv /\ [Next]_vars => [\A s \in Session : disk.ledger[s] # 0 => disk'.ledger[s] # 0]_memosVars
  BY MemosStep DEF Remembers
<1> QED
  BY <1>1, <1>2, LockAndPublications, PTL DEF LedgerIsKept, NothingForgotten, Spec

-----------------------------------------------------------------------------
(* The tools.                                                              *)

Line == {"legacy", "migrated"}

Shaped ==
  /\ root = [events |-> root.events, outbox |-> root.outbox, owed |-> root.owed]
  /\ tool = [runs |-> tool.runs, at |-> tool.at, read |-> tool.read, copied |-> tool.copied,
             quiet |-> tool.quiet]
  /\ tool.copied = [events |-> tool.copied.events, outbox |-> tool.copied.outbox]
  /\ root.events \in Seq(Line)
  /\ root.owed => root.events # <<>>

\* What the first migration found is in the root or in a copy, and a migration that
\* renames has made its copy.
OriginalInv ==
  HasLegacy(original.events) /\ original \notin kept =>
    /\ Files(root) = original
    /\ tool.at = "keep outbox" => tool.copied.events = original.events
    /\ tool.at \notin {"rename events", "rename outbox"}
    /\ \A p \in Process : ~Deciding(p)

Clean == ~HasLegacy(root.events) /\ ~HasLegacy(root.outbox)

\* While something is left to migrate nobody serves the root, so that a migration
\* renames what it has read.
RootInv ==
  /\ DOMAIN root.outbox \subseteq DOMAIN root.events
  /\ (\E p \in Process : Deciding(p)) => Clean
  /\ tool.at \in {"keep events", "keep outbox", "rename events"} => Files(root) = tool.read /\ ~Clean
  /\ tool.at = "rename outbox" => DOMAIN tool.read.outbox \subseteq DOMAIN root.events

ToolsInv == Shaped /\ OriginalInv /\ RootInv

\* A root of any number of old sessions, its last item possibly missing.
LEMMA ToolsStart == Init => ToolsInv
<1> SUFFICES ASSUME Init PROVE ToolsInv
  OBVIOUS
<1>1. PICK n \in 0 .. OldLines : \E m \in {n, n - 1} \cap Nat :
        root = [events |-> All(n, "legacy"), outbox |-> All(m, "legacy"), owed |-> FALSE]
  BY DEF Init, ToolsInit
<1>2. PICK m \in {n, n - 1} \cap Nat :
        root = [events |-> All(n, "legacy"), outbox |-> All(m, "legacy"), owed |-> FALSE]
  BY <1>1
<1>3. root.events = [i \in 1 .. n |-> "legacy"] /\ root.outbox = [i \in 1 .. m |-> "legacy"] /\ ~root.owed
  BY <1>2 DEF All
<1>4. n \in Nat /\ m \in Nat /\ m <= n
  BY ToolsAssumption
<1>5. root.events \in Seq(Line) /\ DOMAIN root.outbox \subseteq DOMAIN root.events
  BY <1>3, <1>4 DEF Line
<1>6. original = Files(root) /\ tool = NoTool
  BY DEF Init, ToolsInit
<1>7. \A p \in Process : ~Deciding(p)
  BY DEF Init, LifecycleInit, NewProcess, Deciding, Life
<1>8. Shaped
  BY <1>2, <1>3, <1>5, <1>6 DEF Shaped, NoTool, NoFiles
<1>9. tool.at = "none"
  BY <1>6 DEF NoTool
<1> QED
  BY <1>5, <1>6, <1>7, <1>8, <1>9 DEF ToolsInv, OriginalInv, RootInv

\* A step that leaves the root and the copies alone and enters no rename.
LEMMA IdleTool ==
  ASSUME ToolsInv, UNCHANGED <<root, original, kept>>, Shaped',
         tool'.at \notin {"keep events", "keep outbox", "rename events", "rename outbox"},
         \A p \in Process : Deciding(p)' => Deciding(p)
  PROVE  ToolsInv'
  BY DEF ToolsInv, OriginalInv, RootInv, Clean, HasLegacy, Files

\* A step that changes nothing but who serves, and whether the root is quiet.
LEMMA SameTools ==
  ASSUME ToolsInv, Files(root)' = Files(root), UNCHANGED <<original, kept>>, Shaped',
         tool'.at = tool.at, tool'.read = tool.read, tool'.copied = tool.copied,
         \A p \in Process : Deciding(p)' => Deciding(p)
  PROVE  ToolsInv'
<1>1. root'.events = root.events /\ root'.outbox = root.outbox
  BY DEF Files
<1> QED
  BY <1>1 DEF ToolsInv, OriginalInv, RootInv, Clean, HasLegacy, Files

\* A root that the service opens has nothing left to migrate.
LEMMA OpenedRoot ==
  ASSUME ToolsInv, RootOpened
  PROVE  ToolsInv'
<1>1. root' = [root EXCEPT !.outbox = root.events] /\ UNCHANGED <<original, kept, tool>> /\ Opens(root)
  BY DEF RootOpened
<1>2. root'.events = root.events /\ root'.outbox = root.events /\ root'.owed = root.owed /\ Shaped'
  BY <1>1 DEF ToolsInv, Shaped
<1>3. Clean /\ Clean'
  BY <1>1, <1>2 DEF Opens, Clean, HasLegacy
<1>4. HasLegacy(original.events) => original \in kept
  <2> SUFFICES ASSUME HasLegacy(original.events), original \notin kept PROVE FALSE
    OBVIOUS
  <2>1. Files(root) = original
    BY DEF ToolsInv, OriginalInv
  <2>2. root.events = original.events
    BY <2>1 DEF Files
  <2> QED
    BY <1>3, <2>2 DEF Clean
<1>5. OriginalInv'
  BY <1>1, <1>4 DEF OriginalInv
<1>6. RootInv'
  BY <1>1, <1>2, <1>3 DEF ToolsInv, RootInv
<1> QED
  BY <1>2, <1>5, <1>6 DEF ToolsInv

\* The service appends to a root that has nothing left to migrate.
LEMMA AppendedRoot ==
  ASSUME ToolsInv, NEW p \in Process, Deciding(p), LineAppended \/ ItemAppended
  PROVE  ToolsInv'
<1>0. Clean /\ Shaped /\ DOMAIN root.outbox \subseteq DOMAIN root.events /\ UNCHANGED <<original, kept, tool>>
  BY DEF ToolsInv, RootInv, LineAppended, ItemAppended
<1>1. tool.at \notin {"keep events", "keep outbox", "rename events"}
  BY <1>0 DEF ToolsInv, RootInv
<1>2. OriginalInv'
  BY <1>0 DEF ToolsInv, OriginalInv
<1>3. ASSUME DOMAIN root'.outbox \subseteq DOMAIN root'.events, DOMAIN root.events \subseteq DOMAIN root'.events,
             Clean', Shaped'
      PROVE  ToolsInv'
  BY <1>0, <1>1, <1>2, <1>3 DEF ToolsInv, RootInv
<1>4. CASE LineAppended
  <2>1. root' = [root EXCEPT !.events = Append(@, "migrated"), !.owed = TRUE]
    BY <1>4 DEF LineAppended
  <2>2. root.events \in Seq(Line) /\ "migrated" \in Line
    BY <1>0 DEF Shaped, Line
  <2> DEFINE longer == Append(root.events, "migrated")
  <2> DEFINE lines == root.events
             n == Len(lines)
  <2>a. lines \in Seq(Line) /\ n \in Nat /\ DOMAIN lines = 1 .. n
    BY <2>2
  <2>b. longer \in Seq(Line) /\ Len(longer) = n + 1 /\ \A i \in 1 .. n : longer[i] = lines[i]
    BY <2>2
  <2>c. longer[n + 1] = "migrated"
    BY <2>2
  <2> HIDE DEF n, lines, longer
  <2>d. DOMAIN longer = 1 .. (n + 1) /\ DOMAIN lines \subseteq DOMAIN longer
    BY <2>a, <2>b
  <2>e. longer # <<>>
    <3>1. Len(longer) # 0
      BY <2>a, <2>b
    <3> QED
      BY <3>1
  <2>3. longer \in Seq(Line) /\ longer # <<>> /\ DOMAIN longer = 1 .. (n + 1) /\ DOMAIN lines \subseteq DOMAIN longer
    BY <2>b, <2>d, <2>e
  <2>3a. ~HasLegacy(longer)
    <3> SUFFICES ASSUME NEW i \in 1 .. (n + 1) PROVE longer[i] # "legacy"
      BY <2>3 DEF HasLegacy
    <3>1. CASE i = n + 1
      BY <3>1, <2>c
    <3>2. CASE i # n + 1
      <4>1. i \in 1 .. n
        BY <3>2, <2>a
      <4> QED
        BY <4>1, <2>a, <2>b, <1>0 DEF Clean, HasLegacy, lines
    <3> QED
      BY <3>1, <3>2
  <2>4. root' = [events |-> longer, outbox |-> root.outbox, owed |-> TRUE]
    BY <1>0, <2>1 DEF Shaped, longer
  <2>5. Shaped'
    BY <1>0, <2>3, <2>4 DEF Shaped
  <2>6. Clean'
    BY <1>0, <2>3a, <2>4 DEF Clean
  <2>7. root'.events = longer /\ root'.outbox = root.outbox
    BY <2>4
  <2>8. DOMAIN root'.outbox \subseteq DOMAIN root'.events /\ DOMAIN root.events \subseteq DOMAIN root'.events
    BY <1>0, <2>3, <2>7 DEF lines
  <2> QED
    BY <1>3, <2>5, <2>6, <2>8
<1>5. CASE ItemAppended
  <2> DEFINE D == DOMAIN root.outbox \cup {Len(root.events)}
             items == [i \in D |-> IF i \in DOMAIN root.outbox THEN root.outbox[i] ELSE "migrated"]
  <2>1. root.owed /\ root' = [root EXCEPT !.owed = FALSE, !.outbox = items]
    BY <1>0, <1>5 DEF ItemAppended, Shaped
  <2>2. root.events \in Seq(Line) /\ root.events # <<>>
    BY <1>0, <2>1 DEF Shaped
  <2>3. Len(root.events) \in DOMAIN root.events
    BY <2>2
  <2>4. DOMAIN items \subseteq DOMAIN root.events /\ \A i \in DOMAIN items : items[i] # "legacy"
    BY <1>0, <2>3 DEF Clean, HasLegacy
  <2> HIDE DEF items
  <2>5. root' = [events |-> root.events, outbox |-> items, owed |-> FALSE]
    BY <1>0, <2>1 DEF Shaped
  <2>6. Shaped' /\ Clean'
    BY <1>0, <2>4, <2>5 DEF Shaped, Clean, HasLegacy
  <2> QED
    BY <1>3, <2>4, <2>5, <2>6
<1> QED
  BY <1>4, <1>5

\* The steps of a migration, which has copied before it renames.
LEMMA MigrationKeeps ==
  ASSUME ToolsInv, MigrationStep, \A p \in Process : Deciding(p)' <=> Deciding(p)
  PROVE  ToolsInv'
<1>0. Shaped /\ OriginalInv /\ RootInv /\ UNCHANGED original
  BY DEF ToolsInv, MigrationStep, MigrationBegins, KeepEvents, KeepOutbox, RenameEvents, RenameOutbox
<1>1. CASE MigrationBegins
  <2>1. tool' = [tool EXCEPT !.at = "keep events", !.runs = @ + 1, !.read = Files(root)]
        /\ UNCHANGED <<root, kept>> /\ ~Clean
    BY <1>1 DEF MigrationBegins, RunBegins, Clean
  <2>2. Shaped' /\ tool'.at = "keep events" /\ tool'.read = Files(root)
    BY <1>0, <2>1 DEF Shaped
  <2>3. OriginalInv'
    BY <1>0, <2>1, <2>2 DEF OriginalInv, Files
  <2>4. Files(root)' = Files(root) /\ (~Clean)'
    BY <2>1 DEF Files, Clean, HasLegacy
  <2>5. RootInv'
    BY <1>0, <2>1, <2>2, <2>4 DEF RootInv
  <2> QED
    BY <2>2, <2>3, <2>5 DEF ToolsInv
<1>2. CASE KeepEvents
  <2>1. tool' = [tool EXCEPT !.at = "keep outbox", !.copied.events = root.events]
        /\ UNCHANGED <<root, kept>> /\ tool.at = "keep events"
    BY <1>2 DEF KeepEvents
  <2>2. Shaped' /\ tool'.at = "keep outbox" /\ tool'.read = tool.read /\ tool'.copied.events = root.events
    BY <1>0, <2>1 DEF Shaped
  <2>3. Files(root)' = Files(root) /\ (Clean' <=> Clean)
    BY <2>1 DEF Files, Clean, HasLegacy
  <2>4. Files(root) = original => root.events = original.events
    BY DEF Files
  <2>5. OriginalInv'
    BY <1>0, <2>1, <2>2, <2>3, <2>4 DEF OriginalInv
  <2>6. RootInv'
    BY <1>0, <2>1, <2>2, <2>3 DEF RootInv
  <2> QED
    BY <2>2, <2>5, <2>6 DEF ToolsInv
<1>3. CASE KeepOutbox
  <2>1. tool' = [tool EXCEPT !.at = "rename events"] /\ UNCHANGED root /\ tool.at = "keep outbox"
        /\ kept' = kept \cup {[events |-> tool.copied.events, outbox |-> root.outbox]}
    BY <1>3 DEF KeepOutbox, Goes
  <2>2. Shaped' /\ tool'.at = "rename events" /\ tool'.read = tool.read
    BY <1>0, <2>1 DEF Shaped
  <2>3. HasLegacy(original.events) => original \in kept'
    <3>1. CASE HasLegacy(original.events) /\ original \notin kept
      <4>1. Files(root) = original /\ tool.copied.events = original.events
        BY <1>0, <2>1, <3>1 DEF OriginalInv
      <4>2. original = [events |-> root.events, outbox |-> root.outbox]
        BY <4>1 DEF Files
      <4>3. tool.copied.events = root.events
        BY <4>1, <4>2
      <4>4. original = [events |-> tool.copied.events, outbox |-> root.outbox]
        BY <4>2, <4>3
      <4> QED
        BY <2>1, <4>4
    <3>2. CASE original \in kept
      BY <2>1, <3>2
    <3> QED
      BY <3>1, <3>2
  <2>4. OriginalInv'
    BY <1>0, <2>3 DEF OriginalInv
  <2>5. RootInv'
    BY <1>0, <2>1, <2>2 DEF RootInv, Clean, HasLegacy, Files
  <2> QED
    BY <2>2, <2>4, <2>5 DEF ToolsInv
<1>4. CASE RenameEvents
  <2>1. tool' = [tool EXCEPT !.at = "rename outbox"] /\ tool.at = "rename events" /\ UNCHANGED kept
        /\ root' = [root EXCEPT !.events = Migrated(tool.read.events)]
    BY <1>4 DEF RenameEvents, Goes
  <2>a. Files(root) = tool.read /\ ~Clean
    BY <1>0, <2>1 DEF RootInv
  <2>2. tool.read.events = root.events /\ tool.read.outbox = root.outbox /\ ~Clean
    <3>1. tool.read = [events |-> root.events, outbox |-> root.outbox]
      BY <2>a DEF Files
    <3> QED
      BY <3>1, <2>a
  <2>3. tool'.at = "rename outbox" /\ tool'.read = tool.read /\ tool'.copied = tool.copied
        /\ tool' = [runs |-> tool.runs, at |-> "rename outbox", read |-> tool.read, copied |-> tool.copied,
                    quiet |-> tool.quiet]
    BY <1>0, <2>1 DEF Shaped
  <2> DEFINE lines == Migrated(root.events)
  <2>4. lines \in Seq(Line) /\ DOMAIN lines = DOMAIN root.events /\ (root.events # <<>> => lines # <<>>)
    BY <1>0 DEF Shaped, Migrated, Line
  <2> HIDE DEF lines
  <2>5. root' = [events |-> lines, outbox |-> root.outbox, owed |-> root.owed]
    BY <1>0, <2>1, <2>2 DEF Shaped, lines
  <2>6. Shaped'
    BY <1>0, <2>3, <2>4, <2>5 DEF Shaped
  <2>7. HasLegacy(original.events) => original \in kept
    BY <1>0, <2>1 DEF OriginalInv
  <2>8. OriginalInv'
    BY <1>0, <2>1, <2>7 DEF OriginalInv
  <2>9. \A p \in Process : ~Deciding(p)
    BY <1>0, <2>2 DEF RootInv
  <2>10. RootInv'
    BY <1>0, <2>2, <2>3, <2>4, <2>5, <2>9 DEF RootInv
  <2> QED
    BY <2>6, <2>8, <2>10 DEF ToolsInv
<1>5. CASE RenameOutbox
  <2>1. tool' = [NoTool EXCEPT !.runs = tool.runs] /\ tool.at = "rename outbox" /\ UNCHANGED kept
        /\ root' = [root EXCEPT !.outbox = Migrated(tool.read.outbox)]
    BY <1>5 DEF RenameOutbox, Leaves
  <2>2. tool'.at = "none" /\ tool'.copied = tool'.copied
        /\ tool' = [runs |-> tool.runs, at |-> "none", read |-> NoFiles, copied |-> NoFiles, quiet |-> FALSE]
    BY <2>1 DEF NoTool
  <2> DEFINE items == Migrated(tool.read.outbox)
  <2>3. DOMAIN items \subseteq DOMAIN root.events /\ ~HasLegacy(items)
    BY <1>0, <2>1 DEF RootInv, Migrated, HasLegacy
  <2> HIDE DEF items
  <2>4. root' = [events |-> root.events, outbox |-> items, owed |-> root.owed]
    BY <1>0, <2>1 DEF Shaped, items
  <2>5. Shaped'
    BY <1>0, <2>2, <2>4 DEF Shaped, NoFiles
  <2>6. HasLegacy(original.events) => original \in kept
    BY <1>0, <2>1 DEF OriginalInv
  <2>7. OriginalInv'
    BY <1>0, <2>1, <2>6 DEF OriginalInv
  <2>8. RootInv'
    BY <1>0, <2>2, <2>3, <2>4 DEF RootInv, Clean
  <2> QED
    BY <2>5, <2>7, <2>8 DEF ToolsInv
<1> QED
  BY <1>1, <1>2, <1>3, <1>4, <1>5 DEF MigrationStep

\* Backup and restore change neither the root nor what a migration copied.
LEMMA BackupKeeps ==
  ASSUME ToolsInv, NEW held, BackupStep(held) \/ ToolDies, \A p \in Process : Deciding(p)' <=> Deciding(p)
  PROVE  ToolsInv'
<1>0. Shaped /\ UNCHANGED <<root, original, kept>>
  BY DEF ToolsInv, BackupStep, ToolDies, BackupBegins, BackupReads, BackupWrites, ManifestBegins, ManifestWritten,
         RestoreBegins, RestoreEvents, RestoreOutbox
<1> DEFINE Quiet == Shaped' /\ tool'.at \notin {"keep events", "keep outbox", "rename events", "rename outbox"}
<1>1. CASE ToolDies \/ ManifestWritten \/ RestoreOutbox
  <2>1. tool' = [NoTool EXCEPT !.runs = tool.runs]
    BY <1>1 DEF ToolDies, ManifestWritten, RestoreOutbox, Leaves
  <2> QED
    BY <1>0, <2>1, IdleTool DEF Shaped, NoTool, NoFiles
<1>2. CASE BackupBegins(held)
  <2> DEFINE runs == tool.runs + 1
             quiet == ~held
  <2>1. tool' = [tool EXCEPT !.at = "read events", !.runs = runs, !.quiet = quiet]
    BY <1>0, <1>2 DEF BackupBegins, Shaped
  <2> HIDE DEF runs, quiet
  <2> QED
    BY <1>0, <2>1, IdleTool DEF Shaped
<1>3. CASE RestoreBegins
  <2> DEFINE runs == tool.runs + 1
             read == Files(root)
  <2>1. tool' = [tool EXCEPT !.at = "restore events", !.runs = runs, !.read = read]
    BY <1>0, <1>3 DEF RestoreBegins, RunBegins, Shaped
  <2> HIDE DEF runs, read
  <2> QED
    BY <1>0, <2>1, IdleTool DEF Shaped
<1>4. CASE \/ ManifestBegins \/ RestoreEvents \/ BackupWrites("events", "write events", "read outbox")
           \/ BackupWrites("outbox", "write outbox", "manifest")
  <2>1. PICK at \in {"manifest file", "restore outbox", "read outbox", "manifest"} : tool' = [tool EXCEPT !.at = at]
    BY <1>4 DEF ManifestBegins, RestoreEvents, BackupWrites, Goes
  <2> QED
    BY <1>0, <2>1, IdleTool DEF Shaped
<1>5. CASE BackupReads("events", "read events", "write events")
  <2>1. tool' = [tool EXCEPT !.at = "write events", !.copied["events"] = root.events]
    BY <1>5 DEF BackupReads
  <2>2. Shaped' /\ tool'.at = "write events"
    BY <1>0, <2>1 DEF Shaped
  <2> QED
    BY <1>0, <2>2, IdleTool
<1>6. CASE BackupReads("outbox", "read outbox", "write outbox")
  <2>1. tool' = [tool EXCEPT !.at = "write outbox", !.copied["outbox"] = root.outbox]
    BY <1>6 DEF BackupReads
  <2>2. Shaped' /\ tool'.at = "write outbox"
    BY <1>0, <2>1 DEF Shaped
  <2> QED
    BY <1>0, <2>2, IdleTool
<1> QED
  BY <1>1, <1>2, <1>3, <1>4, <1>5, <1>6 DEF BackupStep

\* Steps of the service that leave the files of the root alone.
LEMMA SameFiles ==
  ASSUME ToolsInv, UNCHANGED toolVars \/ RootTaken \/ RootLeft, \A p \in Process : Deciding(p)' => Deciding(p)
  PROVE  ToolsInv'
<1>0. Shaped
  BY DEF ToolsInv
<1>1. CASE UNCHANGED toolVars
  <2>1. Shaped' /\ Files(root)' = Files(root) /\ UNCHANGED <<original, kept, tool>>
    BY <1>0, <1>1 DEF Shaped, Files, toolVars
  <2> QED
    BY <2>1, SameTools
<1>2. CASE RootTaken
  <2>1. tool' = [tool EXCEPT !.quiet = FALSE] /\ UNCHANGED <<root, original, kept>>
    BY <1>2 DEF RootTaken
  <2>2. Shaped' /\ Files(root)' = Files(root)
        /\ tool'.at = tool.at /\ tool'.read = tool.read /\ tool'.copied = tool.copied
    BY <1>0, <2>1 DEF Shaped, Files
  <2> QED
    BY <2>1, <2>2, SameTools
<1>3. CASE RootLeft
  <2>1. root' = [events |-> root.events, outbox |-> root.outbox, owed |-> FALSE] /\ UNCHANGED <<original, kept, tool>>
    BY <1>0, <1>3 DEF RootLeft, Shaped
  <2>2. Shaped' /\ Files(root)' = Files(root)
    BY <1>0, <2>1 DEF Shaped, Files
  <2> QED
    BY <2>1, <2>2, SameTools
<1> QED
  BY <1>1, <1>2, <1>3

\* The invariant of the root is inductive.
LEMMA ToolsStep ==
  ASSUME LockInv, ToolsInv, [Next]_vars
  PROVE  ToolsInv'
<1>1. ASSUME UNCHANGED lifecycleVars PROVE \A q \in Process : Deciding(q)' <=> Deciding(q)
  BY <1>1 DEF Deciding, Life, lifecycleVars
<1>2. CASE UNCHANGED vars
  BY <1>1, <1>2, SameFiles DEF vars
<1>3. ASSUME NEW p \in Process, LifeStep(p) PROVE ToolsInv'
  <2>1. CASE Ready(p)
    BY <2>1, OpenedRoot DEF Ready
  <2>2. CASE ~Ready(p)
    <3>1. \A q \in Process : Deciding(q)' => Deciding(q)
      BY <1>3, <2>2, LifeFrame
    <3>2. UNCHANGED toolVars \/ RootTaken \/ RootLeft
      BY <1>3, <2>2 DEF LifeStep, Starts, Locks, Dies, Drained, Settles, Closed, Idles, toolVars
    <3> QED
      BY <3>1, <3>2, SameFiles
  <2> QED
    BY <2>1, <2>2
<1>4. ASSUME NEW p \in Process, Capture(p) PROVE ToolsInv'
  <2>1. WorkStep(p) /\ UNCHANGED toolVars
    BY <1>4 DEF Capture, CaptureBegins, Recorded, Written, Stopped, Finishes, WorkStep, Idles
  <2> QED
    BY <2>1, WorkFrame, SameFiles
<1>5. ASSUME NEW p \in Process, MemosRequest(p) \/ MemosAnswer(p) \/ Feeds(p) \/ Broadcasts(p) \/ Connects(p) \/ Answers(p)
      PROVE  ToolsInv'
  <2>1. UNCHANGED <<lifecycleVars, toolVars>>
    BY <1>5 DEF MemosRequest, MemosAnswer, Feeds, Broadcasts, Connects, Answers, LiveStep
  <2> QED
    BY <1>1, <2>1, SameFiles
<1>6. ASSUME NEW p \in Process, Appends(p) PROVE ToolsInv'
  BY <1>6, AppendedRoot DEF Appends, ToolStep, Serving, Deciding, LineAppended, ItemAppended
<1>7. CASE Receives \/ Applies \/ Drops \/ Disconnects
  <2>1. UNCHANGED <<lifecycleVars, toolVars>>
    BY <1>7 DEF Receives, Applies, Drops, Disconnects, LiveStep
  <2> QED
    BY <1>1, <2>1, SameFiles
<1>8. CASE Operates
  <2> DEFINE held == endpoint # NoProcess
  <2>1. UNCHANGED lifecycleVars /\ (MigrationStep \/ BackupStep(held) \/ ToolDies)
    BY <1>8 DEF Operates, ToolStep
  <2> HIDE DEF held
  <2> QED
    BY <1>1, <2>1, MigrationKeeps, BackupKeeps
<1> QED
  BY <1>2, <1>3, <1>4, <1>5, <1>6, <1>7, <1>8 DEF Next

\* It holds in every behaviour.
LEMMA ToolsHold == Spec => []ToolsInv
<1>1. Init => LockInv /\ ToolsInv
  BY ProcessesInit, ToolsStart
<1>2. LockInv /\ ToolsInv /\ [Next]_vars => (LockInv /\ ToolsInv)'
  BY LockStepOrNone, ToolsStep
<1> QED
  BY <1>1, <1>2, PTL DEF Spec

\* What the first migration of a root found is never lost, whatever migrations, services
\* and crashes follow (migrateCaptureMode.ts, migrateCaptureModeDataRoot).
THEOREM OriginalAlwaysKept == Spec => []OriginalIsKept
<1>1. ToolsInv => OriginalIsKept
  BY DEF ToolsInv, OriginalInv, OriginalIsKept
<1> QED
  BY <1>1, ToolsHold, PTL

\* The doctor refuses exactly the roots that the service refuses.
LEMMA DoctorIsExact ==
  ASSUME Shaped
  PROVE  DoctorErrors(root) = {} <=> Opens(root)
<1> DEFINE lines == root.events
           items == root.outbox
           n == Len(lines)
<1>1. DOMAIN lines = 1 .. n /\ n \in Nat
  BY DEF Shaped
<1>2. Cardinality(1 .. n) = n
  BY <1>1, FS_Interval
<1>3. ASSUME DoctorErrors(root) = {} PROVE Opens(root)
  <2>1. /\ ValidEvents(root) = DOMAIN lines /\ ValidItems(root) = DOMAIN items
        /\ ValidItems(root) \subseteq ValidEvents(root)
        /\ \A i \in ValidItems(root) \cap ValidEvents(root) : items[i] = lines[i]
    BY <1>3 DEF DoctorErrors
  <2>2. ~HasLegacy(lines) /\ ~HasLegacy(items)
    BY <2>1 DEF ValidEvents, ValidItems, HasLegacy
  <2> QED
    BY <2>1, <2>2 DEF Opens
<1>4. ASSUME Opens(root) PROVE DoctorErrors(root) = {}
  <2>1. ValidEvents(root) = DOMAIN lines /\ ValidItems(root) = DOMAIN items
    BY <1>4 DEF Opens, ValidEvents, ValidItems, HasLegacy
  <2>2. ValidItems(root) \ ValidEvents(root) = {}
        /\ \A i \in ValidItems(root) \cap ValidEvents(root) : items[i] = lines[i]
    BY <1>4, <2>1 DEF Opens
  <2>3. ValidEvents(root) = 1 .. Cardinality(ValidEvents(root))
    BY <1>1, <1>2, <2>1
  <2> QED
    BY <2>1, <2>2, <2>3 DEF DoctorErrors
<1> QED
  BY <1>3, <1>4

\* Wherever a migration dies, the service opens the root or a migration completes it, and
\* the doctor tells which, for any number of old sessions and of runs of the tools
\* (dataDoctor.ts, inspectLocalDataRoot; migrateCaptureMode.ts).
THEOREM RootAlwaysUsable == Spec => []RootIsUsable
<1>1. ToolsInv => RootIsUsable
  BY DoctorIsExact DEF ToolsInv, RootInv, RootIsUsable, MigrationAccepts
<1> QED
  BY <1>1, ToolsHold, PTL


\* A backup of a quiet root holds what the root holds, and a restore copies a backup that
\* nothing changes meanwhile.
EventsCopied == {"write events", "read outbox", "write outbox", "manifest", "manifest file"}
OutboxCopied == {"write outbox", "manifest", "manifest file"}
Restoring == {"restore events", "restore outbox"}

Covered(events, outbox) == DOMAIN outbox \subseteq DOMAIN events

IsManifest(m) == m \in [whole : {m.whole}, of : {m.of}, quiet : {m.quiet}]

BackupInv ==
  /\ backup = [events |-> backup.events, outbox |-> backup.outbox, manifest |-> backup.manifest]
  /\ IsManifest(backup.manifest)
  /\ target = [at |-> target.at, events |-> target.events, outbox |-> target.outbox, quiet |-> target.quiet]
  /\ tool.quiet => endpoint = NoProcess
  /\ tool.quiet /\ tool.at \in EventsCopied => tool.copied.events = root.events
  /\ tool.quiet /\ tool.at \in OutboxCopied => tool.copied.outbox = root.outbox
  /\ backup.manifest.whole /\ backup.manifest.quiet => Covered(backup.manifest.of.events, backup.manifest.of.outbox)
  /\ tool.at \in Restoring => target.at = "partial" /\ Verified /\ (target.quiet => backup.manifest.quiet)
  /\ tool.at = "restore outbox" => target.events = backup.events
  /\ target.at = "restored" /\ target.quiet =>
       target.events.whole /\ target.outbox.whole /\ Covered(target.events.lines, target.outbox.lines)

\* Initially no directory holds anything.
LEMMA BackupStart == Init => BackupInv
<1> SUFFICES ASSUME Init PROVE BackupInv
  OBVIOUS
<1>1. /\ backup = [events |-> NoFile, outbox |-> NoFile,
                   manifest |-> [whole |-> FALSE, of |-> NoFiles, quiet |-> FALSE]]
      /\ target = [at |-> "empty", events |-> NoFile, outbox |-> NoFile, quiet |-> FALSE]
      /\ tool = NoTool
  BY DEF Init, ToolsInit
<1>2. tool.at = "none" /\ ~tool.quiet /\ ~backup.manifest.whole /\ IsManifest(backup.manifest)
  BY <1>1 DEF NoTool, IsManifest
<1> QED
  BY <1>1, <1>2 DEF BackupInv, Restoring

\* The tool goes on where it is; the root may change when it is not quiet.
LEMMA BackupStays ==
  ASSUME BackupInv, UNCHANGED <<backup, target>>, tool'.at = tool.at, tool'.copied = tool.copied,
         tool'.quiet => tool.quiet /\ endpoint' = NoProcess
                        /\ root'.events = root.events /\ root'.outbox = root.outbox
  PROVE  BackupInv'
  BY DEF BackupInv, Verified, ManifestIntact

\* The tool copies nothing.
LEMMA BackupIdles ==
  ASSUME BackupInv, UNCHANGED <<backup, target>>, tool'.at \notin EventsCopied \cup Restoring,
         tool'.quiet => endpoint' = NoProcess
  PROVE  BackupInv'
  BY DEF BackupInv, Verified, ManifestIntact, EventsCopied, OutboxCopied, Restoring

\* While a migration runs no backup does.
LEMMA MigrationIsNoBackup ==
  ASSUME BackupInv, ToolsInv, MigrationStep, UNCHANGED endpoint
  PROVE  BackupInv'
<1>0. Shaped
  BY DEF ToolsInv
<1>1. CASE MigrationBegins
  <2> DEFINE runs == tool.runs + 1
             read == Files(root)
  <2>1. tool' = [tool EXCEPT !.at = "keep events", !.runs = runs, !.read = read] /\ UNCHANGED <<backup, target>>
    BY <1>1 DEF MigrationBegins, RunBegins
  <2> HIDE DEF runs, read
  <2>2. tool'.at = "keep events" /\ tool'.quiet = tool.quiet
    BY <1>0, <2>1 DEF Shaped
  <2> QED
    BY <2>1, <2>2, BackupIdles DEF BackupInv, EventsCopied, Restoring
<1>2. CASE KeepEvents \/ KeepOutbox \/ RenameEvents
  <2>1. PICK at \in {"keep outbox", "rename events", "rename outbox"}, copied \in {tool.copied, [tool.copied EXCEPT !.events = root.events]} :
          tool' = [tool EXCEPT !.at = at, !.copied = copied]
    BY <1>0, <1>2 DEF KeepEvents, KeepOutbox, RenameEvents, Goes, Shaped
  <2>2. tool'.at = at /\ tool'.quiet = tool.quiet
    BY <1>0, <2>1 DEF Shaped
  <2>3. UNCHANGED <<backup, target>>
    BY <1>2 DEF KeepEvents, KeepOutbox, RenameEvents
  <2> QED
    BY <2>2, <2>3, BackupIdles DEF BackupInv, EventsCopied, Restoring
<1>3. CASE RenameOutbox
  <2>1. tool'.at = "none" /\ ~tool'.quiet /\ UNCHANGED <<backup, target>>
    BY <1>3 DEF RenameOutbox, Leaves, NoTool
  <2> QED
    BY <2>1, BackupIdles DEF EventsCopied, Restoring
<1> QED
  BY <1>1, <1>2, <1>3 DEF MigrationStep

\* The steps of a backup and of a restore.
LEMMA BackupStepKeeps ==
  ASSUME BackupInv, ToolsInv, UNCHANGED endpoint, BackupStep(endpoint # NoProcess) \/ ToolDies
  PROVE  BackupInv'
<1>0. Shaped /\ DOMAIN root.outbox \subseteq DOMAIN root.events
  BY DEF ToolsInv, RootInv
<1>1. CASE ToolDies
  <2>1. tool'.at = "none" /\ ~tool'.quiet /\ UNCHANGED <<backup, target>>
    BY <1>1 DEF ToolDies, Leaves, NoTool
  <2> QED
    BY <2>1, BackupIdles DEF EventsCopied, Restoring
<1>2. CASE BackupBegins(endpoint # NoProcess)
  <2> DEFINE runs == tool.runs + 1
             quiet == ~(endpoint # NoProcess)
  <2>1. tool' = [tool EXCEPT !.at = "read events", !.runs = runs, !.quiet = quiet] /\ UNCHANGED <<backup, target>>
    BY <1>2 DEF BackupBegins
  <2>2. quiet => endpoint = NoProcess
    OBVIOUS
  <2> HIDE DEF runs, quiet
  <2>3. tool'.at = "read events" /\ tool'.quiet = quiet
    BY <1>0, <2>1 DEF Shaped
  <2> QED
    BY <2>1, <2>2, <2>3, BackupIdles DEF EventsCopied, Restoring
<1>3. CASE BackupReads("events", "read events", "write events")
  <2>1. tool' = [tool EXCEPT !.at = "write events", !.copied.events = root.events]
        /\ backup' = [backup EXCEPT !.events = NoFile] /\ UNCHANGED <<root, target>>
    BY <1>3 DEF BackupReads
  <2>2. tool'.at = "write events" /\ tool'.quiet = tool.quiet /\ tool'.copied.events = root.events
    BY <1>0, <2>1 DEF Shaped
  <2>3. backup' = [events |-> NoFile, outbox |-> backup.outbox, manifest |-> backup.manifest]
    BY <2>1 DEF BackupInv
  <2> QED
    BY <2>1, <2>2, <2>3 DEF BackupInv, EventsCopied, OutboxCopied, Restoring
<1>4. CASE BackupWrites("events", "write events", "read outbox")
  <2> DEFINE file == FileOf(tool.copied["events"])
  <2>1. tool' = [tool EXCEPT !.at = "read outbox"] /\ tool.at = "write events"
        /\ backup' = [backup EXCEPT !.events = file] /\ UNCHANGED <<root, target>>
    BY <1>4 DEF BackupWrites, Goes
  <2> HIDE DEF file
  <2>2. tool'.at = "read outbox" /\ tool'.quiet = tool.quiet /\ tool'.copied = tool.copied
    BY <1>0, <2>1 DEF Shaped
  <2>3. backup' = [events |-> file, outbox |-> backup.outbox, manifest |-> backup.manifest]
    BY <2>1 DEF BackupInv
  <2> QED
    BY <2>1, <2>2, <2>3 DEF BackupInv, EventsCopied, OutboxCopied, Restoring
<1>5. CASE BackupReads("outbox", "read outbox", "write outbox")
  <2>1. tool' = [tool EXCEPT !.at = "write outbox", !.copied.outbox = root.outbox] /\ tool.at = "read outbox"
        /\ backup' = [backup EXCEPT !.outbox = NoFile] /\ UNCHANGED <<root, target>>
    BY <1>5 DEF BackupReads
  <2>2. tool'.at = "write outbox" /\ tool'.quiet = tool.quiet /\ tool'.copied.outbox = root.outbox
        /\ tool'.copied.events = tool.copied.events
    BY <1>0, <2>1 DEF Shaped
  <2>3. backup' = [events |-> backup.events, outbox |-> NoFile, manifest |-> backup.manifest]
    BY <2>1 DEF BackupInv
  <2> QED
    BY <2>1, <2>2, <2>3 DEF BackupInv, EventsCopied, OutboxCopied, Restoring
<1>6. CASE BackupWrites("outbox", "write outbox", "manifest")
  <2> DEFINE file == FileOf(tool.copied["outbox"])
  <2>1. tool' = [tool EXCEPT !.at = "manifest"] /\ tool.at = "write outbox"
        /\ backup' = [backup EXCEPT !.outbox = file] /\ UNCHANGED <<root, target>>
    BY <1>6 DEF BackupWrites, Goes
  <2> HIDE DEF file
  <2>2. tool'.at = "manifest" /\ tool'.quiet = tool.quiet /\ tool'.copied = tool.copied
    BY <1>0, <2>1 DEF Shaped
  <2>3. backup' = [events |-> backup.events, outbox |-> file, manifest |-> backup.manifest]
    BY <2>1 DEF BackupInv
  <2> QED
    BY <2>1, <2>2, <2>3 DEF BackupInv, EventsCopied, OutboxCopied, Restoring
<1>7. CASE ManifestBegins
  <2> DEFINE m == [backup.manifest EXCEPT !.whole = FALSE]
  <2>1. tool' = [tool EXCEPT !.at = "manifest file"] /\ tool.at = "manifest"
        /\ backup' = [backup EXCEPT !.manifest = m] /\ UNCHANGED <<root, target>>
    BY <1>7 DEF ManifestBegins, Goes
  <2>2. ~m.whole /\ IsManifest(m)
    BY DEF BackupInv, IsManifest
  <2> HIDE DEF m
  <2>3. tool'.at = "manifest file" /\ tool'.quiet = tool.quiet /\ tool'.copied = tool.copied
    BY <1>0, <2>1 DEF Shaped
  <2>4. backup' = [events |-> backup.events, outbox |-> backup.outbox, manifest |-> m]
    BY <2>1 DEF BackupInv
  <2> QED
    BY <2>1, <2>2, <2>3, <2>4 DEF BackupInv, EventsCopied, OutboxCopied, Restoring
<1>8. CASE ManifestWritten
  <2> DEFINE m == [whole |-> TRUE, of |-> tool.copied, quiet |-> tool.quiet]
  <2>1. tool.at = "manifest file" /\ backup' = [backup EXCEPT !.manifest = m] /\ UNCHANGED <<root, target>>
    BY <1>8 DEF ManifestWritten
  <2>2. tool'.at = "none" /\ ~tool'.quiet
    BY <1>8 DEF ManifestWritten, Leaves, NoTool
  <2>3. backup' = [events |-> backup.events, outbox |-> backup.outbox, manifest |-> m]
    BY <2>1 DEF BackupInv
  <2>4. tool.quiet => Covered(tool.copied.events, tool.copied.outbox)
    BY <1>0, <2>1 DEF BackupInv, EventsCopied, OutboxCopied, Covered
  <2>5. m.of = tool.copied /\ (m.quiet => tool.quiet)
    OBVIOUS
  <2>6. IsManifest(m)
    BY DEF IsManifest
  <2> HIDE DEF m
  <2> QED
    BY <2>1, <2>2, <2>3, <2>4, <2>5, <2>6 DEF BackupInv, EventsCopied, OutboxCopied, Restoring
<1>9. CASE RestoreBegins
  <2> DEFINE runs == tool.runs + 1
             read == Files(root)
             quiet == backup.manifest.quiet
  <2>1. tool' = [tool EXCEPT !.at = "restore events", !.runs = runs, !.read = read]
        /\ target' = [target EXCEPT !.at = "partial", !.quiet = quiet] /\ Verified /\ UNCHANGED <<root, backup>>
    BY <1>9 DEF RestoreBegins, RunBegins
  <2>2. quiet => backup.manifest.quiet
    OBVIOUS
  <2> HIDE DEF runs, read, quiet
  <2>3. tool'.at = "restore events" /\ tool'.quiet = tool.quiet
    BY <1>0, <2>1 DEF Shaped
  <2>4. target' = [at |-> "partial", events |-> target.events, outbox |-> target.outbox, quiet |-> quiet]
    BY <2>1 DEF BackupInv
  <2>5. Verified'
    BY <2>1 DEF Verified, ManifestIntact
  <2> QED
    BY <2>1, <2>2, <2>3, <2>4, <2>5 DEF BackupInv, EventsCopied, OutboxCopied
<1>10. CASE RestoreEvents
  <2>1. tool' = [tool EXCEPT !.at = "restore outbox"] /\ tool.at = "restore events"
        /\ target' = [target EXCEPT !.events = backup.events] /\ UNCHANGED <<root, backup>>
    BY <1>10 DEF RestoreEvents, Goes
  <2>2. tool'.at = "restore outbox" /\ tool'.quiet = tool.quiet
    BY <1>0, <2>1 DEF Shaped
  <2>3. target' = [at |-> target.at, events |-> backup.events, outbox |-> target.outbox, quiet |-> target.quiet]
    BY <2>1 DEF BackupInv
  <2>4. Verified /\ Verified' /\ (target.quiet => backup.manifest.quiet)
    BY <2>1 DEF BackupInv, Restoring, Verified, ManifestIntact
  <2>5. target.quiet => Covered(backup.manifest.of.events, backup.manifest.of.outbox)
    BY <2>4 DEF BackupInv, Verified, ManifestIntact
  <2>6. backup.events = FileOf(backup.manifest.of.events) /\ backup.outbox = FileOf(backup.manifest.of.outbox)
    BY <2>4 DEF Verified
  <2>7. target.at = "partial"
    BY <2>1 DEF BackupInv, Restoring
  <2> QED
    BY <2>1, <2>2, <2>3, <2>4, <2>5, <2>7 DEF BackupInv, EventsCopied, OutboxCopied
<1>11. CASE RestoreOutbox
  <2>1. tool.at = "restore outbox" /\ UNCHANGED <<root, backup>>
        /\ target' = [target EXCEPT !.outbox = backup.outbox, !.at = "restored"]
    BY <1>11 DEF RestoreOutbox
  <2>2. tool'.at = "none" /\ ~tool'.quiet
    BY <1>11 DEF RestoreOutbox, Leaves, NoTool
  <2>3. target' = [at |-> "restored", events |-> target.events, outbox |-> backup.outbox, quiet |-> target.quiet]
    BY <2>1 DEF BackupInv
  <2>4. Verified /\ (target.quiet => backup.manifest.quiet) /\ target.events = backup.events
    BY <2>1 DEF BackupInv, Restoring
  <2>5. target.quiet => Covered(backup.manifest.of.events, backup.manifest.of.outbox)
    BY <2>4 DEF BackupInv, Verified, ManifestIntact
  <2>6. target.events = FileOf(backup.manifest.of.events) /\ backup.outbox = FileOf(backup.manifest.of.outbox)
    BY <2>4 DEF Verified
  <2>7. /\ target.events.whole /\ target.events.lines = backup.manifest.of.events
        /\ backup.outbox.whole /\ backup.outbox.lines = backup.manifest.of.outbox
    BY <2>6 DEF FileOf
  <2> QED
    BY <2>1, <2>2, <2>3, <2>5, <2>7 DEF BackupInv, EventsCopied, OutboxCopied, Restoring
<1> QED
  BY <1>1, <1>2, <1>3, <1>4, <1>5, <1>6, <1>7, <1>8, <1>9, <1>10, <1>11 DEF BackupStep

\* A process that serves, or opens the root, holds the lock: the root is not quiet.
LEMMA HeldIsNotQuiet ==
  ASSUME LockInv, BackupInv, NEW p \in Process, Life(p) \in Owning
  PROVE  ~tool.quiet
  BY ProcessAssumption DEF LockInv, OwnersHold, BackupInv

\* The invariant of the backups is inductive.
LEMMA BackupStepOrNone ==
  ASSUME LockInv, ToolsInv, BackupInv, [Next]_vars
  PROVE  BackupInv'
<1>0. Shaped
  BY DEF ToolsInv
<1>1. ASSUME UNCHANGED toolVars, endpoint = NoProcess => endpoint' = NoProcess PROVE BackupInv'
  BY <1>1, BackupStays DEF toolVars, BackupInv
<1>2. CASE UNCHANGED vars
  BY <1>1, <1>2 DEF vars, lifecycleVars
<1>3. ASSUME NEW p \in Process, LifeStep(p) PROVE BackupInv'
  <2>1. CASE LockAcquired(p) /\ RootTaken
    <3>1. tool' = [tool EXCEPT !.quiet = FALSE] /\ UNCHANGED <<root, backup, target>>
      BY <2>1 DEF RootTaken
    <3>2. tool'.at = tool.at /\ tool'.copied = tool.copied /\ ~tool'.quiet
      BY <1>0, <3>1 DEF Shaped
    <3> QED
      BY <3>1, <3>2, BackupStays
  <2>2. CASE Ready(p)
    <3>1. ~tool.quiet /\ UNCHANGED <<tool, backup, target>>
      BY <2>2, HeldIsNotQuiet DEF Ready, InitSucceeds, RootOpened, Owning
    <3> QED
      BY <3>1, BackupStays
  <2>3. CASE Dies(p) /\ RootLeft
    <3>1. root' = [root EXCEPT !.owed = FALSE] /\ UNCHANGED <<tool, backup, target>>
      BY <2>3 DEF RootLeft
    <3>2. root'.events = root.events /\ root'.outbox = root.outbox
      BY <1>0, <3>1 DEF Shaped
    <3>3. endpoint = NoProcess => endpoint' = NoProcess
      BY <2>3, ProcessAssumption DEF Dies, Crash
    <3> QED
      BY <3>1, <3>2, <3>3, BackupStays DEF BackupInv
  <2>4. CASE UNCHANGED toolVars /\ ~LockAcquired(p) /\ ~Ready(p)
    <3>1. endpoint = NoProcess => endpoint' = NoProcess
      BY <1>3, <2>4 DEF LifeStep, Starts, Locks, Dies, Drained, Settles, Closed, StartProcess, LockRefused, Close,
         InitFails, Unlocked, Crash, RequestsDrained, AdaptersStopped, SyncsSettled, TransitionsSettled, StopsDrained,
         TailsSettled, Released, GoesTo
    <3> QED
      BY <1>1, <2>4, <3>1
  <2>5. CASE Starts(p) \/ Drained(p) \/ Settles(p) \/ Closed(p)
    <3>1. UNCHANGED toolVars /\ ~LockAcquired(p)
      <4>1. UNCHANGED toolVars
        BY <2>5 DEF Starts, Drained, Settles, Closed, Idles
      <4>2. Life(p) # "locking"
        BY <2>5 DEF Starts, Drained, Settles, Closed, StartProcess, RequestsDrained, AdaptersStopped, SyncsSettled,
           TransitionsSettled, StopsDrained, TailsSettled, Released, Passes, Awaited
      <4> QED
        BY <4>1, <4>2 DEF LockAcquired
    <3> QED
      BY <2>2, <2>4, <3>1
  <2>6. CASE Locks(p)
    <3>1. CASE LockAcquired(p)
      <4>1. ~LockRefused(p) /\ ~InitFails(p) /\ (Close(p) => UNCHANGED endpoint) /\ endpoint' # endpoint
        BY <3>1, ProcessAssumption DEF LockAcquired, LockRefused, InitFails, Close
      <4> QED
        BY <2>1, <2>6, <4>1 DEF Locks
    <3>2. CASE ~LockAcquired(p)
      BY <2>2, <2>4, <2>6, <3>2 DEF Locks, Idles
    <3> QED
      BY <3>1, <3>2
  <2>7. CASE Dies(p)
    <3>1. ~LockAcquired(p)
      <4>1. endpoint' # p
        BY <2>7, ProcessAssumption DEF Dies, Crash
      <4> QED
        BY <4>1 DEF LockAcquired
    <3> QED
      BY <2>2, <2>3, <2>4, <2>7, <3>1 DEF Dies
  <2> QED
    BY <1>3, <2>2, <2>5, <2>6, <2>7 DEF LifeStep
<1>4. ASSUME NEW p \in Process, Capture(p) PROVE BackupInv'
  <2>1. WorkStep(p) /\ UNCHANGED toolVars
    BY <1>4 DEF Capture, CaptureBegins, Recorded, Written, Stopped, Finishes, WorkStep, Idles
  <2>2. UNCHANGED endpoint
    BY <2>1 DEF WorkStep, RequestArrives, RequestAttaches, RequestDetaches, RuntimeTransition, RuntimeFailure,
       RuntimeExit, TranslationAnswered, SyncStarts, ExitRecorded, WriteEnds, RuntimeStopped, WriteBegins, WorkEnds
  <2> QED
    BY <1>1, <2>1, <2>2
<1>5. ASSUME NEW p \in Process, MemosRequest(p) \/ MemosAnswer(p) \/ Feeds(p) \/ Broadcasts(p) \/ Connects(p) \/ Answers(p)
      PROVE  BackupInv'
  <2>1. UNCHANGED <<lifecycleVars, toolVars>>
    BY <1>5 DEF MemosRequest, MemosAnswer, Feeds, Broadcasts, Connects, Answers, LiveStep
  <2> QED
    BY <1>1, <2>1 DEF lifecycleVars
<1>6. ASSUME NEW p \in Process, Appends(p) PROVE BackupInv'
  <2>1. ~tool.quiet
    BY <1>6, HeldIsNotQuiet DEF Appends, Serving, Owning
  <2>2. UNCHANGED <<tool, backup, target>>
    BY <1>6 DEF Appends, LineAppended, ItemAppended
  <2> QED
    BY <2>1, <2>2, BackupStays
<1>7. CASE Receives \/ Applies \/ Drops \/ Disconnects
  <2>1. UNCHANGED <<lifecycleVars, toolVars>>
    BY <1>7 DEF Receives, Applies, Drops, Disconnects, LiveStep
  <2> QED
    BY <1>1, <2>1 DEF lifecycleVars
<1>8. CASE Operates
  BY <1>8, MigrationIsNoBackup, BackupStepKeeps DEF Operates, ToolStep, lifecycleVars
<1> QED
  BY <1>2, <1>3, <1>4, <1>5, <1>6, <1>7, <1>8 DEF Next

\* A backup that verifies restores to a root that the service opens or the migration
\* accepts, if nobody held the root while it was made, however many runs of the tools
\* died over its directory (dataBackup.ts, createDataBackup, restoreDataBackup).
THEOREM VerifiedBackupAlwaysStarts == Spec => []VerifiedBackupStarts
<1>1. BackupInv => VerifiedBackupStarts
  BY DEF BackupInv, VerifiedBackupStarts, MigrationAccepts, Restored, Covered
<1>2. Init => LockInv /\ ToolsInv /\ BackupInv
  BY ProcessesInit, ToolsStart, BackupStart
<1>3. LockInv /\ ToolsInv /\ BackupInv /\ [Next]_vars => (LockInv /\ ToolsInv /\ BackupInv)'
  BY LockStepOrNone, ToolsStep, BackupStepOrNone
<1> QED
  BY <1>1, <1>2, <1>3, PTL DEF Spec

-----------------------------------------------------------------------------
(* The page.                                                               *)

Preview == [stream : Nat, revision : Nat]

FeedRecord ==
  [cursor : Nat, unsent : BOOLEAN, ended : SUBSET Nat, preview : Preview, kind : {"none", "local-asr", "system-captions"},
   stream : Nat, revision : Nat, streams : Nat]

\* What is sent or answered while the log has c events names none after them.
Messages(c) == [kind : {"hello", "event", "upsert", "clear"}, cursor : 0 .. c, preview : Preview]
Answered(c) ==
  [at : {"idle", "asked", "answered"}, force : BOOLEAN, by : Process \cup {Nobody}, cursor : 0 .. c]

PageRecord ==
  [open : BOOLEAN, instance : Process \cup {Nobody}, last : Nat, applied : SUBSET Nat, back : BOOLEAN,
   preview : Preview, revisions : [Streams -> Nat]]

IsPage(pg) == pg \in PageRecord /\ pg.applied = 1 .. pg.last

IsConn(c) == c = [by |-> c.by, queue |-> c.queue, drops |-> c.drops] /\ c.by \in Process \cup {Nobody}

PageInv ==
  /\ feed \in FeedRecord
  /\ IsConn(conn) /\ conn.queue \in Seq(Messages(feed.cursor))
  /\ refresh \in [Refreshes -> Answered(feed.cursor)]
  /\ IsPage(page) /\ page.last <= feed.cursor

\* Initially the page holds nothing and nothing was sent.
LEMMA PageStart == Init => PageInv
<1> SUFFICES ASSUME Init PROVE PageInv
  OBVIOUS
<1>1. LiveInit
  BY DEF Init
<1>2. feed \in FeedRecord /\ feed.cursor = 0
  BY <1>1 DEF LiveInit, FeedRecord, Preview, NoPreview
<1>3. IsConn(conn) /\ conn.queue \in Seq(Messages(0))
  BY <1>1 DEF LiveInit, IsConn
<1>4. Idle \in Answered(0)
  BY DEF Idle, Answered
<1>5. refresh \in [Refreshes -> Answered(0)]
  BY <1>1, <1>4 DEF LiveInit
<1>6. IsPage(page) /\ page.last = 0
  <2> DEFINE revisions == [i \in Streams |-> 0]
             none == {}
  <2>1. page = [open |-> FALSE, instance |-> Nobody, last |-> 0, applied |-> none, back |-> FALSE,
                preview |-> NoPreview, revisions |-> revisions]
    BY <1>1 DEF LiveInit
  <2>2. none = 1 .. 0
    OBVIOUS
  <2>3. revisions \in [Streams -> Nat] /\ none \in SUBSET Nat /\ NoPreview \in Preview
    BY DEF NoPreview, Preview
  <2> HIDE DEF revisions, none
  <2> QED
    BY <2>1, <2>2, <2>3 DEF IsPage, PageRecord
<1> QED
  BY <1>2, <1>3, <1>5, <1>6 DEF PageInv

\* A longer log forbids nothing.
LEMMA LongerLog ==
  ASSUME NEW c \in Nat, NEW d \in Nat, c <= d, NEW q \in Seq(Messages(c)), NEW r \in [Refreshes -> Answered(c)]
  PROVE  q \in Seq(Messages(d)) /\ r \in [Refreshes -> Answered(d)]
<1>1. Messages(c) \subseteq Messages(d) /\ Answered(c) \subseteq Answered(d)
  BY DEF Messages, Answered
<1>2. q \in Seq(Messages(d))
  BY <1>1
<1>3. r \in [Refreshes -> Answered(d)]
  BY <1>1
<1> QED
  BY <1>2, <1>3

\* The service changes what it holds, and may send a message.
LEMMA ServiceStep ==
  ASSUME PageInv, NEW f \in FeedRecord, feed' = f, f.cursor >= feed.cursor, UNCHANGED <<page, refresh>>,
         UNCHANGED conn \/ \E p \in Process, m \in Messages(f.cursor) : Sent(p, m)
  PROVE  PageInv'
<1>0. f.cursor \in Nat /\ feed.cursor \in Nat /\ page.last \in Nat
  BY DEF PageInv, FeedRecord, IsPage, PageRecord
<1>1. conn.queue \in Seq(Messages(f.cursor)) /\ refresh \in [Refreshes -> Answered(f.cursor)]
  BY <1>0, LongerLog DEF PageInv
<1>2. IsConn(conn') /\ conn'.queue \in Seq(Messages(f.cursor))
  <2>1. CASE UNCHANGED conn
    BY <1>1, <2>1 DEF PageInv
  <2>2. ASSUME NEW p \in Process, NEW m \in Messages(f.cursor), Sent(p, m)
        PROVE  IsConn(conn') /\ conn'.queue \in Seq(Messages(f.cursor))
    <3> DEFINE q == Append(conn.queue, m)
    <3>1. q \in Seq(Messages(f.cursor))
      BY <1>1
    <3>2. conn' = conn \/ conn' = [conn EXCEPT !.queue = q]
      BY <2>2 DEF Sent
    <3> HIDE DEF q
    <3> QED
      BY <1>1, <3>1, <3>2 DEF PageInv, IsConn
  <2> QED
    BY <2>1, <2>2
<1>3. page'.last <= f.cursor
  BY <1>0 DEF PageInv
<1> QED
  BY <1>1, <1>2, <1>3 DEF PageInv

\* What the service holds stays.
LEMMA PageSideStep ==
  ASSUME PageInv, UNCHANGED feed, IsConn(conn'), conn'.queue \in Seq(Messages(feed.cursor)),
         refresh' \in [Refreshes -> Answered(feed.cursor)], IsPage(page'), page'.last <= feed.cursor
  PROVE  PageInv'
  BY DEF PageInv

\* What the service does, with what it sends.
LEMMA FeedKeepsPage ==
  ASSUME PageInv, NEW p \in Process, NEW c \in BOOLEAN,
         \/ EventStored(c) \/ EventBroadcast(p, c) \/ CaptionerAttached \/ PreviewPublished(p) \/ PreviewWithdrawn(p)
         \/ TranscriptDone(p) \/ HelperReconnects(p) \/ CaptionerDetached(p) \/ FeedLost
  PROVE  PageInv'
<1>0. feed \in FeedRecord /\ NoPreview \in Preview /\ feed.cursor \in Nat /\ feed.preview \in Preview
      /\ feed.stream \in Nat /\ feed.revision \in Nat /\ feed.streams \in Nat
  BY DEF PageInv, FeedRecord, NoPreview, Preview
<1>1. ASSUME NEW f, f \in FeedRecord, f.cursor = feed.cursor, ClearedWith(p, f), UNCHANGED <<page, refresh>>
      PROVE  PageInv'
  <2>1. CASE feed.preview.stream # feed.stream
    BY <1>0, <1>1, <2>1, ServiceStep DEF ClearedWith
  <2>2. CASE feed.preview.stream = feed.stream
    <3> DEFINE revision == feed.preview.revision + 1
               rev == IF feed.kind = "local-asr" /\ revision > f.revision THEN revision ELSE f.revision
               g == [f EXCEPT !.preview = NoPreview, !.revision = rev]
               m == Message("clear", 0, [stream |-> feed.stream, revision |-> revision])
    <3>1. revision \in Nat
      BY <1>0 DEF Preview
    <3>2. feed' = g /\ Sent(p, m)
      BY <2>2, <1>1 DEF ClearedWith
    <3>3. rev \in Nat
      BY <1>1, <3>1 DEF FeedRecord
    <3>4. [stream |-> feed.stream, revision |-> revision] \in Preview
      BY <1>0, <3>1 DEF Preview
    <3> HIDE DEF revision, rev
    <3>5. g \in FeedRecord /\ g.cursor = feed.cursor
      BY <1>0, <1>1, <3>3 DEF FeedRecord
    <3>6. m \in Messages(feed.cursor)
      BY <1>0, <3>4 DEF Message, Messages
    <3> HIDE DEF g, m
    <3> QED
      BY <1>0, <1>1, <3>2, <3>5, <3>6, ServiceStep
  <2> QED
    BY <2>1, <2>2
<1>2. CASE EventStored(c)
  <2> DEFINE n == feed.cursor + 1
             ended == IF c THEN feed.ended \cup {n} ELSE feed.ended
             f == [feed EXCEPT !.cursor = n, !.unsent = TRUE, !.ended = ended]
  <2>1. n \in Nat /\ n >= feed.cursor /\ feed' = f /\ UNCHANGED <<conn, page, refresh>>
    BY <1>0, <1>2 DEF EventStored
  <2>3. ended \in SUBSET Nat
    BY <1>0, <2>1 DEF FeedRecord
  <2> HIDE DEF n, ended
  <2>2. f \in FeedRecord /\ f.cursor = n
    BY <1>0, <2>1, <2>3 DEF FeedRecord
  <2> HIDE DEF f
  <2> QED
    BY <2>1, <2>2, ServiceStep
<1>3. CASE EventBroadcast(p, c)
  <2> DEFINE f == [feed EXCEPT !.unsent = FALSE]
             m == Message("event", feed.cursor, NoPreview)
  <2>1. feed' = f /\ (UNCHANGED conn \/ Sent(p, m)) /\ UNCHANGED <<page, refresh>>
    BY <1>3 DEF EventBroadcast
  <2>2. f \in FeedRecord /\ f.cursor = feed.cursor
    BY <1>0 DEF FeedRecord
  <2>3. m \in Messages(feed.cursor)
    BY <1>0 DEF Message, Messages
  <2> HIDE DEF f, m
  <2> QED
    BY <1>0, <2>1, <2>2, <2>3, ServiceStep
<1>4. CASE CaptionerAttached
  <2>1. PICK kind \in {"local-asr", "system-captions"} :
          feed' = [feed EXCEPT !.kind = kind, !.streams = @ + 1, !.stream = feed.streams + 1, !.revision = 0]
    BY <1>4 DEF CaptionerAttached
  <2> DEFINE n == feed.streams + 1
             f == [feed EXCEPT !.kind = kind, !.streams = n, !.stream = n, !.revision = 0]
  <2>2. n \in Nat /\ feed' = f /\ UNCHANGED <<conn, page, refresh>>
    BY <1>0, <1>4, <2>1 DEF CaptionerAttached
  <2> HIDE DEF n
  <2>3. f \in FeedRecord /\ f.cursor = feed.cursor
    BY <1>0, <2>2 DEF FeedRecord
  <2> HIDE DEF f
  <2> QED
    BY <1>0, <2>2, <2>3, ServiceStep
<1>5. CASE PreviewPublished(p) \/ PreviewWithdrawn(p)
  <2> DEFINE n == feed.revision + 1
             preview == [stream |-> feed.stream, revision |-> n]
             held == IF feed.preview.stream = feed.stream THEN NoPreview ELSE feed.preview
  <2>1. n \in Nat /\ UNCHANGED <<page, refresh>>
    BY <1>0, <1>5 DEF PreviewPublished, PreviewWithdrawn
  <2>2. preview \in Preview /\ held \in Preview
    BY <1>0, <2>1 DEF Preview
  <2>3. PICK k \in {"upsert", "clear"}, v \in {preview, held} :
          feed' = [feed EXCEPT !.revision = n, !.preview = v] /\ Sent(p, Message(k, 0, preview))
    BY <1>5 DEF PreviewPublished, PreviewWithdrawn
  <2> HIDE DEF n, preview, held
  <2> DEFINE f == [feed EXCEPT !.revision = n, !.preview = v]
             m == Message(k, 0, preview)
  <2>4. f \in FeedRecord /\ f.cursor = feed.cursor
    BY <1>0, <2>1, <2>2, <2>3 DEF FeedRecord
  <2>5. m \in Messages(feed.cursor)
    BY <1>0, <2>2 DEF Message, Messages
  <2>6. feed' = f /\ Sent(p, m)
    BY <2>3
  <2> HIDE DEF f, m
  <2> QED
    BY <1>0, <2>1, <2>4, <2>5, <2>6, ServiceStep
<1>6. CASE TranscriptDone(p)
  <2>1. ClearedWith(p, feed) /\ UNCHANGED <<page, refresh>> /\ feed \in FeedRecord
    BY <1>0, <1>6 DEF TranscriptDone
  <2> QED
    BY <1>1, <2>1
<1>7. CASE HelperReconnects(p)
  <2> DEFINE n == feed.streams + 1
             f == [feed EXCEPT !.streams = n, !.stream = n]
  <2>1. n \in Nat /\ ClearedWith(p, f) /\ UNCHANGED <<page, refresh>>
    BY <1>0, <1>7 DEF HelperReconnects
  <2> HIDE DEF n
  <2>2. f \in FeedRecord /\ f.cursor = feed.cursor
    BY <1>0, <2>1 DEF FeedRecord
  <2> HIDE DEF f
  <2> QED
    BY <1>1, <2>1, <2>2
<1>8. CASE CaptionerDetached(p)
  <2> DEFINE f == [feed EXCEPT !.stream = 0, !.kind = "none"]
  <2>1. ClearedWith(p, f) /\ UNCHANGED <<page, refresh>>
    BY <1>8 DEF CaptionerDetached
  <2>2. f \in FeedRecord /\ f.cursor = feed.cursor
    BY <1>0 DEF FeedRecord
  <2> HIDE DEF f
  <2> QED
    BY <1>1, <2>1, <2>2
<1>9. CASE FeedLost
  <2> DEFINE f == [feed EXCEPT !.unsent = FALSE, !.preview = NoPreview, !.stream = 0, !.kind = "none"]
  <2>1. feed' = f /\ UNCHANGED <<conn, page, refresh>>
    BY <1>9 DEF FeedLost
  <2>2. f \in FeedRecord /\ f.cursor = feed.cursor
    BY <1>0 DEF FeedRecord
  <2> HIDE DEF f
  <2> QED
    BY <1>0, <2>1, <2>2, ServiceStep
<1> QED
  BY <1>2, <1>3, <1>4, <1>5, <1>6, <1>7, <1>8, <1>9

\* The changes of a page.
LEMMA PageChanges ==
  ASSUME NEW pg, IsPage(pg)
  PROVE  /\ IsPage(NoCaption(pg)) /\ NoCaption(pg).last = pg.last
         /\ \A p \in Process \cup {Nobody} : IsPage(Adopted(pg, p)) /\ Adopted(pg, p).last = pg.last
         /\ \A c \in Nat, b \in BOOLEAN : IsPage(Shows(pg, 1 .. c, c, b)) /\ Shows(pg, 1 .. c, c, b).last = c
<1> DEFINE revisions == [i \in Streams |-> 0]
           blank == [pg EXCEPT !.preview = NoPreview, !.revisions = revisions]
<1>1. NoCaption(pg) = blank
  BY DEF NoCaption
<1> HIDE DEF revisions
<1>2. IsPage(blank) /\ blank.last = pg.last
  <2>1. revisions \in [Streams -> Nat] /\ NoPreview \in Preview
    BY DEF NoPreview, Preview, revisions
  <2> QED
    BY <2>1 DEF IsPage, PageRecord
<1>3. ASSUME NEW p \in Process \cup {Nobody} PROVE IsPage(Adopted(pg, p)) /\ Adopted(pg, p).last = pg.last
  <2> DEFINE base == IF InstanceChanged(p) THEN NoCaption(pg) ELSE pg
  <2>1. Adopted(pg, p) = [base EXCEPT !.instance = p]
    BY DEF Adopted
  <2>2. IsPage(base) /\ base.last = pg.last
    BY <1>1, <1>2
  <2> HIDE DEF base
  <2> QED
    BY <2>1, <2>2 DEF IsPage, PageRecord
<1>4. ASSUME NEW c \in Nat, NEW b \in BOOLEAN
      PROVE  IsPage(Shows(pg, 1 .. c, c, b)) /\ Shows(pg, 1 .. c, c, b).last = c
  <2> DEFINE seen == 1 .. c
  <2>1. Shows(pg, seen, c, b) = [pg EXCEPT !.applied = seen, !.last = c, !.back = b]
    BY DEF Shows
  <2>2. seen = 1 .. c /\ seen \in SUBSET Nat
    OBVIOUS
  <2> HIDE DEF seen
  <2>3. IsPage(Shows(pg, seen, c, b)) /\ Shows(pg, seen, c, b).last = c
    BY <2>1, <2>2 DEF IsPage, PageRecord
  <2> QED
    BY <2>2, <2>3
<1> QED
  BY <1>1, <1>2, <1>3, <1>4

\* A page that asks for the state.
LEMMA AsksTyped ==
  ASSUME NEW c \in Nat, refresh \in [Refreshes -> Answered(c)], NEW p \in Process \cup {Nobody},
         NEW force \in BOOLEAN, Asks(p, force)
  PROVE  refresh' \in [Refreshes -> Answered(c)]
<1> DEFINE r == [Idle EXCEPT !.at = "asked", !.force = force, !.by = p]
<1>1. PICK i \in Refreshes : refresh' = [refresh EXCEPT ![i] = r]
  BY DEF Asks
<1>2. Idle \in Answered(c)
  BY DEF Idle, Answered
<1>3. r \in Answered(c)
  BY <1>2 DEF Answered
<1> HIDE DEF r
<1> QED
  BY <1>1, <1>3

\* What a page does with its stream.
LEMMA PageStepKeepsPage ==
  ASSUME PageInv, NEW p \in Process \cup {Nobody},
         OpenPage(p) \/ Reconnect(p) \/ Drop(FALSE) \/ Drop(TRUE) \/ ReceiveHello \/ ReceiveEvent \/ ReceivePreview
  PROVE  PageInv'
<1> DEFINE c == feed.cursor
<1>0. c \in Nat /\ IsPage(page) /\ page.last <= c /\ refresh \in [Refreshes -> Answered(c)]
      /\ IsConn(conn) /\ conn.queue \in Seq(Messages(c)) /\ feed.preview \in Preview /\ page.last \in Nat
      /\ conn.by \in Process \cup {Nobody} /\ page \in PageRecord /\ page.applied = 1 .. page.last
  BY DEF PageInv, FeedRecord, IsPage, IsConn, PageRecord
<1> HIDE DEF c
<1>a. ASSUME UNCHANGED feed, IsConn(conn'), conn'.queue \in Seq(Messages(c)), refresh' \in [Refreshes -> Answered(c)],
             IsPage(page'), page'.last <= c
      PROVE  PageInv'
  BY <1>a, PageSideStep DEF c
<1>1. StreamOf(p) \in Seq(Messages(c))
  <2>1. Message("hello", c, NoPreview) \in Messages(c) /\ Message("upsert", 0, feed.preview) \in Messages(c)
    BY <1>0 DEF Message, Messages, NoPreview, Preview
  <2> DEFINE hello == Message("hello", c, NoPreview)
             upsert == Message("upsert", 0, feed.preview)
  <2> HIDE DEF hello, upsert
  <2>2. <<hello>> \in Seq(Messages(c)) /\ <<upsert>> \in Seq(Messages(c)) /\ <<>> \in Seq(Messages(c))
    BY <2>1 DEF hello, upsert
  <2>3. <<hello>> \o <<upsert>> \in Seq(Messages(c)) /\ <<hello>> \o <<>> \in Seq(Messages(c))
    BY <2>2
  <2> QED
    BY <2>3 DEF StreamOf, hello, upsert, c
<1>2. CASE OpenPage(p)
  <2> DEFINE q == StreamOf(p)
  <2>1. page' = [page EXCEPT !.open = TRUE] /\ conn' = [conn EXCEPT !.by = p, !.queue = q] /\ Asks(p, FALSE)
        /\ UNCHANGED feed
    BY <1>2 DEF OpenPage
  <2> HIDE DEF q
  <2>2. IsConn(conn') /\ conn'.queue = q
    BY <1>0, <2>1 DEF IsConn
  <2>3. IsPage(page') /\ page'.last = page.last
    BY <1>0, <2>1 DEF IsPage, PageRecord
  <2>4. refresh' \in [Refreshes -> Answered(c)]
    BY <1>0, <2>1, AsksTyped
  <2> QED
    BY <1>0, <1>1, <1>a, <2>1, <2>2, <2>3, <2>4 DEF q
<1>3. CASE Reconnect(p)
  <2> DEFINE q == StreamOf(p)
  <2>1. conn' = [conn EXCEPT !.by = p, !.queue = q] /\ UNCHANGED <<feed, page, refresh>>
    BY <1>3 DEF Reconnect
  <2> HIDE DEF q
  <2>2. IsConn(conn') /\ conn'.queue = q
    BY <1>0, <2>1 DEF IsConn
  <2> QED
    BY <1>0, <1>1, <1>a, <2>1, <2>2 DEF q
<1>4. ASSUME NEW gone \in BOOLEAN, Drop(gone) PROVE PageInv'
  <2> DEFINE d == IF gone THEN conn.drops ELSE conn.drops + 1
             q == <<>>
  <2>1. conn' = [by |-> Nobody, queue |-> q, drops |-> d] /\ page' = NoCaption(page) /\ UNCHANGED <<feed, refresh>>
    BY <1>4 DEF Drop
  <2>2. q \in Seq(Messages(c))
    OBVIOUS
  <2> HIDE DEF d, q
  <2>3. IsConn(conn') /\ conn'.queue = q
    BY <2>1 DEF IsConn
  <2> QED
    BY <1>0, <1>a, <2>1, <2>2, <2>3, PageChanges
<1>5. ASSUME NEW kind, Received(kind)
      PROVE  /\ IsConn(conn') /\ conn'.queue \in Seq(Messages(c)) /\ UNCHANGED feed
             /\ Head(conn.queue) \in Messages(c)
  <2> DEFINE q == Tail(conn.queue)
  <2>1. conn.queue # <<>> /\ conn' = [conn EXCEPT !.queue = q] /\ UNCHANGED feed
    BY <1>5 DEF Received
  <2>2. q \in Seq(Messages(c)) /\ Head(conn.queue) \in Messages(c)
    BY <1>0, <2>1
  <2> HIDE DEF q
  <2>3. IsConn(conn') /\ conn'.queue = q
    BY <1>0, <2>1 DEF IsConn
  <2> QED
    BY <2>1, <2>2, <2>3
<1>6. CASE ReceiveHello
  <2> DEFINE changed == InstanceChanged(conn.by)
             force == changed \/ Head(conn.queue).cursor < page.last
  <2>1. Received({"hello"}) /\ page' = [Adopted(page, conn.by) EXCEPT !.back = FALSE]
        /\ (UNCHANGED refresh \/ Asks(conn.by, force)) /\ force \in BOOLEAN
    BY <1>6 DEF ReceiveHello, Asked
  <2> HIDE DEF force
  <2>2. refresh' \in [Refreshes -> Answered(c)]
    BY <1>0, <2>1, AsksTyped
  <2> DEFINE pg == Adopted(page, conn.by)
  <2>3. IsPage(pg) /\ pg.last = page.last
    BY <1>0, PageChanges
  <2> HIDE DEF pg
  <2>4. IsPage(page') /\ page'.last = page.last
    BY <2>1, <2>3 DEF IsPage, PageRecord, pg
  <2> QED
    BY <1>0, <1>5, <1>a, <2>1, <2>2, <2>4
<1>7. CASE ReceiveEvent
  <2> DEFINE m == Head(conn.queue)
             n == m.cursor
  <2>1. Received({"event"}) /\ m \in Messages(c)
    BY <1>5, <1>7 DEF ReceiveEvent
  <2>2. n \in 0 .. c
    BY <2>1 DEF Messages
  <2>3. \/ UNCHANGED <<page, refresh>>
        \/ n = page.last + 1 /\ UNCHANGED refresh /\ page' = Applied(n)
        \/ Asks(conn.by, FALSE) /\ page' = [page EXCEPT !.back = FALSE]
    BY <1>7 DEF ReceiveEvent, Asked
  <2> HIDE DEF m, n
  <2>4. CASE UNCHANGED <<page, refresh>>
    BY <1>0, <1>5, <1>a, <2>1, <2>4
  <2>5. CASE n = page.last + 1 /\ UNCHANGED refresh /\ page' = Applied(n)
    <3> DEFINE pg == Shows(page, 1 .. n, n, FALSE)
    <3>1. page.applied \cup {n} = 1 .. n /\ n \in Nat
      BY <1>0, <2>2, <2>5
    <3>2. page' = pg \/ page' = NoCaption(pg)
      BY <2>5, <3>1 DEF Applied
    <3>3. IsPage(pg) /\ pg.last = n
      BY <1>0, <3>1, PageChanges
    <3> HIDE DEF pg
    <3>4. IsPage(page') /\ page'.last = n
      BY <3>2, <3>3, PageChanges
    <3> QED
      BY <1>0, <1>5, <1>a, <2>1, <2>2, <2>5, <3>4
  <2>6. CASE Asks(conn.by, FALSE) /\ page' = [page EXCEPT !.back = FALSE]
    <3>1. refresh' \in [Refreshes -> Answered(c)]
      BY <1>0, <2>6, AsksTyped
    <3>2. IsPage(page') /\ page'.last = page.last
      BY <1>0, <2>6 DEF IsPage, PageRecord
    <3> QED
      BY <1>0, <1>5, <1>a, <2>1, <3>1, <3>2
  <2> QED
    BY <2>3, <2>4, <2>5, <2>6
<1>8. CASE ReceivePreview
  <2> DEFINE m == Head(conn.queue)
             v == m.preview
             revisions == [page.revisions EXCEPT ![v.stream] = v.revision]
             left == IF page.preview.stream = v.stream THEN NoPreview ELSE page.preview
  <2>1. Received({"upsert", "clear"}) /\ m \in Messages(c) /\ UNCHANGED refresh
    BY <1>5, <1>8 DEF ReceivePreview
  <2>2. v \in Preview
    BY <2>1 DEF Messages
  <2>3. revisions \in [Streams -> Nat] /\ left \in Preview
    BY <1>0, <2>2 DEF PageRecord, Preview, NoPreview
  <2>4. \/ UNCHANGED page
        \/ page' = [[page EXCEPT !.revisions = revisions] EXCEPT !.preview = v]
        \/ page' = [[page EXCEPT !.revisions = revisions] EXCEPT !.preview = left]
    BY <1>0, <1>8 DEF ReceivePreview, PageRecord
  <2> HIDE DEF m, v, revisions, left
  <2>5. IsPage(page') /\ page'.last = page.last
    BY <1>0, <2>2, <2>3, <2>4 DEF IsPage, PageRecord
  <2> QED
    BY <1>0, <1>5, <1>a, <2>1, <2>5
<1> QED
  BY <1>2, <1>3, <1>4, <1>6, <1>7, <1>8

\* What a page does with the answer of a refresh.
LEMMA RefreshKeepsPage ==
  ASSUME PageInv, NEW p \in Process \cup {Nobody}, NEW gone, RefreshAnswered(p) \/ RefreshApplied \/ RefreshFails(gone)
  PROVE  PageInv'
<1> DEFINE c == feed.cursor
<1>0. c \in Nat /\ IsPage(page) /\ page.last <= c /\ refresh \in [Refreshes -> Answered(c)] /\ page.last \in Nat
      /\ IsConn(conn) /\ conn.queue \in Seq(Messages(c))
  BY DEF PageInv, FeedRecord, IsPage, PageRecord
<1>1. Idle \in Answered(c)
  BY <1>0 DEF Idle, Answered
<1>2. CASE RefreshAnswered(p)
  <2>1. PICK i \in Refreshes : refresh' = [refresh EXCEPT ![i].at = "answered", ![i].cursor = c]
    BY <1>2 DEF RefreshAnswered
  <2> HIDE DEF c
  <2> DEFINE r == [refresh[i] EXCEPT !.at = "answered", !.cursor = c]
  <2>2. refresh' = [refresh EXCEPT ![i] = r]
    BY <1>0, <2>1
  <2> DEFINE old == refresh[i]
  <2>a. old \in Answered(c) /\ c \in 0 .. c
    BY <1>0
  <2>b. r = [old EXCEPT !.at = "answered", !.cursor = c]
    OBVIOUS
  <2> HIDE DEF old, r
  <2>3. r \in Answered(c)
    BY <2>a, <2>b DEF Answered
  <2>4. refresh' \in [Refreshes -> Answered(c)] /\ UNCHANGED <<feed, conn, page>>
    BY <1>0, <1>2, <2>2, <2>3 DEF RefreshAnswered
  <2> QED
    BY <1>0, <2>4, PageSideStep DEF c
<1>3. CASE RefreshFails(gone)
  <2>1. refresh' \in [Refreshes -> Answered(c)] /\ UNCHANGED <<feed, conn, page>>
    BY <1>0, <1>1, <1>3 DEF RefreshFails
  <2> QED
    BY <1>0, <2>1, PageSideStep
<1>4. CASE RefreshApplied
  <2>1. PICK i \in Refreshes :
          LET r == refresh[i]
              pg == Adopted(page, r.by)
          IN /\ refresh' = [refresh EXCEPT ![i] = Idle]
             /\ page' = Shows(pg, 1 .. r.cursor, r.cursor, page.back \/ r.cursor < page.last) \/ page' = pg
    BY <1>4 DEF RefreshApplied
  <2> DEFINE r == refresh[i]
             pg == Adopted(page, r.by)
             b == page.back \/ r.cursor < page.last
  <2>2. r \in Answered(c)
    BY <1>0
  <2>3. r.cursor \in Nat /\ r.cursor <= c /\ r.by \in Process \cup {Nobody}
    BY <1>0, <2>2 DEF Answered
  <2>4. IsPage(pg) /\ pg.last = page.last
    BY <1>0, <2>3, PageChanges
  <2>a. b \in BOOLEAN
    BY <1>0 DEF IsPage, PageRecord
  <2>b. page' = Shows(pg, 1 .. r.cursor, r.cursor, b) \/ page' = pg
    BY <2>1
  <2> HIDE DEF b, pg
  <2>5. IsPage(Shows(pg, 1 .. r.cursor, r.cursor, b)) /\ Shows(pg, 1 .. r.cursor, r.cursor, b).last = r.cursor
    BY <2>3, <2>4, <2>a, PageChanges
  <2>7. IsPage(page') /\ page'.last <= c
    BY <1>0, <2>3, <2>4, <2>5, <2>b
  <2>8. refresh' \in [Refreshes -> Answered(c)] /\ UNCHANGED <<feed, conn>>
    BY <1>0, <1>1, <1>4, <2>1 DEF RefreshApplied
  <2> QED
    BY <1>0, <2>7, <2>8, PageSideStep
<1> QED
  BY <1>2, <1>3, <1>4

\* The invariant of the page is inductive.
LEMMA PageStepOrNone ==
  ASSUME PageInv, [Next]_vars
  PROVE  PageInv'
<1>1. CASE UNCHANGED liveVars
  BY <1>1 DEF liveVars, PageInv
<1>2. CASE FeedLost
  <2>1. UNCHANGED <<conn, page, refresh>> /\ feed \in FeedRecord
    BY <1>2 DEF FeedLost, PageInv
  <2> DEFINE f == [feed EXCEPT !.unsent = FALSE, !.preview = NoPreview, !.stream = 0, !.kind = "none"]
  <2>2. feed' = f
    BY <1>2 DEF FeedLost
  <2>3. f \in FeedRecord /\ f.cursor = feed.cursor /\ feed.cursor \in Nat
    BY <2>1 DEF FeedRecord, NoPreview, Preview
  <2> HIDE DEF f
  <2> QED
    BY <2>1, <2>2, <2>3, ServiceStep
<1>3. CASE UNCHANGED vars
  BY <1>1, <1>3 DEF vars
<1>4. ASSUME NEW p \in Process, LifeStep(p) PROVE PageInv'
  BY <1>1, <1>2, <1>4 DEF LifeStep, Starts, Locks, Ready, Dies, Drained, Settles, Closed, Idles
<1>5. ASSUME NEW p \in Process, Capture(p) PROVE PageInv'
  BY <1>1, <1>5 DEF Capture, CaptureBegins, Recorded, Written, Stopped, Finishes, Idles
<1>6. ASSUME NEW p \in Process, MemosRequest(p) \/ MemosAnswer(p) \/ Appends(p) PROVE PageInv'
  BY <1>1, <1>6 DEF MemosRequest, MemosAnswer, Appends, ToolStep
<1>7. ASSUME NEW p \in Process, Feeds(p) PROVE PageInv'
  <2>1. (workload = "previews" /\ SessionOpen) \in BOOLEAN /\ TRUE \in BOOLEAN
    OBVIOUS
  <2> QED
    BY <1>7, <2>1, FeedKeepsPage DEF Feeds
<1>8. ASSUME NEW p \in Process, Broadcasts(p) PROVE PageInv'
  <2>1. Serving(p) \in BOOLEAN /\ EventBroadcast(p, Serving(p))
    BY <1>8 DEF Broadcasts, Serving
  <2> QED
    BY <2>1, FeedKeepsPage
<1>9. ASSUME NEW p \in Process, Connects(p) PROVE PageInv'
  BY <1>9, PageStepKeepsPage DEF Connects
<1>10. ASSUME NEW p \in Process, Answers(p) PROVE PageInv'
  BY <1>10, RefreshKeepsPage DEF Answers
<1>11. CASE Operates
  BY <1>1, <1>11 DEF Operates, ToolStep
<1>12. CASE Receives \/ Applies \/ Drops \/ Disconnects
  <2>1. Nobody \in Process \cup {Nobody}
    OBVIOUS
  <2>2. CASE Drop(FALSE) \/ Drop(TRUE) \/ ReceiveHello \/ ReceiveEvent \/ ReceivePreview
    BY <2>1, <2>2, PageStepKeepsPage
  <2>3. CASE RefreshApplied \/ RefreshFails(NotServing)
    BY <2>1, <2>3, RefreshKeepsPage
  <2> QED
    BY <1>12, <2>2, <2>3 DEF Receives, Applies, Drops, Disconnects
<1> QED
  BY <1>3, <1>4, <1>5, <1>6, <1>7, <1>8, <1>9, <1>10, <1>11, <1>12 DEF Next

\* What a page shows is a state the service was in, in whatever order the answers and the
\* stream arrive, for any number of refreshes, drops and restarts (App.tsx,
\* applySequentialLiteEvent, refresh).
THEOREM PageAlwaysPrefix == Spec => []PageIsPrefix
<1>1. PageInv => PageIsPrefix
  BY DEF PageInv, IsPage, PageIsPrefix
<1>2. Init => PageInv
  BY PageStart
<1>3. PageInv /\ [Next]_vars => PageInv'
  BY PageStepOrNone
<1> QED
  BY <1>1, <1>2, <1>3, PTL DEF Spec

=============================================================================
