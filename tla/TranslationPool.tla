-------------------------- MODULE TranslationPool --------------------------
(***************************************************************************)
(* The Chinese translation of the captions of one session: the tasks of    *)
(* scheduleTranslation, the bounded pool that runs them, the settings that *)
(* change while they run, and the two operations that wait for the pool to *)
(* be idle, the end of the session and the close of the service.           *)
(*                                                                         *)
(* A task asks the model, which takes as long as it likes, and queues the  *)
(* answer as an event mutation.  Mutations run one at a time in the order  *)
(* they were queued: an update of the settings may run between the moment  *)
(* a task has looked at them and the moment its answer is written.         *)
(*                                                                         *)
(* A definition whose comment is missing and which only precedes the one   *)
(* it resembles is a mutated form of it: see the README.                   *)
(***************************************************************************)
EXTENDS Naturals, Sequences, FiniteSets

CONSTANTS
  MaxCaptions,  \* bound on the captions of the session
  Concurrency,  \* TRANSLATION_CONCURRENCY
  MaxUpdates,   \* bound on the updates of the settings in one life of the service
  MaxFailures   \* bound on the crashes and the failed appends

ASSUME PoolAssumption ==
  /\ MaxCaptions \in Nat /\ Concurrency \in Nat \ {0}
  /\ MaxUpdates \in Nat /\ MaxFailures \in Nat

\* The final captions with Latin letters: the others are never candidates.
Caption == 1..MaxCaptions

VARIABLES
  lifecycle,    \* "ready", "closing" or "down"
  phase,        \* the session: "open", "stopping" or "ended"
  endAt,        \* where endSessionOnce is
  settings,     \* the preferences and whether a model is configured: both persisted
  generation,   \* translationGeneration
  captions,     \* how many captions have been received
  translation,  \* who translated each caption
  pending,      \* pendingTranslationSegments
  queue,        \* the tasks of the pool that have not started
  running,      \* the tasks that have
  mutations,    \* the queued answers and updates of the settings
  owed,         \* captions of which an attempt under the present settings has not failed
  failures      \* number of injected failures

vars == <<lifecycle, phase, endAt, settings, generation, captions, translation,
          pending, queue, running, mutations, owed, failures>>
session == <<phase, endAt>>
config == <<settings, generation>>
texts == <<captions, translation>>
pool == <<pending, queue, running>>

-----------------------------------------------------------------------------
Init ==
  /\ lifecycle = "ready" /\ phase = "open" /\ endAt = "none"
  /\ settings \in {[enabled |-> e, model |-> m] : e, m \in BOOLEAN}
  /\ generation = 0
  /\ captions = 0 /\ translation = [c \in Caption |-> "none"]
  /\ pending = {} /\ queue = <<>> /\ running = {} /\ mutations = <<>>
  /\ owed = {} /\ failures = 0

Inject == failures < MaxFailures /\ failures' = failures + 1

Up == lifecycle \in {"ready", "closing"}

\* translationCandidate: the captions that are to be translated.
Candidates ==
  {c \in 1..captions : settings.enabled /\ settings.model /\ translation[c] = "none"}

\* translationWritesAllowed.
WritesAllowed == lifecycle = "ready"

Task == [cap : Caption, gen : 0..MaxUpdates]

\* The place of c among the captions cs.
Rank(c, cs) == Cardinality({d \in cs : d <= c})

\* The tasks for the captions cs, in the order of the captions.
Tasks(cs, gen) ==
  [i \in 1..Cardinality(cs) |->
     [cap |-> CHOOSE c \in cs : Rank(c, cs) = i, gen |-> gen]]

\* scheduleTranslation of each of cs.
Schedule(cs) ==
  LET new == (cs \cap Candidates') \ pending
  IN pending' = pending \cup new /\ queue' = queue \o Tasks(new, generation')

\* The answer of t is still wanted.
Wanted(t) == t.gen = generation /\ t.cap \in Candidates /\ WritesAllowed

ReschedulesNothing(t) == FALSE

ReschedulesFailed(t) == t.cap \in Candidates' /\ WritesAllowed

\* A task that was overtaken by an update is scheduled again.
Reschedules(t) == t.gen # generation /\ t.cap \in Candidates' /\ WritesAllowed

\* The finally of a task, with waiting the tasks behind it.
Finish(t, waiting) ==
  IF Reschedules(t)
    THEN UNCHANGED pending /\ queue' = waiting \o Tasks({t.cap}, generation')
    ELSE pending' = pending \ {t.cap} /\ queue' = waiting

-----------------------------------------------------------------------------
(* The pool.                                                               *)

\* A task may start; the pool works on while the service closes.
FreeSlot == Up /\ Cardinality(running) < Concurrency

\* pump: the next task starts.  It looks at the settings and asks the model.
StartTask ==
  /\ queue # <<>> /\ FreeSlot
  /\ UNCHANGED <<lifecycle, session, config, texts, mutations, owed, failures>>
  /\ LET t == Head(queue) IN
       IF Wanted(t)
         THEN /\ running' = running \cup {[cap |-> t.cap, gen |-> t.gen, at |-> "asking"]}
              /\ queue' = Tail(queue) /\ UNCHANGED pending
         ELSE Finish(t, Tail(queue)) /\ UNCHANGED running

\* The model answers, and the answer is queued if it is still wanted.
Answer(t) ==
  /\ Up /\ t \in running /\ t.at = "asking"
  /\ UNCHANGED <<lifecycle, session, config, texts, owed, failures>>
  /\ IF Wanted(t)
       THEN /\ mutations' = Append(mutations, [op |-> "write", cap |-> t.cap, gen |-> t.gen])
            /\ running' = (running \ {t}) \cup {[t EXCEPT !.at = "writing"]}
            /\ UNCHANGED <<pending, queue>>
       ELSE running' = running \ {t} /\ Finish(t, queue) /\ UNCHANGED mutations

\* The request fails, times out or is aborted by the close.
AnswerFails(t) ==
  /\ Up /\ t \in running /\ t.at = "asking"
  /\ UNCHANGED <<lifecycle, session, config, texts, mutations, failures>>
  /\ running' = running \ {t} /\ Finish(t, queue)
  /\ owed' = IF t.gen = generation THEN owed \ {t.cap} ELSE owed

-----------------------------------------------------------------------------
(* The event mutations.                                                    *)

Next1(op) == Up /\ mutations # <<>> /\ Head(mutations).op = op /\ mutations' = Tail(mutations)

\* The task of the answer at the head of the queue.
Writer == [cap |-> Head(mutations).cap, gen |-> Head(mutations).gen, at |-> "writing"]

WrittenOver(c) == [translation EXCEPT ![c] = "model"]

\* receiveTranslationUnlocked of an answer: an existing translation stays.
Written(c) == [translation EXCEPT ![c] = IF @ = "none" THEN "model" ELSE @]

WriteAnswer ==
  /\ Next1("write")
  /\ UNCHANGED <<lifecycle, session, config, captions, owed, failures>>
  /\ translation' = Written(Writer.cap)
  /\ running' = running \ {Writer} /\ Finish(Writer, queue)

\* The event cannot be appended.
WriteAnswerFails ==
  /\ Next1("write") /\ Inject
  /\ UNCHANGED <<lifecycle, session, config, texts>>
  /\ translation[Writer.cap] = "none"
  /\ running' = running \ {Writer} /\ Finish(Writer, queue)
  /\ owed' = IF Writer.gen = generation THEN owed \ {Writer.cap} ELSE owed

\* The updates of the settings that are queued.
Updates == {i \in DOMAIN mutations : mutations[i].op = "update"}

\* A user changes the settings: a model must be configured to enable them.
RequestUpdate(new) ==
  /\ lifecycle = "ready"
  /\ generation + Cardinality(Updates) < MaxUpdates
  /\ mutations' = Append(mutations, [op |-> "update", to |-> new])
  /\ UNCHANGED <<lifecycle, session, config, texts, pool, owed, failures>>

\* updateTranslationEnabledUnlocked and updateTranslationModelUnlocked.
Update ==
  /\ Next1("update")
  /\ UNCHANGED <<lifecycle, session, texts, running, failures>>
  /\ LET to == Head(mutations).to IN
       IF to = "enabled" /\ ~settings.model
         THEN UNCHANGED <<config, pending, queue, owed>>
         ELSE /\ settings' = CASE to = "model" -> [settings EXCEPT !.model = TRUE]
                               [] to = "enabled" -> [settings EXCEPT !.enabled = TRUE]
                               [] to = "disabled" -> [settings EXCEPT !.enabled = FALSE]
              /\ generation' = generation + 1
              /\ IF settings'.enabled /\ phase = "open"
                   THEN Schedule(1..captions)
                   ELSE UNCHANGED <<pending, queue>>
              /\ owed' = IF phase = "open" THEN 1..captions ELSE owed \cap pending

\* The settings cannot be written.
UpdateFails ==
  /\ Next1("update") /\ Inject
  /\ UNCHANGED <<lifecycle, session, config, texts, pool, owed>>

\* receiveCaption: a captioner that is being drained may still deliver.
ReceiveCaption ==
  /\ Up /\ captions < MaxCaptions
  /\ phase = "open" \/ endAt = "runtime"
  /\ captions' = captions + 1 /\ UNCHANGED <<config, translation>>
  /\ Schedule({captions'})
  /\ owed' = owed \cup {captions'}
  /\ UNCHANGED <<lifecycle, session, running, mutations, failures>>

\* receiveTranslation from a client replaces whatever there is.
ReceiveTranslation(c) ==
  /\ lifecycle = "ready" /\ c <= captions
  /\ translation' = [translation EXCEPT ![c] = "manual"]
  /\ UNCHANGED <<lifecycle, session, config, captions, pool, mutations, owed, failures>>

-----------------------------------------------------------------------------
(* The end of the session and of the service.                              *)

QueueIsEmpty == queue = <<>>

\* The pool is idle: drain resolves.
Idle == queue = <<>> /\ running = {}

RequestStop ==
  /\ lifecycle = "ready" /\ phase # "ended" /\ endAt = "none"
  /\ phase' = "stopping" /\ endAt' = "runtime"
  /\ UNCHANGED <<lifecycle, config, texts, pool, mutations, owed, failures>>

RuntimeStopped ==
  /\ Up /\ endAt = "runtime" /\ endAt' = "drain"
  /\ UNCHANGED <<lifecycle, phase, config, texts, pool, mutations, owed, failures>>

\* The captioner does not drain: endSession throws, the session is still stopping.
RuntimeFails ==
  /\ Up /\ endAt = "runtime" /\ Inject
  /\ endAt' = "none"
  /\ UNCHANGED <<lifecycle, phase, config, texts, pool, mutations, owed>>

Drained ==
  /\ Up /\ endAt = "drain" /\ Idle
  /\ endAt' = "finish"
  /\ UNCHANGED <<lifecycle, phase, config, texts, pool, mutations, owed, failures>>

FinishEnd ==
  /\ Up /\ endAt = "finish"
  /\ phase' = "ended" /\ endAt' = "none"
  /\ UNCHANGED <<lifecycle, config, texts, pool, mutations, owed, failures>>

Close ==
  /\ lifecycle = "ready" /\ lifecycle' = "closing"
  /\ UNCHANGED <<session, config, texts, pool, mutations, owed, failures>>

\* What a new life of the service does not know.
Forget ==
  /\ endAt' = "none" /\ generation' = 0
  /\ pending' = {} /\ queue' = <<>> /\ running' = {} /\ mutations' = <<>>
  /\ owed' = {}
  /\ UNCHANGED <<settings, texts>>

\* closeReadyApp waits for the requests, the pool and the mutations.
CloseDone ==
  /\ lifecycle = "closing" /\ lifecycle' = "down"
  /\ endAt = "none" /\ Idle /\ mutations = <<>>
  /\ Forget /\ UNCHANGED <<phase, failures>>

Crash ==
  /\ Up /\ Inject
  /\ lifecycle' = "down"
  /\ Forget /\ UNCHANGED phase

\* initialize schedules nothing.
Start ==
  /\ lifecycle = "down" /\ lifecycle' = "ready"
  /\ UNCHANGED <<session, config, texts, pool, mutations, owed, failures>>

-----------------------------------------------------------------------------
Change == {"enabled", "disabled", "model"}

Running == [cap : Caption, gen : 0..MaxUpdates, at : {"asking", "writing"}]

Next ==
  \/ StartTask \/ \E t \in running : Answer(t) \/ AnswerFails(t)
  \/ WriteAnswer \/ WriteAnswerFails
  \/ \E new \in Change : RequestUpdate(new)
  \/ Update \/ UpdateFails \/ ReceiveCaption \/ \E c \in Caption : ReceiveTranslation(c)
  \/ RequestStop \/ RuntimeStopped \/ RuntimeFails \/ Drained \/ FinishEnd
  \/ Close \/ CloseDone \/ Crash \/ Start

Spec == Init /\ [][Next]_vars

\* A request to the model ends by its timeout, the event loop goes on with what
\* has been queued, and a captioner is stopped by a deadline.
Fairness ==
  /\ WF_vars(StartTask) /\ WF_vars(\E t \in running : Answer(t) \/ AnswerFails(t))
  /\ WF_vars(WriteAnswer) /\ WF_vars(Update)
  /\ WF_vars(RuntimeStopped) /\ WF_vars(Drained) /\ WF_vars(FinishEnd) /\ WF_vars(CloseDone)

FairSpec == Spec /\ Fairness

-----------------------------------------------------------------------------
(* Properties.                                                             *)

Mutation ==
  [op : {"write"}, cap : Caption, gen : 0..MaxUpdates] \cup [op : {"update"}, to : Change]

\* The values the state can hold; the pool runs no more tasks than it may.
TypeOK ==
  /\ lifecycle \in {"ready", "closing", "down"}
  /\ phase \in {"open", "stopping", "ended"}
  /\ endAt \in {"none", "runtime", "drain", "finish"}
  /\ settings \in [enabled : BOOLEAN, model : BOOLEAN]
  /\ generation \in 0..MaxUpdates
  /\ captions \in 0..MaxCaptions
  /\ translation \in [Caption -> {"none", "manual", "model"}]
  /\ pending \subseteq Caption
  /\ queue \in Seq(Task)
  /\ running \subseteq Running /\ Cardinality(running) <= Concurrency
  /\ mutations \in Seq(Mutation)
  /\ owed \subseteq Caption /\ failures \in 0..MaxFailures

\* A caption has at most one task, queued or running, and pending says which
\* have one: no caption is sent to the model twice at a time, and none is
\* taken for scheduled when it is not (scheduleTranslation, across updates).
OneTaskPerCaption ==
  /\ pending = {queue[i].cap : i \in DOMAIN queue} \cup {t.cap : t \in running}
  /\ Cardinality(pending) = Len(queue) + Cardinality(running)

\* While the service runs, a caption that is to be translated under the present
\* settings is in work, unless an attempt under these settings has failed or
\* they were changed when the session was stopping: an update that overtakes
\* a task loses no caption (the generations of scheduleTranslation).
NoCaptionForgotten ==
  lifecycle = "ready" => owed \cap Candidates \subseteq pending

\* The session ends only when the pool is idle and stays so: no translation of
\* an ended session is on its way (drainTranslationQueue).
EndedIsDrained == phase = "ended" => Idle /\ pending = {}

\* The pool accounts for its work: it runs no more tasks than it may, what is pending
\* is what is queued or running, and an ended session has none of it.
PoolIsConsistent == TypeOK /\ OneTaskPerCaption /\ EndedIsDrained

\* A translation of a user is never replaced by the model, whose answer may
\* have been queued before (receiveTranslationUnlocked).
ManualIsKept ==
  [][\A c \in Caption : translation[c] = "manual" => translation'[c] = "manual"]_vars

\* A caption that is in work is settled: it is translated, the attempt fails,
\* the settings no longer want it, or the service stops.
TasksSettle ==
  \A c \in Caption : c \in pending ~> c \notin pending \/ lifecycle # "ready"

\* A session whose captioner has stopped ends, unless the service stops: the drain
\* waits neither for ever nor for a task that waits for the end.
EndCompletes == endAt = "drain" ~> phase = "ended" \/ lifecycle = "down"

\* A service that is asked to close closes.
CloseCompletes == lifecycle = "closing" ~> lifecycle = "down"

\* Nobody waits for ever: neither a caption, nor the end of the session, nor the close.
WaitsEnd == TasksSettle /\ EndCompletes /\ CloseCompletes

=============================================================================
