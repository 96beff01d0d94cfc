---------------------------- MODULE CloudReceiver ----------------------------
(***************************************************************************)
(* The files of the cloud receiver for one device and one session: the     *)
(* inbox and its index, the audio artifacts and theirs, the learning       *)
(* materials and their audit, and the retention tool that deletes          *)
(* artifacts while the receiver is down.                                   *)
(*                                                                         *)
(* Two queues run side by side, one for events and audio and one for       *)
(* learning materials.  Runs of agents overlap: a batch on a timer, one    *)
(* started by hand, one that is dead and whose request arrives late.  No   *)
(* lock is between them.  Every write may fail, and the receiver may die   *)
(* between any two.  A failed append is rolled back; when that fails too,  *)
(* or the process dies, a leftover stays in the file.                      *)
(*                                                                         *)
(* A definition whose comment is missing and which only precedes the one   *)
(* it resembles is a mutated form of it: see the README.                   *)
(***************************************************************************)
EXTENDS Naturals, Sequences, FiniteSets, Functions

CONSTANTS
  Chunk,         \* the audio chunks
  Local,         \* the events of the device: what each is, a chunk or "text"
  BaselineName,  \* the names asked of the baseline generator
  AgentName,     \* what an external agent answers, its name included
  Runner,        \* the runs of an agent whose answers are awaited at one time
  Leftover,      \* what an append that is not rolled back may leave
  MaxMaterials,  \* bound on the learning materials
  MaxAudits,     \* bound on the lines of the audit
  MaxFailures    \* bound on the failed writes and the crashes

ASSUME ReceiverAssumption ==
  /\ Local \in Seq(Chunk \cup {"text"}) /\ "text" \notin Chunk
  /\ Leftover \subseteq {"nothing", "part", "unterminated", "line"}
  /\ MaxMaterials \in Nat /\ MaxAudits \in Nat /\ MaxFailures \in Nat

VARIABLES
  lifecycle,       \* "down", "ready" or "closing"
  fault,           \* persistenceFault
  inbox,           \* events.jsonl: its lines, and how it ends
  known,           \* inboxRecords
  index,           \* inboxIndex
  indexFile,       \* index.json
  artifact,        \* the file of each audio chunk
  audioIndex,      \* audioArtifactIndex
  audioIndexFile,  \* audio/index.json
  materials,       \* materials.jsonl
  audit,           \* material-audit.jsonl
  op,              \* the task at the head of operationQueue
  learning,        \* the task at the head of learningMaterialQueue
  retention,       \* what the retention tool has still to delete
  agent,           \* what each run of an agent is at, and the bundle it was given
  ackedEvents,     \* the events the receiver has acknowledged
  ackedAudio,      \* the chunks it has acknowledged
  failures         \* number of injected failures

vars == <<lifecycle, fault, inbox, known, index, indexFile, artifact, audioIndex,
          audioIndexFile, materials, audit, op, learning, retention, agent, ackedEvents,
          ackedAudio, failures>>
service == <<lifecycle, fault>>
events == <<inbox, known, index, indexFile>>
audio == <<artifact, audioIndex, audioIndexFile>>
lessons == <<materials, audit, learning>>
acked == <<ackedEvents, ackedAudio>>
tools == <<retention, agent>>

-----------------------------------------------------------------------------
(* Files of lines.  A file that ends "open" lacks its last newline: it can *)
(* be read, but the next line is joined to the last one.                   *)

EmptyFile == [lines |-> <<>>, end |-> "clean"]

Readable(file) == file.end # "broken"

\* appendJsonLine succeeds.
WithLine(file, x) ==
  [lines |-> Append(file.lines, x), end |-> IF file.end = "clean" THEN "clean" ELSE "broken"]

\* The file after an append of x that was neither completed nor rolled back.
Remains(file, x, leftover) ==
  CASE leftover = "nothing" -> file
    [] leftover = "part" -> [file EXCEPT !.end = "broken"]
    [] leftover = "unterminated" ->
         [WithLine(file, x) EXCEPT !.end = IF @ = "clean" THEN "open" ELSE @]
    [] leftover = "line" -> WithLine(file, x)

Inject == failures < MaxFailures /\ failures' = failures + 1

Event(i) == [cursor |-> i, kind |-> Local[i]]
Events == {Event(i) : i \in DOMAIN Local}

Idle == [at |-> "idle"]
NoAgent == [at |-> "idle", bundle |-> [events |-> 0, audio |-> {}]]
Up == lifecycle \in {"ready", "closing"}

\* A new task of a queue: withOperationLock, withLearningMaterialLock.
MayRun == Up /\ ~fault

Init ==
  /\ lifecycle = "down" /\ fault = FALSE
  /\ inbox = EmptyFile /\ known = <<>> /\ index = {} /\ indexFile = {}
  /\ artifact = [c \in Chunk |-> "none"] /\ audioIndex = {} /\ audioIndexFile = {}
  /\ materials = EmptyFile /\ audit = EmptyFile
  /\ op = Idle /\ learning = Idle
  /\ retention = {} /\ agent = [r \in Runner |-> NoAgent]
  /\ ackedEvents = {} /\ ackedAudio = {} /\ failures = 0

\* The process is gone.
Forget ==
  /\ lifecycle' = "down" /\ fault' = FALSE
  /\ known' = <<>> /\ index' = {} /\ audioIndex' = {}
  /\ op' = Idle /\ learning' = Idle

LeavesNoFault == UNCHANGED <<service, known, index, audioIndex>>

\* An append is not rolled back and the process survives: the fault is latched.
LeavesFault == fault' = TRUE /\ UNCHANGED <<lifecycle, known, index, audioIndex>>

-----------------------------------------------------------------------------
(* receiveEvent.                                                           *)

NextCursor == Cardinality(index) + 1

\* The event is in the index with the same hash.
ReceiveDuplicate(i) ==
  /\ MayRun /\ op = Idle /\ Event(i) \in index
  /\ ackedEvents' = ackedEvents \cup {Event(i)}
  /\ UNCHANGED <<service, events, audio, lessons, op, tools, ackedAudio, failures>>

\* The memory follows the inbox before the index is written.
MemoryWith(i) == known' = Append(known, Event(i)) /\ index' = index \cup {Event(i)}

AppendEvent(i) ==
  /\ MayRun /\ op = Idle /\ i = NextCursor
  /\ inbox' = WithLine(inbox, Event(i)) /\ MemoryWith(i)
  /\ op' = [at |-> "index", of |-> Event(i)]
  /\ UNCHANGED <<service, indexFile, audio, lessons, tools, acked, failures>>

AppendEventFails(i) ==
  /\ MayRun /\ op = Idle /\ i = NextCursor /\ Inject
  /\ UNCHANGED <<indexFile, artifact, audioIndexFile, materials, audit, tools, acked>>
  /\ \/ UNCHANGED <<service, inbox, known, index, audioIndex, op, learning>>
     \/ \E left \in Leftover :
          /\ inbox' = Remains(inbox, Event(i), left)
          /\ (LeavesFault /\ UNCHANGED <<op, learning>>) \/ Forget

WriteIndex ==
  /\ Up /\ op.at = "index"
  /\ indexFile' = index \cup {op.of} /\ ackedEvents' = ackedEvents \cup {op.of} /\ op' = Idle
  /\ UNCHANGED <<service, inbox, known, index, audio, lessons, tools, ackedAudio, failures>>

\* The event is stored and the client told that it is not.
WriteIndexFails ==
  /\ Up /\ op.at = "index" /\ Inject
  /\ op' = Idle
  /\ UNCHANGED <<service, events, audio, lessons, tools, acked>>

-----------------------------------------------------------------------------
(* receiveAudioChunk.                                                      *)

\* The chunks whose metadata the receiver has.
Described(lines) == {e.kind : e \in Range(lines)} \cap Chunk

DuplicateAudio(c) ==
  /\ MayRun /\ op = Idle /\ c \in Described(known) \cap audioIndex
  /\ ackedAudio' = ackedAudio \cup {c}
  /\ UNCHANGED <<service, events, audio, lessons, op, tools, ackedEvents, failures>>

\* writeFile truncates the file first.
WriteAudio(c) ==
  /\ MayRun /\ op = Idle /\ c \in Described(known) \ audioIndex
  /\ artifact' = [artifact EXCEPT ![c] = "part"]
  /\ op' = [at |-> "audio", of |-> c]
  /\ UNCHANGED <<service, events, audioIndex, audioIndexFile, lessons, tools, acked,
                 failures>>

\* The index names the artifact once it is written.
AudioWritten ==
  /\ Up /\ op.at = "audio"
  /\ artifact' = [artifact EXCEPT ![op.of] = "whole"]
  /\ audioIndex' = audioIndex \cup {op.of}
  /\ op' = [op EXCEPT !.at = "audio index"]
  /\ UNCHANGED <<service, events, audioIndexFile, lessons, tools, acked, failures>>

AudioWriteFails ==
  /\ Up /\ op.at = "audio" /\ Inject
  /\ op' = Idle
  /\ UNCHANGED <<service, events, audio, lessons, tools, acked>>

WriteAudioIndex ==
  /\ Up /\ op.at = "audio index"
  /\ audioIndexFile' = audioIndex /\ ackedAudio' = ackedAudio \cup {op.of} /\ op' = Idle
  /\ UNCHANGED <<service, events, artifact, audioIndex, lessons, tools, ackedEvents, failures>>

WriteAudioIndexFails ==
  /\ Up /\ op.at = "audio index" /\ Inject
  /\ op' = Idle
  /\ UNCHANGED <<service, events, audio, lessons, tools, acked>>

-----------------------------------------------------------------------------
(* Learning materials.                                                     *)

\* sessionLearningBundle, up to its hash.
Bundle == [events |-> Len(known), audio |-> audioIndex]

Bundles == [events : DOMAIN Local, audio : SUBSET Chunk]

Material ==
  [bundle : Bundles, kind : {"baseline"}, name : BaselineName]
    \cup [bundle : Bundles, kind : {"external-agent"}, name : AgentName]

\* The action of the audit line that says where a material comes from.
Origin(kind) == IF kind = "baseline" THEN "generated" ELSE "imported"

\* A request reaches the head of learningMaterialQueue and reads the bundle.
LearningTurn == MayRun /\ learning = Idle /\ known # <<>> /\ Readable(materials)

BeginMaterial(bundle, kind, name) ==
  /\ LearningTurn
  /\ Len(materials.lines) < MaxMaterials /\ Len(audit.lines) < MaxAudits
  /\ learning' = [at |-> "decide", of |-> [bundle |-> bundle, kind |-> kind, name |-> name]]
  /\ UNCHANGED <<service, events, audio, materials, audit, op, acked, failures>>

\* generateLearningMaterial
Generate(name) == BeginMaterial(Bundle, "baseline", name) /\ UNCHANGED tools

\* readyForLearningAgent of sessionAudit: there are captions and no artifact is missing.
ReadyForLearningAgent ==
  /\ \E e \in Range(known) : e.kind = "text"
  /\ Described(known) \subseteq audioIndex

HasCurrentMaterial == \E i \in DOMAIN materials.lines : materials.lines[i].bundle = Bundle

RunnerMoves == UNCHANGED <<service, events, audio, lessons, op, retention, acked, failures>>

\* runCloudAgentBatch --apply asks for the audit of the session and goes on when it is
\* ready and has no current material.
BatchAudits(r) ==
  /\ agent[r].at = "idle" /\ LearningTurn /\ ReadyForLearningAgent /\ ~HasCurrentMaterial
  /\ agent' = [agent EXCEPT ![r].at = "audited"]
  /\ RunnerMoves

\* runCloudLearningAgent, of a batch or by itself, gives the agent the bundle, for which
\* no turn is awaited.
AgentFetches(r) ==
  /\ agent[r].at \in {"idle", "audited"} /\ lifecycle = "ready" /\ known # <<>>
  /\ agent' = [agent EXCEPT ![r] = [at |-> "working", bundle |-> Bundle]]
  /\ RunnerMoves

AnyBundle(bundle) == TRUE

\* normalizeExternalLearningMaterial: a material of another bundle is refused.
IsCurrent(bundle) == bundle = Bundle

\* importLearningMaterial, whoever posts the material and however late.  The run may lose
\* the answer, and is over before the import is.
Import(r, name) ==
  /\ agent[r].at = "working" /\ IsCurrent(agent[r].bundle)
  /\ BeginMaterial(agent[r].bundle, "external-agent", name)
  /\ agent' = [agent EXCEPT ![r] = NoAgent] /\ UNCHANGED retention

\* The agent fails or times out, or a request does or is refused.
AgentFails(r) ==
  /\ agent[r] # NoAgent
  /\ agent' = [agent EXCEPT ![r] = NoAgent]
  /\ RunnerMoves

\* What is taken for the requested material: for the baseline, any material of
\* the bundle under its name.
Matches(m) ==
  {i \in DOMAIN materials.lines :
     LET x == materials.lines[i] IN
       IF m.kind = "baseline" THEN x.bundle = m.bundle /\ x.name = m.name ELSE x = m}

First(is) == CHOOSE i \in is : \A j \in is : i <= j

HasOrigin(m) == \E r \in Range(audit.lines) : r.of = m /\ r.action # "existing"

AlwaysOrigin(m, kind) == "generated"

\* appendExistingOrOriginAudit: an origin whose line was lost is recorded again.
AuditAction(m, kind) == IF HasOrigin(m) THEN "existing" ELSE Origin(kind)

FoundMaterial ==
  /\ Up /\ learning.at = "decide" /\ Matches(learning.of) # {}
  /\ LET x == materials.lines[First(Matches(learning.of))] IN
       learning' = IF Readable(audit)
                   THEN [at |-> "audit", of |-> x, action |-> AuditAction(x, learning.of.kind)]
                   ELSE Idle
  /\ UNCHANGED <<service, events, audio, materials, audit, op, tools, acked, failures>>

AppendMaterial ==
  /\ Up /\ learning.at = "decide" /\ Matches(learning.of) = {}
  /\ materials' = WithLine(materials, learning.of)
  /\ learning' = [at |-> "audit", of |-> learning.of, action |-> Origin(learning.of.kind)]
  /\ UNCHANGED <<service, events, audio, audit, op, tools, acked, failures>>

AppendMaterialFails ==
  /\ Up /\ learning.at = "decide" /\ Matches(learning.of) = {} /\ Inject
  /\ UNCHANGED <<inbox, indexFile, artifact, audioIndexFile, audit, tools, acked>>
  /\ \/ learning' = Idle /\ UNCHANGED <<service, materials, known, index, audioIndex, op>>
     \/ \E left \in Leftover :
          /\ materials' = Remains(materials, learning.of, left)
          /\ (LeavesFault /\ learning' = Idle /\ UNCHANGED op) \/ Forget

AuditLine == [action |-> learning.action, of |-> learning.of]

AppendAudit ==
  /\ Up /\ learning.at = "audit"
  /\ audit' = WithLine(audit, AuditLine) /\ learning' = Idle
  /\ UNCHANGED <<service, events, audio, materials, op, tools, acked, failures>>

AppendAuditFails ==
  /\ Up /\ learning.at = "audit" /\ Inject
  /\ UNCHANGED <<inbox, indexFile, artifact, audioIndexFile, materials, tools, acked>>
  /\ \/ learning' = Idle /\ UNCHANGED <<service, audit, known, index, audioIndex, op>>
     \/ \E left \in Leftover :
          /\ audit' = Remains(audit, AuditLine, left)
          /\ (LeavesFault /\ learning' = Idle /\ UNCHANGED op) \/ Forget

-----------------------------------------------------------------------------
(* Start, close, crash, retention, repair.                                 *)

WithoutOrigin == {m \in Range(materials.lines) : ~HasOrigin(m)}

\* validateLearningAuditConsistency, of one line and of all.
Fits(r) ==
  r.of \in Range(materials.lines) /\ r.action \in {"existing", Origin(r.of.kind)}

LearningLoads ==
  /\ Readable(materials) /\ Readable(audit)
  /\ \A r \in Range(audit.lines) : Fits(r)
  /\ WithoutOrigin = {}

\* rebuildIndexFromRecords finds no gap.
InboxLoads ==
  Readable(inbox) /\ \A i \in DOMAIN inbox.lines : inbox.lines[i].cursor = i

KeptAudio == {c \in Described(inbox.lines) : artifact[c] # "none"}

\* rebuildAudioIndexFromRecords: the artifacts whose length and hash match.
RebuiltAudio == {c \in Described(inbox.lines) : artifact[c] = "whole"}

\* initialize; whatever the indexes were, they are made to agree with the files.
Start ==
  /\ lifecycle = "down" /\ retention = {} /\ InboxLoads /\ LearningLoads
  /\ lifecycle' = "ready"
  /\ known' = inbox.lines /\ index' = Range(inbox.lines) /\ indexFile' = index'
  /\ audioIndex' = RebuiltAudio /\ audioIndexFile' = audioIndex'
  /\ UNCHANGED <<fault, inbox, artifact, lessons, op, tools, acked, failures>>

\* initialize repairs the indexes before it refuses the learning data.
StartRefused ==
  /\ lifecycle = "down" /\ retention = {} /\ InboxLoads /\ ~LearningLoads
  /\ indexFile' = Range(inbox.lines) /\ audioIndexFile' = RebuiltAudio
  /\ UNCHANGED <<service, inbox, known, index, artifact, audioIndex, lessons, op, tools,
                 acked, failures>>

\* initialize fails between the two indexes.
StartFails ==
  /\ lifecycle = "down" /\ retention = {} /\ InboxLoads /\ Inject
  /\ indexFile' = Range(inbox.lines)
  /\ UNCHANGED <<service, inbox, known, index, audio, lessons, op, tools, acked>>

Close ==
  /\ lifecycle = "ready" /\ lifecycle' = "closing"
  /\ UNCHANGED <<fault, events, audio, lessons, op, tools, acked, failures>>

CloseDone ==
  /\ lifecycle = "closing" /\ op = Idle /\ learning = Idle
  /\ Forget
  /\ UNCHANGED <<inbox, indexFile, artifact, audioIndexFile, materials, audit, tools,
                 acked, failures>>

Crash ==
  /\ Up /\ Inject /\ Forget
  /\ UNCHANGED <<inbox, indexFile, artifact, audioIndexFile, materials, audit, tools, acked>>

StillIndexed(cs) == audioIndexFile

Retained(cs) == audioIndexFile \ cs

\* runCloudAudioRetention --apply takes the lock, verifies the candidates and
\* commits the index without them.
Retain(cs) ==
  /\ lifecycle = "down" /\ retention = {} /\ cs # {}
  /\ cs \subseteq audioIndexFile /\ \A c \in cs : artifact[c] = "whole"
  /\ audioIndexFile' = Retained(cs) /\ retention' = cs /\ ackedAudio' = ackedAudio \ cs
  /\ UNCHANGED <<service, events, artifact, audioIndex, lessons, op, agent, ackedEvents, failures>>

Delete(c) ==
  /\ c \in retention
  /\ artifact' = [artifact EXCEPT ![c] = "none"] /\ retention' = retention \ {c}
  /\ UNCHANGED <<service, events, audioIndex, audioIndexFile, lessons, op, agent, acked, failures>>

RetentionDies ==
  /\ retention # {} /\ Inject /\ retention' = {}
  /\ UNCHANGED <<service, events, audio, lessons, op, agent, acked>>

Mended(file) == [file EXCEPT !.end = "clean"]

\* The origin of each material, and no more.
Origins ==
  [i \in DOMAIN materials.lines |->
     [action |-> Origin(materials.lines[i].kind), of |-> materials.lines[i]]]

\* An operator repairs the files that keep the receiver from starting, and writes the
\* audit anew.
Repair ==
  /\ lifecycle = "down" /\ ~(InboxLoads /\ LearningLoads)
  /\ inbox' = Mended(inbox) /\ materials' = Mended(materials)
  /\ audit' = [lines |-> Origins, end |-> "clean"]
  /\ UNCHANGED <<service, known, index, indexFile, audio, learning, op, tools, acked,
                 failures>>

-----------------------------------------------------------------------------
(* The doctor: what inspectCloudDataRoot accepts of a root.  It sorts the  *)
(* records first, takes a repeated record and a missing artifact for a     *)
(* warning, and does not look at the audit of the materials.               *)

CursorsContinue == {e.cursor : e \in Range(inbox.lines)} = 1 .. Cardinality(Range(inbox.lines))

ArtifactsExist == \A c \in Described(inbox.lines) : artifact[c] \in {"none", "part", "whole"}

\* The length and the hash of each artifact that is there are what the inbox says.
ArtifactsMatch == \A c \in Described(inbox.lines) : artifact[c] \in {"none", "whole"}

MaterialsRead == Readable(materials)

DoctorPasses == Readable(inbox) /\ CursorsContinue /\ ArtifactsMatch /\ MaterialsRead

-----------------------------------------------------------------------------
Next ==
  \/ \E i \in DOMAIN Local : ReceiveDuplicate(i) \/ AppendEvent(i) \/ AppendEventFails(i)
  \/ WriteIndex \/ WriteIndexFails
  \/ \E c \in Chunk : DuplicateAudio(c) \/ WriteAudio(c) \/ Delete(c)
  \/ AudioWritten \/ AudioWriteFails \/ WriteAudioIndex \/ WriteAudioIndexFails
  \/ \E n \in BaselineName : Generate(n)
  \/ \E r \in Runner :
       BatchAudits(r) \/ AgentFetches(r) \/ AgentFails(r) \/ \E n \in AgentName : Import(r, n)
  \/ FoundMaterial \/ AppendMaterial \/ AppendMaterialFails \/ AppendAudit \/ AppendAuditFails
  \/ Start \/ StartRefused \/ StartFails \/ Close \/ CloseDone \/ Crash
  \/ \E cs \in SUBSET Chunk : Retain(cs)
  \/ RetentionDies \/ Repair

Spec == Init /\ [][Next]_vars

-----------------------------------------------------------------------------
(* Properties.                                                             *)

Action == {"generated", "imported", "existing"}

File(Line) == [lines : Seq(Line), end : {"clean", "open", "broken"}]

AgentState ==
  [at : {"idle", "audited", "working"}, bundle : [events : 0 .. Len(Local), audio : SUBSET Chunk]]

\* The values the state can hold.
TypeOK ==
  /\ lifecycle \in {"down", "ready", "closing"} /\ fault \in BOOLEAN
  /\ inbox \in File(Events) /\ known \in Seq(Events)
  /\ index \subseteq Events /\ indexFile \subseteq Events
  /\ artifact \in [Chunk -> {"none", "part", "whole"}]
  /\ audioIndex \subseteq Chunk /\ audioIndexFile \subseteq Chunk
  /\ materials \in File(Material)
  /\ audit \in File([action : Action, of : Material])
  /\ \/ op = Idle
     \/ op \in [at : {"index"}, of : Events]
     \/ op \in [at : {"audio", "audio index"}, of : Chunk]
  /\ \/ learning = Idle
     \/ learning \in [at : {"decide"}, of : Material]
     \/ learning \in [at : {"audit"}, of : Material, action : Action]
  /\ retention \subseteq Chunk
  /\ agent \in [Runner -> AgentState]
  /\ ackedEvents \subseteq Events /\ ackedAudio \subseteq Chunk
  /\ failures \in 0 .. MaxFailures

\* The inbox holds the events of the device in their order, each once: an event
\* that was stored but answered with an error is not stored again when the
\* device repeats it (receiveEvent, across failed index writes and restarts).
InboxFollowsDevice ==
  \A i \in DOMAIN inbox.lines : inbox.lines[i] = Event(i)

\* What has been acknowledged is in the files, until the retention tool deletes it.
AcknowledgedIsStored ==
  /\ ackedEvents \subseteq Range(inbox.lines)
  /\ \A c \in ackedAudio : artifact[c] = "whole"

\* No index, in memory or on disk, names an event that is not in the inbox or
\* an artifact that is not whole: an artifact is served and counted as
\* archived from the index alone (writeIndex, writeAudioIndex, the retention).
IndexesNameStoredData ==
  /\ index \cup indexFile \subseteq Range(inbox.lines)
  /\ \A c \in audioIndex \cup audioIndexFile : artifact[c] = "whole"

\* A receiver that reports no fault has files it can read again when it restarts:
\* a leftover of a failed append is never built upon (appendJsonLine).
HealthyIsReadable ==
  Up /\ ~fault => Readable(inbox) /\ Readable(materials) /\ Readable(audit)

\* The materials of a session follow its events: none is stored of fewer events than an
\* earlier one is of, however many runs of agents overlap and however late they answer,
\* while events are received beside the import, writes fail and the receiver restarts
\* (importLearningMaterial, generateLearningMaterial, runCloudLearningAgent).
MaterialsFollowEvents ==
  \A i, j \in DOMAIN materials.lines :
    i < j => materials.lines[i].bundle.events <= materials.lines[j].bundle.events

\* A root that the doctor passes is one the receiver starts with, and with every
\* artifact that is there, unless an origin is missing from the audit, at which the
\* doctor does not look.
DoctorPassesWhatStarts ==
  lifecycle = "down" /\ retention = {} /\ DoctorPasses =>
    /\ InboxLoads /\ RebuiltAudio = KeptAudio
    /\ LearningLoads \/ ~Readable(audit) \/ WithoutOrigin # {}

\* The audit tells where the materials come from.  Each of its lines gives a material the
\* origin it has, which the receiver checks when it starts; a material has no origin only
\* while it is stored or because a write failed, and asking for it again records one.
AuditIsSound ==
  /\ \A r \in Range(audit.lines) : Fits(r)
  /\ Cardinality(WithoutOrigin) <= failures + IF learning.at = "audit" THEN 1 ELSE 0
  /\ learning.at = "audit" /\ learning.of \in WithoutOrigin => learning.action # "existing"

-----------------------------------------------------------------------------
(* What the device is promised.                                            *)

WholeChunks == {c \in Chunk : artifact[c] = "whole"}

Archive == INSTANCE CloudArchive WITH stored <- inbox.lines, whole <- WholeChunks

\* Whatever fails, and wherever the receiver dies, each of its steps stores the next
\* event, stores or acknowledges a chunk of a stored event, acknowledges a stored event,
\* retires chunks, loses one it has not acknowledged or whose time is over, or is none of
\* the device's business (receiveEvent, receiveAudioChunk, initialize, the retention).
ImplementsCloudArchive == Archive!Spec

=============================================================================
