------------------------ MODULE CloudReceiver_proofs ------------------------
(***************************************************************************)
(* Proofs about CloudReceiver, for any events and chunks of the device,    *)
(* any number of materials and faults: its types, what the inbox and the   *)
(* indexes hold of what was received and acknowledged, what a healthy      *)
(* receiver can read again, what the doctor passes, that the materials     *)
(* follow the events, and that it implements CloudArchive.                 *)
(***************************************************************************)
EXTENDS CloudReceiver, FiniteSetTheorems, SequenceTheorems, TLAPS

-----------------------------------------------------------------------------
(* The inductive invariant.                                                *)

\* A process that is gone has no memory and no task.
DownIsEmpty ==
  lifecycle = "down" =>
    known = <<>> /\ audioIndex = {} /\ op = Idle /\ learning = Idle

\* The memory is what the inbox begins with, and all of it while no append is in doubt.
MemoryFollows ==
  /\ Len(inbox.lines) <= Len(Local)
  /\ Len(known) <= Len(inbox.lines)
  /\ \A i \in DOMAIN known : known[i] = Event(i)
  /\ index = {Event(i) : i \in DOMAIN known}
  /\ Up /\ ~fault => Len(known) = Len(inbox.lines)

\* Who names an event.
EventsAreStored ==
  /\ indexFile \cup ackedEvents \subseteq Range(inbox.lines)
  /\ op.at = "index" => op.of \in Range(inbox.lines)

\* Who names an artifact.
AudioIsStored ==
  /\ \A c \in audioIndex \cup audioIndexFile \cup ackedAudio : artifact[c] = "whole"
  /\ audioIndex \cup ackedAudio \subseteq Described(inbox.lines)
  /\ Up => audioIndexFile \cup ackedAudio \subseteq audioIndex
  /\ op.at \in {"audio", "audio index"} => op.of \in Described(inbox.lines)
  /\ op.at = "audio index" => op.of \in audioIndex

\* What the retention tool deletes is named no more, and nobody serves.
RetainedIsFree ==
  /\ retention # {} => lifecycle = "down"
  /\ retention \cap (audioIndexFile \cup ackedAudio) = {}

IInv ==
  /\ TypeOK
  /\ DownIsEmpty
  /\ InboxFollowsDevice /\ MemoryFollows /\ EventsAreStored
  /\ AudioIsStored /\ RetainedIsFree

\* Its companion, for appends that leave nothing, a part or a whole line.
Whole(file) == file.end \in {"clean", "broken"}

FilesAreWhole ==
  /\ Whole(inbox) /\ Whole(materials) /\ Whole(audit)
  /\ HealthyIsReadable

-----------------------------------------------------------------------------
(* Facts about the operators.                                              *)

LEMMA LocalLen == Len(Local) \in Nat /\ DOMAIN Local = 1 .. Len(Local)
BY ReceiverAssumption

LEMMA LinesOf ==
  ASSUME NEW S, NEW file \in File(S)
  PROVE  /\ file.lines \in Seq(S)
         /\ Len(file.lines) \in Nat /\ DOMAIN file.lines = 1 .. Len(file.lines)
         /\ Range(file.lines) \subseteq S
<1>1. file.lines \in Seq(S) BY DEF File
<1>2. Len(file.lines) \in Nat /\ DOMAIN file.lines = 1 .. Len(file.lines)
  BY <1>1, LenProperties
<1>3. \A k \in 1 .. Len(file.lines) : file.lines[k] \in S BY <1>1, ElementOfSeq
<1> QED BY <1>1, <1>2, <1>3 DEF Range

LEMMA DescribedGrows ==
  ASSUME NEW s, NEW t, Range(s) \subseteq Range(t)
  PROVE  Described(s) \subseteq Described(t)
BY DEF Described

\* A line is added to what a file holds, and to nothing else.
LEMMA RangeOfAppend ==
  ASSUME NEW S, NEW s \in Seq(S), NEW x
  PROVE  Range(Append(s, x)) = Range(s) \cup {x}
<1>1. /\ DOMAIN Append(s, x) = 1 .. Len(s) + 1 /\ DOMAIN s = 1 .. Len(s) /\ Len(s) \in Nat
      /\ \A k \in 1 .. Len(s) : Append(s, x)[k] = s[k]
      /\ Append(s, x)[Len(s) + 1] = x
  BY AppendProperties, LenProperties
<1> QED BY <1>1 DEF Range

\* A failed append adds nothing or the line.
LEMMA RemainsOf ==
  ASSUME NEW S, NEW file \in File(S), NEW x \in S, NEW left \in Leftover
  PROVE  /\ Remains(file, x, left) \in File(S)
         /\ \/ Remains(file, x, left).lines = file.lines
            \/ Remains(file, x, left).lines = Append(file.lines, x)
<1>1. left \in {"nothing", "part", "unterminated", "line"} BY ReceiverAssumption
<1>2. Append(file.lines, x) \in Seq(S) BY AppendProperties DEF File
<1> QED BY <1>1, <1>2 DEF Remains, WithLine, File

LEMMA WithLineOf ==
  ASSUME NEW S, NEW file \in File(S), NEW x \in S
  PROVE  /\ WithLine(file, x) \in File(S)
         /\ WithLine(file, x).lines = Append(file.lines, x)
<1>1. Append(file.lines, x) \in Seq(S) BY AppendProperties DEF File
<1> QED BY <1>1 DEF WithLine, File

LEMMA KnownIsStored ==
  ASSUME IInv
  PROVE  /\ index \subseteq Range(inbox.lines)
         /\ Range(known) = index
         /\ Described(known) \subseteq Described(inbox.lines)
<1>1. inbox.lines \in Seq(Events) /\ known \in Seq(Events) BY LinesOf DEF IInv, TypeOK
<1>2. \A k \in DOMAIN known : k \in DOMAIN inbox.lines /\ inbox.lines[k] = Event(k)
  BY <1>1, LenProperties DEF IInv, MemoryFollows, InboxFollowsDevice
<1>3. Range(known) = index BY DEF IInv, MemoryFollows, Range
<1>4. index \subseteq Range(inbox.lines) BY <1>2 DEF IInv, MemoryFollows, Range
<1> QED BY <1>3, <1>4, DescribedGrows

\* The index has one entry for each line, so that its size is the last cursor.
LEMMA CursorIsNext ==
  ASSUME IInv
  PROVE  Len(known) \in Nat /\ NextCursor = Len(known) + 1
<1>1. Len(known) \in Nat /\ DOMAIN known = 1 .. Len(known) BY LenProperties DEF IInv, TypeOK
<1>2. index = {Event(k) : k \in 1 .. Len(known)} BY <1>1 DEF IInv, MemoryFollows
<1> DEFINE f == [k \in 1 .. Len(known) |-> Event(k)]
<1>3. f \in Bijection(1 .. Len(known), index)
  BY <1>2 DEF Bijection, Injection, Surjection, IsInjective, Event
<1>4. /\ IsFiniteSet(1 .. Len(known))
      /\ Cardinality(1 .. Len(known)) = IF 1 > Len(known) THEN 0 ELSE Len(known) - 1 + 1
  <2>1. 1 \in Int /\ Len(known) \in Int BY <1>1
  <2> QED BY <2>1, FS_Interval, Zenon
<1>5. Cardinality(index) = Cardinality(1 .. Len(known))
  BY <1>3, <1>4, FS_Bijection DEF ExistsBijection
<1> QED BY <1>1, <1>4, <1>5 DEF NextCursor

LEMMA FailuresTyped == ASSUME IInv, Inject PROVE failures' \in 0 .. MaxFailures
<1>1. MaxFailures \in Nat BY ReceiverAssumption
<1>2. failures \in 0 .. MaxFailures BY DEF IInv, TypeOK
<1> QED BY <1>1, <1>2 DEF Inject

-----------------------------------------------------------------------------
(* What an operation leaves alone.                                         *)

EventsInv == InboxFollowsDevice /\ MemoryFollows /\ EventsAreStored
AudioInv == AudioIsStored /\ RetainedIsFree

\* The process keeps its memory; a fault may be latched.
Remembers ==
  /\ UNCHANGED <<lifecycle, known, index, audioIndex>>
  /\ fault' \in {fault, TRUE}

LEMMA EventsIdle ==
  ASSUME IInv, Remembers, UNCHANGED <<inbox, indexFile, ackedEvents>>,
         op'.at = "index" => op' = op
  PROVE  EventsInv'
BY DEF IInv, Remembers, EventsInv, InboxFollowsDevice, MemoryFollows, EventsAreStored, Up

LEMMA EventsForgotten ==
  ASSUME IInv, Forget, UNCHANGED <<inbox, indexFile, ackedEvents>>
  PROVE  EventsInv'
<1>1. Len(inbox.lines) \in Nat BY LinesOf DEF IInv, TypeOK
<1> QED BY <1>1 DEF IInv, Forget, EventsInv, InboxFollowsDevice, MemoryFollows,
                    EventsAreStored, Up, Idle

LEMMA AudioIdle ==
  ASSUME IInv, Remembers, Range(inbox.lines) \subseteq Range(inbox'.lines),
         UNCHANGED <<artifact, audioIndexFile, ackedAudio, retention>>,
         op' = op \/ op'.at \notin {"audio", "audio index"}
  PROVE  AudioInv'
<1>1. Described(inbox.lines) \subseteq Described(inbox'.lines) BY DescribedGrows
<1> QED BY <1>1 DEF IInv, Remembers, AudioInv, AudioIsStored, RetainedIsFree, Up

LEMMA AudioForgotten ==
  ASSUME IInv, Forget, Range(inbox.lines) \subseteq Range(inbox'.lines),
         UNCHANGED <<artifact, audioIndexFile, ackedAudio, retention>>
  PROVE  AudioInv'
<1>1. Described(inbox.lines) \subseteq Described(inbox'.lines) BY DescribedGrows
<1> QED BY <1>1 DEF IInv, Forget, AudioInv, AudioIsStored, RetainedIsFree, Up, Idle

LEMMA ForgottenIsEmpty == Forget => DownIsEmpty'
BY DEF Forget, DownIsEmpty

LEMMA UpIsNotDown == ASSUME Up, Remembers PROVE DownIsEmpty'
BY DEF Up, Remembers, DownIsEmpty

-----------------------------------------------------------------------------
(* receiveEvent.                                                           *)

LEMMA ReceiveDuplicateStep ==
  ASSUME IInv, NEW i \in DOMAIN Local, ReceiveDuplicate(i)
  PROVE  IInv'
<1> USE DEF ReceiveDuplicate, MayRun, service, events, audio, lessons, tools
<1>1. Event(i) \in Range(inbox.lines) BY KnownIsStored
<1>2. TypeOK' BY DEF IInv, TypeOK, Events
<1>3. Remembers BY DEF Remembers
<1>4. DownIsEmpty' BY <1>3, UpIsNotDown
<1>5. EventsInv'
  BY <1>1, <1>3 DEF IInv, EventsInv, InboxFollowsDevice, MemoryFollows, EventsAreStored, Up
<1>6. AudioInv' BY <1>3, AudioIdle
<1> QED BY <1>2, <1>4, <1>5, <1>6 DEF IInv, EventsInv, AudioInv

LEMMA AppendEventStep ==
  ASSUME IInv, NEW i \in DOMAIN Local, AppendEvent(i)
  PROVE  IInv'
<1> USE DEF AppendEvent, MayRun, MemoryWith, service, audio, lessons, tools, acked
<1>1. /\ inbox \in File(Events) /\ inbox.lines \in Seq(Events) /\ known \in Seq(Events)
      /\ Event(i) \in Events
  BY LinesOf DEF IInv, TypeOK, Events
<1>2. /\ Len(inbox.lines) = Len(known) /\ i = Len(known) + 1 /\ i <= Len(Local)
      /\ Len(inbox.lines) \in Nat /\ DOMAIN inbox.lines = 1 .. Len(inbox.lines)
      /\ DOMAIN known = 1 .. Len(known)
  BY <1>1, CursorIsNext, LocalLen, LenProperties DEF IInv, MemoryFollows
<1>3. inbox' \in File(Events) /\ inbox'.lines = Append(inbox.lines, Event(i))
  <2>1. /\ WithLine(inbox, Event(i)) \in File(Events)
        /\ WithLine(inbox, Event(i)).lines = Append(inbox.lines, Event(i))
    BY <1>1, WithLineOf
  <2> QED BY <2>1
<1>4. known' \in Seq(Events) BY <1>1, AppendProperties
<1>5. /\ Range(inbox'.lines) = Range(inbox.lines) \cup {Event(i)}
      /\ Range(known') = Range(known) \cup {Event(i)}
  BY <1>1, <1>3, RangeOfAppend
<1>6. TypeOK' BY <1>1, <1>3, <1>4 DEF IInv, TypeOK
<1>7. DownIsEmpty' BY DEF DownIsEmpty, Up
<1>8. /\ DOMAIN inbox'.lines = 1 .. i /\ Len(inbox'.lines) = i
      /\ \A k \in 1 .. i : inbox'.lines[k] = Event(k)
  <2> DEFINE t == Append(inbox.lines, Event(i))
  <2>1. /\ t \in Seq(Events) /\ Len(t) = i /\ t[i] = Event(i)
        /\ \A k \in 1 .. Len(inbox.lines) : t[k] = inbox.lines[k]
    BY <1>1, <1>2, AppendProperties
  <2>2. \A k \in 1 .. Len(inbox.lines) : inbox.lines[k] = Event(k)
    BY <1>2 DEF IInv, InboxFollowsDevice
  <2>3. inbox'.lines = t BY <1>3
  <2> HIDE DEF t
  <2>4. DOMAIN t = 1 .. Len(t) BY <2>1, LenProperties
  <2>5. \A k \in 1 .. i : k = i \/ k \in 1 .. Len(inbox.lines) BY <1>2
  <2> QED BY <2>1, <2>2, <2>3, <2>4, <2>5
<1>9. /\ DOMAIN known' = 1 .. i /\ Len(known') = i
      /\ \A k \in 1 .. i : known'[k] = Event(k)
  BY <1>1, <1>2, AppendProperties DEF IInv, MemoryFollows
<1>10. InboxFollowsDevice' /\ MemoryFollows'
  <2>1. index' = {Event(k) : k \in DOMAIN known'}
    BY <1>2, <1>9 DEF IInv, MemoryFollows
  <2>2. InboxFollowsDevice' BY <1>8 DEF InboxFollowsDevice
  <2>3. MemoryFollows' BY <2>1, <1>2, <1>8, <1>9 DEF MemoryFollows
  <2> QED BY <2>2, <2>3
<1>11. EventsAreStored' BY <1>5 DEF IInv, EventsAreStored
<1>12. AudioInv'
  <2>1. Described(inbox.lines) \subseteq Described(inbox'.lines) BY <1>5, DescribedGrows
  <2> QED BY <2>1 DEF IInv, AudioInv, AudioIsStored, RetainedIsFree, Up
<1> QED BY <1>6, <1>7, <1>10, <1>11, <1>12 DEF IInv, AudioInv

\* Whatever is left of the line, only a process that is gone or has latched the fault
\* does not know of it.
LEMMA AppendEventFailsStep ==
  ASSUME IInv, NEW i \in DOMAIN Local, AppendEventFails(i)
  PROVE  IInv'
<1> USE DEF AppendEventFails, MayRun, acked, tools
<1>1. /\ inbox \in File(Events) /\ inbox.lines \in Seq(Events) /\ known \in Seq(Events)
      /\ Event(i) \in Events
  BY LinesOf DEF IInv, TypeOK, Events
<1>2. failures' \in 0 .. MaxFailures BY FailuresTyped
<1>3. CASE UNCHANGED <<service, inbox, known, index, audioIndex, op, learning>>
  <2>1. TypeOK' BY <1>2, <1>3 DEF IInv, TypeOK, service
  <2>2. Remembers BY <1>3 DEF Remembers, service
  <2>3. DownIsEmpty' BY <2>2, UpIsNotDown
  <2>4. EventsInv' BY <1>3, <2>2, EventsIdle
  <2>5. AudioInv' BY <1>3, <2>2, AudioIdle
  <2> QED BY <2>1, <2>3, <2>4, <2>5 DEF IInv, EventsInv, AudioInv
<1>4. ASSUME NEW left \in Leftover, inbox' = Remains(inbox, Event(i), left),
             (LeavesFault /\ UNCHANGED <<op, learning>>) \/ Forget
      PROVE  IInv'
  <2>1. /\ inbox' \in File(Events)
        /\ inbox'.lines = inbox.lines \/ inbox'.lines = Append(inbox.lines, Event(i))
    <3>1. /\ Remains(inbox, Event(i), left) \in File(Events)
          /\ \/ Remains(inbox, Event(i), left).lines = inbox.lines
             \/ Remains(inbox, Event(i), left).lines = Append(inbox.lines, Event(i))
      BY <1>1, <1>4, RemainsOf
    <3> QED BY <3>1, <1>4
  <2>2. /\ Len(inbox.lines) = Len(known) /\ i = Len(known) + 1 /\ i <= Len(Local)
        /\ Len(inbox.lines) \in Nat /\ DOMAIN inbox.lines = 1 .. Len(inbox.lines)
    BY <1>1, CursorIsNext, LocalLen, LenProperties DEF IInv, MemoryFollows
  <2>3. InboxFollowsDevice' /\ Len(inbox'.lines) \in {Len(known), Len(known) + 1}
    <3>1. CASE inbox'.lines = inbox.lines BY <2>2, <3>1 DEF IInv, InboxFollowsDevice
    <3>2. CASE inbox'.lines = Append(inbox.lines, Event(i))
      <4>1. /\ DOMAIN inbox'.lines = 1 .. i /\ Len(inbox'.lines) = i
            /\ \A k \in 1 .. i : inbox'.lines[k] = Event(k)
        BY <1>1, <2>2, <3>2, AppendProperties DEF IInv, InboxFollowsDevice
      <4> QED BY <2>2, <4>1 DEF InboxFollowsDevice
    <3> QED BY <2>1, <3>1, <3>2
  <2>4. Range(inbox.lines) \subseteq Range(inbox'.lines)
    <3>1. Range(Append(inbox.lines, Event(i))) = Range(inbox.lines) \cup {Event(i)}
      BY <1>1, RangeOfAppend
    <3> QED BY <2>1, <3>1
  <2>5. CASE LeavesFault /\ UNCHANGED <<op, learning>>
    <3> USE <2>5 DEF LeavesFault
    <3>1. TypeOK' BY <1>2, <2>1 DEF IInv, TypeOK
    <3>2. Remembers BY DEF Remembers
    <3>3. DownIsEmpty' BY <3>2, UpIsNotDown
    <3>4. MemoryFollows' BY <2>2, <2>3 DEF IInv, MemoryFollows
    <3>5. EventsAreStored' BY <2>4 DEF IInv, EventsAreStored
    <3>6. AudioInv' BY <2>4, <3>2, AudioIdle
    <3> QED BY <3>1, <3>3, <2>3, <3>4, <3>5, <3>6 DEF IInv, AudioInv
  <2>6. CASE Forget
    <3> USE <2>6
    <3>1. TypeOK' BY <1>2, <2>1, EmptySeq DEF IInv, TypeOK, Forget
    <3>2. DownIsEmpty' BY ForgottenIsEmpty
    <3>3. MemoryFollows' BY <2>2, <2>3 DEF Forget, MemoryFollows, Up
    <3>4. EventsAreStored' BY <2>4 DEF IInv, EventsAreStored, Forget, Idle
    <3>5. AudioInv' BY <2>4, AudioForgotten
    <3> QED BY <3>1, <3>2, <2>3, <3>3, <3>4, <3>5 DEF IInv, AudioInv
  <2> QED BY <1>4, <2>5, <2>6
<1> QED BY <1>3, <1>4

LEMMA WriteIndexStep == ASSUME IInv, WriteIndex PROVE IInv'
<1> USE DEF WriteIndex, service, audio, lessons, tools
<1>1. op.of \in Range(inbox.lines) /\ op.of \in Events
  <2>1. op.of \in Range(inbox.lines) BY DEF IInv, EventsAreStored
  <2>2. Range(inbox.lines) \subseteq Events BY LinesOf DEF IInv, TypeOK
  <2> QED BY <2>1, <2>2
<1>2. TypeOK' BY <1>1 DEF IInv, TypeOK
<1>3. Remembers BY DEF Remembers
<1>4. DownIsEmpty' BY <1>3, UpIsNotDown
<1>5. EventsAreStored' BY <1>1, KnownIsStored DEF IInv, EventsAreStored, Idle
<1>6. InboxFollowsDevice' /\ MemoryFollows' BY DEF IInv, InboxFollowsDevice, MemoryFollows, Up
<1>7. AudioInv' BY <1>3, AudioIdle DEF Idle
<1> QED BY <1>2, <1>4, <1>5, <1>6, <1>7 DEF IInv, AudioInv

\* An operation fails and its task ends.
LEMMA OpFails ==
  ASSUME IInv, Up, Inject, op' = Idle,
         UNCHANGED <<service, events, audio, lessons, tools, acked>>
  PROVE  IInv'
<1> USE DEF service, events, audio, lessons, tools, acked
<1>1. TypeOK' BY FailuresTyped DEF IInv, TypeOK
<1>2. Remembers BY DEF Remembers
<1>3. DownIsEmpty' BY <1>2, UpIsNotDown
<1>4. EventsInv' BY <1>2, EventsIdle DEF Idle
<1>5. AudioInv' BY <1>2, AudioIdle DEF Idle
<1> QED BY <1>1, <1>3, <1>4, <1>5 DEF IInv, EventsInv, AudioInv

-----------------------------------------------------------------------------
(* receiveAudioChunk.                                                      *)

LEMMA DuplicateAudioStep ==
  ASSUME IInv, NEW c \in Chunk, DuplicateAudio(c)
  PROVE  IInv'
<1> USE DEF DuplicateAudio, MayRun, service, events, audio, lessons, tools
<1>1. TypeOK' BY DEF IInv, TypeOK
<1>2. Remembers BY DEF Remembers
<1>3. DownIsEmpty' BY <1>2, UpIsNotDown
<1>4. EventsInv' BY <1>2, EventsIdle
<1>5. AudioIsStored' BY KnownIsStored DEF IInv, AudioIsStored, Up
<1>6. RetainedIsFree' BY DEF IInv, RetainedIsFree, Up
<1> QED BY <1>1, <1>3, <1>4, <1>5, <1>6 DEF IInv, EventsInv

\* The artifact that is being written is named by nobody.
LEMMA WriteAudioStep ==
  ASSUME IInv, NEW c \in Chunk, WriteAudio(c)
  PROVE  IInv'
<1> USE DEF WriteAudio, MayRun, service, events, lessons, tools, acked
<1>1. TypeOK' BY DEF IInv, TypeOK
<1>2. Remembers BY DEF Remembers
<1>3. DownIsEmpty' BY <1>2, UpIsNotDown
<1>4. EventsInv' BY <1>2, EventsIdle
<1>5. c \notin audioIndex \cup audioIndexFile \cup ackedAudio
  BY DEF IInv, AudioIsStored
<1>6. AudioIsStored'
  <2>1. \A d \in Chunk \ {c} : artifact'[d] = artifact[d] BY DEF IInv, TypeOK
  <2>2. audioIndex \cup audioIndexFile \cup ackedAudio \subseteq Chunk BY DEF IInv, TypeOK
  <2>3. c \in Described(inbox.lines) BY KnownIsStored
  <2> QED BY <1>5, <2>1, <2>2, <2>3 DEF IInv, AudioIsStored, Up
<1>7. RetainedIsFree' BY DEF IInv, RetainedIsFree
<1> QED BY <1>1, <1>3, <1>4, <1>6, <1>7 DEF IInv, EventsInv

LEMMA OpAudio ==
  ASSUME IInv, op.at \in {"audio", "audio index"}
  PROVE  op \in [at : {"audio", "audio index"}, of : Chunk]
<1>1. \/ op = Idle
      \/ op \in [at : {"index"}, of : Events]
      \/ op \in [at : {"audio", "audio index"}, of : Chunk]
  BY DEF IInv, TypeOK
<1>2. op # Idle
  <2>1. Idle.at = "idle" BY DEF Idle
  <2> QED BY <2>1
<1>3. op \notin [at : {"index"}, of : Events] OBVIOUS
<1> QED BY <1>1, <1>2, <1>3

LEMMA AudioWrittenStep == ASSUME IInv, AudioWritten PROVE IInv'
<1> USE DEF AudioWritten, service, events, lessons, tools, acked
<1>1. /\ op \in [at : {"audio", "audio index"}, of : Chunk]
      /\ op' \in [at : {"audio", "audio index"}, of : Chunk]
      /\ op'.at = "audio index" /\ op'.of = op.of
  BY OpAudio
<1>2. TypeOK' BY <1>1 DEF IInv, TypeOK
<1>3. DownIsEmpty' BY DEF DownIsEmpty, Up
<1>4. EventsInv'
  BY <1>1 DEF IInv, EventsInv, InboxFollowsDevice, MemoryFollows, EventsAreStored, Up
<1>5. AudioIsStored'
  <2>1. /\ artifact'[op.of] = "whole"
        /\ \A d \in Chunk : artifact'[d] = artifact[d] \/ artifact'[d] = "whole"
    BY <1>1 DEF IInv, TypeOK
  <2>2. audioIndex \cup audioIndexFile \cup ackedAudio \subseteq Chunk BY DEF IInv, TypeOK
  <2> QED BY <1>1, <2>1, <2>2 DEF IInv, AudioIsStored, Up
<1>6. RetainedIsFree' BY DEF IInv, RetainedIsFree
<1> QED BY <1>2, <1>3, <1>4, <1>5, <1>6 DEF IInv, EventsInv

LEMMA WriteAudioIndexStep == ASSUME IInv, WriteAudioIndex PROVE IInv'
<1> USE DEF WriteAudioIndex, service, events, lessons, tools
<1>1. op.of \in Chunk BY OpAudio
<1>2. TypeOK' BY <1>1 DEF IInv, TypeOK
<1>3. Remembers BY DEF Remembers
<1>4. DownIsEmpty' BY <1>3, UpIsNotDown
<1>5. EventsInv' BY <1>3, EventsIdle DEF Idle
<1>6. AudioIsStored' BY <1>1 DEF IInv, AudioIsStored, Up, Idle
<1>7. RetainedIsFree' BY DEF IInv, RetainedIsFree, Up
<1> QED BY <1>2, <1>4, <1>5, <1>6, <1>7 DEF IInv, EventsInv

-----------------------------------------------------------------------------
(* Learning materials.                                                     *)

\* A step that changes none of the files of events and audio, nor what the process
\* knows of them.
LEMMA LessonStep ==
  ASSUME IInv, TypeOK', Up, UNCHANGED <<events, audio, op, acked, lifecycle, retention>>,
         fault' \in {fault, TRUE}
  PROVE  IInv'
<1> USE DEF events, audio, acked
<1>1. Remembers BY DEF Remembers
<1>2. DownIsEmpty' BY <1>1, UpIsNotDown
<1>3. EventsInv' BY <1>1, EventsIdle
<1>4. AudioInv' BY <1>1, AudioIdle
<1> QED BY <1>2, <1>3, <1>4 DEF IInv, EventsInv, AudioInv

\* The process is gone, and the files of events and audio are what they were.
LEMMA ForgetStep ==
  ASSUME IInv, TypeOK', Forget,
         UNCHANGED <<inbox, indexFile, artifact, audioIndexFile, acked, retention>>
  PROVE  IInv'
<1> USE DEF acked
<1>1. DownIsEmpty' BY ForgottenIsEmpty
<1>2. EventsInv' BY EventsForgotten
<1>3. AudioInv' BY AudioForgotten
<1> QED BY <1>1, <1>2, <1>3 DEF IInv, EventsInv, AudioInv

\* The types of what a process that is gone leaves.
LEMMA ForgetTyped ==
  ASSUME Forget
  PROVE  /\ lifecycle' = "down" /\ fault' = FALSE
         /\ known' \in Seq(Events) /\ index' = {} /\ audioIndex' = {}
         /\ op' = Idle /\ learning' = Idle
BY EmptySeq DEF Forget

LEMMA MaterialTyped ==
  ASSUME IInv, NEW name, NEW kind, known # <<>>,
         \/ kind = "baseline" /\ name \in BaselineName
         \/ kind = "external-agent" /\ name \in AgentName
  PROVE  [bundle |-> Bundle, kind |-> kind, name |-> name] \in Material
<1>1. Len(known) \in DOMAIN Local
  <2>1. /\ inbox \in File(Events) /\ known \in Seq(Events)
        /\ Len(known) <= Len(inbox.lines) /\ Len(inbox.lines) <= Len(Local)
    BY DEF IInv, TypeOK, MemoryFollows
  <2>2. Len(known) \in Nat \ {0} /\ Len(inbox.lines) \in Nat BY <2>1, EmptySeq, LinesOf
  <2> QED BY <2>1, <2>2, LocalLen
<1>2. audioIndex \in SUBSET Chunk BY DEF IInv, TypeOK
<1>3. Bundle \in Bundles BY <1>1, <1>2 DEF Bundle, Bundles
<1> QED BY <1>3 DEF Material

LEMMA BeginTyped ==
  ASSUME IInv, NEW name, NEW kind, BeginMaterial(Bundle, kind, name),
         \/ kind = "baseline" /\ name \in BaselineName
         \/ kind = "external-agent" /\ name \in AgentName
  PROVE  learning' \in [at : {"decide"}, of : Material]
<1>1. [bundle |-> Bundle, kind |-> kind, name |-> name] \in Material
  BY MaterialTyped DEF BeginMaterial, LearningTurn
<1> QED BY <1>1 DEF BeginMaterial

LEMMA GenerateStep ==
  ASSUME IInv, NEW n \in BaselineName, Generate(n)
  PROVE  IInv'
<1>1. learning' \in [at : {"decide"}, of : Material] BY BeginTyped DEF Generate
<1> USE DEF Generate, BeginMaterial, LearningTurn, MayRun, service, events, audio, acked, tools
<1>2. TypeOK' BY <1>1 DEF IInv, TypeOK
<1> QED BY <1>2, LessonStep

LEMMA NoAgentTyped == NoAgent \in AgentState
BY LocalLen DEF NoAgent, AgentState

\* One run moves, the others are where they were.
LEMMA RunnerTyped ==
  ASSUME IInv, NEW r \in Runner, NEW x \in AgentState, agent' = [agent EXCEPT ![r] = x]
  PROVE  agent' \in [Runner -> AgentState]
BY DEF IInv, TypeOK

\* What is imported is of the current bundle.
LEMMA ImportStep ==
  ASSUME IInv, NEW r \in Runner, NEW n \in AgentName, Import(r, n)
  PROVE  IInv'
<1>1. BeginMaterial(Bundle, "external-agent", n) BY DEF Import, IsCurrent
<1>2. learning' \in [at : {"decide"}, of : Material] BY <1>1, BeginTyped
<1>3. agent' \in [Runner -> AgentState] BY NoAgentTyped, RunnerTyped DEF Import
<1> USE <1>1 DEF Import, BeginMaterial, LearningTurn, MayRun, service, events, audio, acked
<1>4. TypeOK' BY <1>2, <1>3 DEF IInv, TypeOK
<1> QED BY <1>4, LessonStep

LEMMA BatchAuditsStep == ASSUME IInv, NEW r \in Runner, BatchAudits(r) PROVE IInv'
<1> USE DEF BatchAudits, RunnerMoves, LearningTurn, MayRun, service, events, audio, lessons, acked
<1>1. [agent[r] EXCEPT !.at = "audited"] \in AgentState BY DEF IInv, TypeOK, AgentState
<1>2. agent' \in [Runner -> AgentState] BY <1>1, RunnerTyped
<1>3. TypeOK' BY <1>2 DEF IInv, TypeOK
<1> QED BY <1>3, LessonStep

LEMMA AgentFetchesStep == ASSUME IInv, NEW r \in Runner, AgentFetches(r) PROVE IInv'
<1> USE DEF AgentFetches, RunnerMoves, service, events, audio, lessons, acked
<1>1. Len(known) \in 0 .. Len(Local)
  <2>1. inbox \in File(Events) /\ known \in Seq(Events) BY DEF IInv, TypeOK
  <2>2. Len(known) \in Nat /\ Len(inbox.lines) \in Nat BY <2>1, LinesOf, LenProperties
  <2> QED BY <2>2, LocalLen DEF IInv, MemoryFollows
<1>2. [at |-> "working", bundle |-> Bundle] \in AgentState
  BY <1>1 DEF IInv, TypeOK, Bundle, AgentState
<1>3. agent' \in [Runner -> AgentState] BY <1>2, RunnerTyped
<1>4. TypeOK' BY <1>3 DEF IInv, TypeOK
<1> QED BY <1>4, LessonStep DEF Up

LEMMA AgentFailsStep == ASSUME IInv, NEW r \in Runner, AgentFails(r) PROVE IInv'
<1> USE DEF AgentFails, RunnerMoves, service, events, audio, lessons, acked
<1>1. agent' \in [Runner -> AgentState] BY NoAgentTyped, RunnerTyped
<1>2. TypeOK' BY <1>1 DEF IInv, TypeOK
<1>3. DownIsEmpty' BY DEF IInv, DownIsEmpty
<1>4. EventsInv'
  BY DEF IInv, EventsInv, InboxFollowsDevice, MemoryFollows, EventsAreStored, Up
<1>5. Remembers BY DEF Remembers
<1>6. AudioInv' BY <1>5, AudioIdle
<1> QED BY <1>2, <1>3, <1>4, <1>6 DEF IInv, EventsInv, AudioInv

LEMMA MaterialsTyped ==
  ASSUME IInv
  PROVE  /\ materials \in File(Material) /\ materials.lines \in Seq(Material)
         /\ \A k \in DOMAIN materials.lines : materials.lines[k] \in Material
<1>1. materials \in File(Material) BY DEF IInv, TypeOK
<1>2. materials.lines \in Seq(Material) BY <1>1, LinesOf
<1> QED BY <1>1, <1>2, LenProperties, ElementOfSeq

LEMMA DecideTyped == ASSUME IInv, learning.at = "decide" PROVE learning.of \in Material
<1>1. \/ learning = Idle
      \/ learning \in [at : {"decide"}, of : Material]
      \/ learning \in [at : {"audit"}, of : Material, action : Action]
  BY DEF IInv, TypeOK
<1>2. learning # Idle BY DEF Idle
<1>3. learning \notin [at : {"audit"}, of : Material, action : Action] OBVIOUS
<1> QED BY <1>1, <1>2, <1>3

LEMMA AuditTyped ==
  ASSUME IInv, learning.at = "audit"
  PROVE  /\ learning \in [at : {"audit"}, of : Material, action : Action]
         /\ AuditLine \in [action : Action, of : Material]
<1>1. \/ learning = Idle
      \/ learning \in [at : {"decide"}, of : Material]
      \/ learning \in [at : {"audit"}, of : Material, action : Action]
  BY DEF IInv, TypeOK
<1>2. learning # Idle BY DEF Idle
<1>3. learning \notin [at : {"decide"}, of : Material] OBVIOUS
<1>4. learning \in [at : {"audit"}, of : Material, action : Action] BY <1>1, <1>2, <1>3
<1> QED BY <1>4 DEF AuditLine

LEMMA FirstIsOne ==
  ASSUME NEW is \in SUBSET Nat, is # {}
  PROVE  First(is) \in is
<1>1. \E k \in is : \A j \in is : ~(<<j, k>> \in OpToRel(<, Nat))
  BY NatLessThanWellFounded, WFMin
<1>2. PICK k \in is : \A j \in is : ~(<<j, k>> \in OpToRel(<, Nat)) BY <1>1
<1>3. ASSUME NEW j \in is PROVE k <= j
  <2>1. j \in Nat /\ k \in Nat OBVIOUS
  <2>2. j < k => <<j, k>> \in OpToRel(<, Nat) BY <2>1, Zenon DEF OpToRel
  <2>3. ~(j < k) BY <1>2, <2>2, Zenon
  <2> QED BY <2>1, <2>3
<1> QED BY <1>3 DEF First

LEMMA FoundMaterialStep == ASSUME IInv, FoundMaterial PROVE IInv'
<1> USE DEF FoundMaterial, service, events, audio, tools, acked
<1> DEFINE x == materials.lines[First(Matches(learning.of))]
<1>1. Matches(learning.of) \in SUBSET DOMAIN materials.lines BY DEF Matches
<1>2. DOMAIN materials.lines \subseteq Nat BY MaterialsTyped, LenProperties
<1>3. First(Matches(learning.of)) \in DOMAIN materials.lines BY <1>1, <1>2, FirstIsOne
<1>4. x \in Material BY <1>3, MaterialsTyped
<1>5. AuditAction(x, learning.of.kind) \in Action BY DEF AuditAction, Origin, Action
<1>6. learning' = Idle \/ learning' \in [at : {"audit"}, of : Material, action : Action]
  BY <1>4, <1>5
<1> HIDE DEF x
<1>7. TypeOK' BY <1>6 DEF IInv, TypeOK
<1> QED BY <1>7, LessonStep

LEMMA OriginTyped == \A kind : Origin(kind) \in Action
BY DEF Origin, Action

LEMMA AppendMaterialStep == ASSUME IInv, AppendMaterial PROVE IInv'
<1> USE DEF AppendMaterial, service, events, audio, tools, acked
<1>1. learning.of \in Material BY DecideTyped
<1>2. materials' \in File(Material) BY <1>1, MaterialsTyped, WithLineOf
<1>3. learning' \in [at : {"audit"}, of : Material, action : Action] BY <1>1, OriginTyped
<1>4. TypeOK' BY <1>2, <1>3 DEF IInv, TypeOK
<1> QED BY <1>4, LessonStep

LEMMA AppendMaterialFailsStep == ASSUME IInv, AppendMaterialFails PROVE IInv'
<1> USE DEF AppendMaterialFails, tools
<1>1. learning.of \in Material BY DecideTyped
<1>2. failures' \in 0 .. MaxFailures BY FailuresTyped
<1>3. CASE learning' = Idle /\ UNCHANGED <<service, materials, known, index, audioIndex, op>>
  <2>1. TypeOK' BY <1>2, <1>3 DEF IInv, TypeOK, service, acked
  <2> QED BY <1>3, <2>1, LessonStep DEF service, events, audio
<1>4. ASSUME NEW left \in Leftover, materials' = Remains(materials, learning.of, left),
             (LeavesFault /\ learning' = Idle /\ UNCHANGED op) \/ Forget
      PROVE  IInv'
  <2>1. materials' \in File(Material) BY <1>1, <1>4, MaterialsTyped, RemainsOf
  <2>2. CASE LeavesFault /\ learning' = Idle /\ UNCHANGED op
    <3>1. TypeOK' BY <1>2, <2>1, <2>2 DEF IInv, TypeOK, LeavesFault, acked
    <3> QED BY <2>2, <3>1, LessonStep DEF LeavesFault, events, audio
  <2>3. CASE Forget
    <3>1. TypeOK' BY <1>2, <2>1, <2>3, ForgetTyped DEF IInv, TypeOK, acked
    <3> QED BY <2>3, <3>1, ForgetStep
  <2> QED BY <1>4, <2>2, <2>3
<1> QED BY <1>3, <1>4

LEMMA AppendAuditStep == ASSUME IInv, AppendAudit PROVE IInv'
<1> USE DEF AppendAudit, service, events, audio, tools, acked
<1>1. AuditLine \in [action : Action, of : Material] BY AuditTyped
<1>2. audit \in File([action : Action, of : Material]) BY DEF IInv, TypeOK
<1>3. audit' \in File([action : Action, of : Material]) BY <1>1, <1>2, WithLineOf
<1>4. TypeOK' BY <1>3 DEF IInv, TypeOK
<1> QED BY <1>4, LessonStep

LEMMA AppendAuditFailsStep == ASSUME IInv, AppendAuditFails PROVE IInv'
<1> USE DEF AppendAuditFails, tools
<1>1. AuditLine \in [action : Action, of : Material] BY AuditTyped
<1>2. failures' \in 0 .. MaxFailures BY FailuresTyped
<1>3. CASE learning' = Idle /\ UNCHANGED <<service, audit, known, index, audioIndex, op>>
  <2>1. TypeOK' BY <1>2, <1>3 DEF IInv, TypeOK, service, acked
  <2> QED BY <1>3, <2>1, LessonStep DEF service, events, audio
<1>4. ASSUME NEW left \in Leftover, audit' = Remains(audit, AuditLine, left),
             (LeavesFault /\ learning' = Idle /\ UNCHANGED op) \/ Forget
      PROVE  IInv'
  <2>1. audit \in File([action : Action, of : Material]) BY DEF IInv, TypeOK
  <2>2. audit' \in File([action : Action, of : Material]) BY <1>1, <1>4, <2>1, RemainsOf
  <2>3. CASE LeavesFault /\ learning' = Idle /\ UNCHANGED op
    <3>1. TypeOK' BY <1>2, <2>2, <2>3 DEF IInv, TypeOK, LeavesFault, acked
    <3> QED BY <2>3, <3>1, LessonStep DEF LeavesFault, events, audio
  <2>4. CASE Forget
    <3>1. TypeOK' BY <1>2, <2>2, <2>4, ForgetTyped DEF IInv, TypeOK, acked
    <3> QED BY <2>4, <3>1, ForgetStep
  <2> QED BY <1>4, <2>3, <2>4
<1> QED BY <1>3, <1>4

-----------------------------------------------------------------------------
(* Start, close, crash, retention, repair.                                 *)

LEMMA RebuiltTyped == RebuiltAudio \subseteq Chunk /\ RebuiltAudio \subseteq Described(inbox.lines)
BY DEF RebuiltAudio, Described

LEMMA StartStep == ASSUME IInv, Start PROVE IInv'
<1> USE DEF Start, lessons, tools, acked
<1>1. /\ inbox \in File(Events) /\ inbox.lines \in Seq(Events)
      /\ DOMAIN inbox.lines = 1 .. Len(inbox.lines) /\ Len(inbox.lines) \in Nat
      /\ Range(inbox.lines) \subseteq Events
  BY LinesOf DEF IInv, TypeOK
<1>2. TypeOK' BY <1>1, RebuiltTyped DEF IInv, TypeOK
<1>3. DownIsEmpty' BY DEF DownIsEmpty
<1>4. InboxFollowsDevice' BY DEF IInv, InboxFollowsDevice
<1>5. MemoryFollows'
  <2>1. \A k \in DOMAIN inbox.lines : inbox.lines[k] = Event(k)
    BY DEF IInv, InboxFollowsDevice
  <2>2. Range(inbox.lines) = {Event(k) : k \in DOMAIN inbox.lines}
    BY <2>1 DEF Range
  <2> QED BY <1>1, <2>1, <2>2 DEF IInv, MemoryFollows
<1>6. EventsAreStored'
  BY DEF IInv, EventsAreStored, DownIsEmpty, Idle
<1>7. AudioIsStored'
  <2>1. op = Idle BY DEF IInv, DownIsEmpty
  <2>2. op'.at \notin {"audio", "audio index"} BY <2>1 DEF Idle
  <2>3. ackedAudio \subseteq RebuiltAudio BY DEF IInv, AudioIsStored, RebuiltAudio
  <2>4. \A c \in RebuiltAudio : artifact[c] = "whole" BY DEF RebuiltAudio
  <2> QED BY <2>2, <2>3, <2>4, RebuiltTyped DEF IInv, AudioIsStored
<1>8. RetainedIsFree' BY DEF RetainedIsFree
<1> QED BY <1>2, <1>3, <1>4, <1>5, <1>6, <1>7, <1>8 DEF IInv

\* initialize writes the indexes anew, one or both of them, and goes no further.
LEMMA Reindexed ==
  ASSUME IInv, lifecycle = "down", retention = {}, failures' \in 0 .. MaxFailures,
         indexFile' = Range(inbox.lines), audioIndexFile' \in {audioIndexFile, RebuiltAudio},
         UNCHANGED <<service, inbox, known, index, artifact, audioIndex, lessons, op, tools,
                     acked>>
  PROVE  IInv'
<1> USE DEF service, lessons, tools, acked
<1>1. inbox \in File(Events) /\ Range(inbox.lines) \subseteq Events
  BY LinesOf DEF IInv, TypeOK
<1>2. audioIndexFile' \subseteq Chunk BY RebuiltTyped DEF IInv, TypeOK
<1>3. TypeOK' BY <1>1, <1>2 DEF IInv, TypeOK
<1>4. DownIsEmpty' BY DEF IInv, DownIsEmpty
<1>5. InboxFollowsDevice' /\ MemoryFollows'
  BY DEF IInv, InboxFollowsDevice, MemoryFollows, Up
<1>6. EventsAreStored' BY DEF IInv, EventsAreStored
<1>7. AudioIsStored'
  <2>1. \A c \in RebuiltAudio : artifact[c] = "whole" BY DEF RebuiltAudio
  <2> QED BY <2>1 DEF IInv, AudioIsStored, Up
<1>8. RetainedIsFree' BY DEF RetainedIsFree
<1> QED BY <1>3, <1>4, <1>5, <1>6, <1>7, <1>8 DEF IInv

LEMMA StartRefusedStep == ASSUME IInv, StartRefused PROVE IInv'
<1>1. failures' \in 0 .. MaxFailures BY DEF IInv, TypeOK, StartRefused
<1> QED BY <1>1, Reindexed DEF StartRefused

LEMMA StartFailsStep == ASSUME IInv, StartFails PROVE IInv'
<1>1. failures' \in 0 .. MaxFailures BY FailuresTyped DEF StartFails
<1> QED BY <1>1, Reindexed DEF StartFails, audio

LEMMA CloseStep == ASSUME IInv, Close PROVE IInv'
<1> USE DEF Close, events, audio, lessons, tools, acked
<1>1. TypeOK' BY DEF IInv, TypeOK
<1>2. DownIsEmpty' BY DEF DownIsEmpty
<1>3. EventsInv'
  BY DEF IInv, EventsInv, InboxFollowsDevice, MemoryFollows, EventsAreStored, Up
<1>4. AudioInv' BY DEF IInv, AudioInv, AudioIsStored, RetainedIsFree, Up
<1> QED BY <1>1, <1>2, <1>3, <1>4 DEF IInv, EventsInv, AudioInv

LEMMA CloseDoneStep == ASSUME IInv, CloseDone PROVE IInv'
<1>1. TypeOK' BY ForgetTyped DEF IInv, TypeOK, CloseDone, tools, acked
<1> QED BY <1>1, ForgetStep DEF CloseDone, tools

LEMMA CrashStep == ASSUME IInv, Crash PROVE IInv'
<1>1. TypeOK' BY ForgetTyped, FailuresTyped DEF IInv, TypeOK, Crash, tools, acked
<1> QED BY <1>1, ForgetStep DEF Crash, tools

\* The index names the artifacts no more before the first of them is deleted.
LEMMA RetainStep ==
  ASSUME IInv, NEW cs \in SUBSET Chunk, Retain(cs)
  PROVE  IInv'
<1> USE DEF Retain, service, events, lessons
<1>1. TypeOK' BY DEF IInv, TypeOK, Retained
<1>2. DownIsEmpty' BY DEF IInv, DownIsEmpty
<1>3. EventsInv'
  BY DEF IInv, EventsInv, InboxFollowsDevice, MemoryFollows, EventsAreStored, Up
<1>4. AudioInv' BY DEF IInv, AudioInv, AudioIsStored, RetainedIsFree, Up, Retained
<1> QED BY <1>1, <1>2, <1>3, <1>4 DEF IInv, EventsInv, AudioInv

LEMMA DeleteStep ==
  ASSUME IInv, NEW c \in Chunk, Delete(c)
  PROVE  IInv'
<1> USE DEF Delete, service, events, lessons, acked
<1>1. TypeOK' BY DEF IInv, TypeOK
<1>2. lifecycle = "down" BY DEF IInv, RetainedIsFree
<1>3. DownIsEmpty' BY DEF IInv, DownIsEmpty
<1>4. EventsInv'
  BY DEF IInv, EventsInv, InboxFollowsDevice, MemoryFollows, EventsAreStored, Up
<1>5. c \notin audioIndex \cup audioIndexFile \cup ackedAudio
  BY <1>2 DEF IInv, DownIsEmpty, RetainedIsFree
<1>6. AudioIsStored'
  <2>1. \A d \in Chunk \ {c} : artifact'[d] = artifact[d] BY DEF IInv, TypeOK
  <2>2. audioIndex \cup audioIndexFile \cup ackedAudio \subseteq Chunk BY DEF IInv, TypeOK
  <2> QED BY <1>5, <2>1, <2>2 DEF IInv, AudioIsStored, Up
<1>7. RetainedIsFree' BY DEF IInv, RetainedIsFree
<1> QED BY <1>1, <1>3, <1>4, <1>6, <1>7 DEF IInv, EventsInv

LEMMA RetentionDiesStep == ASSUME IInv, RetentionDies PROVE IInv'
<1> USE DEF RetentionDies, service, events, audio, lessons, acked
<1>1. TypeOK' BY FailuresTyped DEF IInv, TypeOK
<1>2. DownIsEmpty' BY DEF IInv, DownIsEmpty
<1>3. EventsInv'
  BY DEF IInv, EventsInv, InboxFollowsDevice, MemoryFollows, EventsAreStored, Up
<1>4. AudioIsStored' BY DEF IInv, AudioIsStored, Up
<1>5. RetainedIsFree' BY DEF RetainedIsFree
<1> QED BY <1>1, <1>2, <1>3, <1>4, <1>5 DEF IInv, EventsInv

LEMMA MendedOf ==
  ASSUME NEW S, NEW file \in File(S)
  PROVE  Mended(file) \in File(S) /\ Mended(file).lines = file.lines
BY DEF Mended, File

LEMMA OriginsTyped ==
  ASSUME IInv
  PROVE  [lines |-> Origins, end |-> "clean"] \in File([action : Action, of : Material])
<1> DEFINE R == [action : Action, of : Material]
<1>1. Len(materials.lines) \in Nat /\ DOMAIN materials.lines = 1 .. Len(materials.lines)
  BY MaterialsTyped, LenProperties
<1>2. \A k \in DOMAIN materials.lines :
        [action |-> Origin(materials.lines[k].kind), of |-> materials.lines[k]] \in R
  BY MaterialsTyped, OriginTyped
<1> HIDE DEF R
<1>3. Origins \in [1 .. Len(materials.lines) -> R] BY <1>1, <1>2 DEF Origins
<1>4. Origins \in Seq(R) BY <1>1, <1>3, SeqDef
<1> QED BY <1>4 DEF File, R

LEMMA RepairStep == ASSUME IInv, Repair PROVE IInv'
<1> USE DEF Repair, service, audio, tools, acked
<1>1. /\ inbox' \in File(Events) /\ inbox'.lines = inbox.lines
      /\ materials' \in File(Material)
  BY MendedOf DEF IInv, TypeOK
<1>2. audit' \in File([action : Action, of : Material]) BY OriginsTyped
<1>3. TypeOK' BY <1>1, <1>2 DEF IInv, TypeOK
<1>4. DownIsEmpty' BY DEF IInv, DownIsEmpty
<1>5. EventsInv'
  BY <1>1 DEF IInv, EventsInv, InboxFollowsDevice, MemoryFollows, EventsAreStored, Up
<1>6. AudioInv' BY <1>1 DEF IInv, AudioInv, AudioIsStored, RetainedIsFree, Up
<1> QED BY <1>3, <1>4, <1>5, <1>6 DEF IInv, EventsInv, AudioInv

-----------------------------------------------------------------------------
(* The invariant.                                                          *)

LEMMA InitIInv == Init => IInv
<1> SUFFICES ASSUME Init PROVE IInv OBVIOUS
<1> USE DEF Init
<1>1. TypeOK
  <2>1. EmptyFile \in File(Events) /\ EmptyFile \in File(Material)
        /\ EmptyFile \in File([action : Action, of : Material])
    BY EmptySeq DEF EmptyFile, File
  <2>2. MaxFailures \in Nat BY ReceiverAssumption
  <2>3. [r \in Runner |-> NoAgent] \in [Runner -> AgentState] BY NoAgentTyped
  <2>4. <<>> \in Seq(Events) BY EmptySeq
  <2>5. [c \in Chunk |-> "none"] \in [Chunk -> {"none", "part", "whole"}] OBVIOUS
  <2>6. /\ inbox \in File(Events) /\ known \in Seq(Events)
        /\ materials \in File(Material) /\ audit \in File([action : Action, of : Material])
    BY <2>1, <2>4
  <2>7. failures \in 0 .. MaxFailures /\ op = Idle /\ learning = Idle BY <2>2
  <2> QED BY <2>3, <2>5, <2>6, <2>7 DEF TypeOK
<1>2. DownIsEmpty BY DEF DownIsEmpty
<1>3. InboxFollowsDevice /\ MemoryFollows
  BY LocalLen DEF InboxFollowsDevice, MemoryFollows, EmptyFile, Up
<1>4. EventsAreStored BY DEF EventsAreStored, Idle
<1>5. AudioIsStored BY DEF AudioIsStored, Idle
<1>6. RetainedIsFree BY DEF RetainedIsFree
<1> QED BY <1>1, <1>2, <1>3, <1>4, <1>5, <1>6 DEF IInv

LEMMA StutterStep == ASSUME IInv, UNCHANGED vars PROVE IInv'
<1> USE DEF vars
<1>1. TypeOK' BY DEF IInv, TypeOK
<1>2. DownIsEmpty' BY DEF IInv, DownIsEmpty
<1>3. EventsInv'
  BY DEF IInv, EventsInv, InboxFollowsDevice, MemoryFollows, EventsAreStored, Up
<1>4. AudioInv' BY DEF IInv, AudioInv, AudioIsStored, RetainedIsFree, Up
<1> QED BY <1>1, <1>2, <1>3, <1>4 DEF IInv, EventsInv, AudioInv

\* Every action keeps the invariant.
LEMMA Inductive == IInv /\ [Next]_vars => IInv'
<1> SUFFICES ASSUME IInv, [Next]_vars PROVE IInv' OBVIOUS
<1>1. ASSUME NEW i \in DOMAIN Local, ReceiveDuplicate(i) PROVE IInv' BY <1>1, ReceiveDuplicateStep
<1>2. ASSUME NEW i \in DOMAIN Local, AppendEvent(i) PROVE IInv' BY <1>2, AppendEventStep
<1>3. ASSUME NEW i \in DOMAIN Local, AppendEventFails(i) PROVE IInv' BY <1>3, AppendEventFailsStep
<1>4. CASE WriteIndex BY <1>4, WriteIndexStep
<1>5. CASE WriteIndexFails BY <1>5, OpFails DEF WriteIndexFails
<1>6. ASSUME NEW c \in Chunk, DuplicateAudio(c) PROVE IInv' BY <1>6, DuplicateAudioStep
<1>7. ASSUME NEW c \in Chunk, WriteAudio(c) PROVE IInv' BY <1>7, WriteAudioStep
<1>8. ASSUME NEW c \in Chunk, Delete(c) PROVE IInv' BY <1>8, DeleteStep
<1>9. CASE AudioWritten BY <1>9, AudioWrittenStep
<1>10. CASE AudioWriteFails BY <1>10, OpFails DEF AudioWriteFails
<1>11. CASE WriteAudioIndex BY <1>11, WriteAudioIndexStep
<1>12. CASE WriteAudioIndexFails BY <1>12, OpFails DEF WriteAudioIndexFails
<1>13. ASSUME NEW n \in BaselineName, Generate(n) PROVE IInv' BY <1>13, GenerateStep
<1>14. ASSUME NEW r \in Runner, BatchAudits(r) PROVE IInv' BY <1>14, BatchAuditsStep
<1>15. ASSUME NEW r \in Runner, AgentFetches(r) PROVE IInv' BY <1>15, AgentFetchesStep
<1>16. ASSUME NEW r \in Runner, AgentFails(r) PROVE IInv' BY <1>16, AgentFailsStep
<1>17. ASSUME NEW r \in Runner, NEW n \in AgentName, Import(r, n) PROVE IInv'
  BY <1>17, ImportStep
<1>18. CASE FoundMaterial BY <1>18, FoundMaterialStep
<1>19. CASE AppendMaterial BY <1>19, AppendMaterialStep
<1>20. CASE AppendMaterialFails BY <1>20, AppendMaterialFailsStep
<1>21. CASE AppendAudit BY <1>21, AppendAuditStep
<1>22. CASE AppendAuditFails BY <1>22, AppendAuditFailsStep
<1>23. CASE Start BY <1>23, StartStep
<1>24. CASE StartRefused BY <1>24, StartRefusedStep
<1>25. CASE StartFails BY <1>25, StartFailsStep
<1>26. CASE Close BY <1>26, CloseStep
<1>27. CASE CloseDone BY <1>27, CloseDoneStep
<1>28. CASE Crash BY <1>28, CrashStep
<1>29. ASSUME NEW cs \in SUBSET Chunk, Retain(cs) PROVE IInv' BY <1>29, RetainStep
<1>30. CASE RetentionDies BY <1>30, RetentionDiesStep
<1>31. CASE Repair BY <1>31, RepairStep
<1>32. CASE UNCHANGED vars BY <1>32, StutterStep
<1> QED
  BY <1>1, <1>2, <1>3, <1>4, <1>5, <1>6, <1>7, <1>8, <1>9, <1>10, <1>11, <1>12, <1>13, <1>14,
     <1>15, <1>16, <1>17, <1>18, <1>19, <1>20, <1>21, <1>22, <1>23, <1>24, <1>25, <1>26,
     <1>27, <1>28, <1>29, <1>30, <1>31, <1>32
  DEF Next

\* The invariant holds of every instance of the receiver.
THEOREM Invariant == Spec => []IInv
<1>1. Init => IInv BY InitIInv
<1>2. IInv /\ [Next]_vars => IInv' BY Inductive
<1> QED BY <1>1, <1>2, PTL DEF Spec

\* The types of the receiver's files, of its memory and of its tasks.
THEOREM TypeCorrect == Spec => []TypeOK
<1>1. IInv => TypeOK BY DEF IInv
<1> QED BY <1>1, Invariant, PTL

\* The inbox is what the device has recorded, in its order, without gap or repetition.
THEOREM InboxAlwaysFollows == Spec => []InboxFollowsDevice
<1>1. IInv => InboxFollowsDevice BY DEF IInv
<1> QED BY <1>1, Invariant, PTL

\* What is acknowledged is stored, through failed writes, crashes and restarts, until the
\* retention tool deletes it.
THEOREM AlwaysStored == Spec => []AcknowledgedIsStored
<1>1. IInv => AcknowledgedIsStored
  BY DEF IInv, AcknowledgedIsStored, EventsAreStored, AudioIsStored
<1> QED BY <1>1, Invariant, PTL

\* No index names what is not there.
THEOREM IndexesAlwaysName == Spec => []IndexesNameStoredData
<1>1. IInv => IndexesNameStoredData
  BY KnownIsStored DEF IInv, IndexesNameStoredData, EventsAreStored, AudioIsStored
<1> QED BY <1>1, Invariant, PTL

-----------------------------------------------------------------------------
(* What can be read again.                                                 *)

\* The only leftover that is read as a line and then joined to the next is excluded.
Terminated == "unterminated" \notin Leftover

LEMMA WholeWithLine ==
  ASSUME NEW file, NEW x, Whole(file)
  PROVE  Whole(WithLine(file, x)) /\ (Readable(file) => Readable(WithLine(file, x)))
BY DEF Whole, WithLine, Readable

LEMMA WholeRemains ==
  ASSUME Terminated, NEW S, NEW file \in File(S), NEW x, NEW left \in Leftover, Whole(file)
  PROVE  Whole(Remains(file, x, left))
<1>1. left \in {"nothing", "part", "line"} BY ReceiverAssumption DEF Terminated
<1> QED BY <1>1 DEF Whole, Remains, WithLine, File

LEMMA FilesTyped ==
  ASSUME TypeOK
  PROVE  /\ inbox \in File(Events) /\ materials \in File(Material)
         /\ audit \in File([action : Action, of : Material])
BY DEF TypeOK

LEMMA WholeMended == ASSUME NEW S, NEW file \in File(S) PROVE Mended(file).end = "clean"
BY DEF Mended, File

LEMMA WholeInit == Init => FilesAreWhole
BY DEF Init, FilesAreWhole, Whole, EmptyFile, HealthyIsReadable, Up

\* No step leaves a file that its process would read, and take for healthy, but not read
\* again.
LEMMA WholeStep ==
  ASSUME Terminated, IInv, FilesAreWhole, [Next]_vars
  PROVE  FilesAreWhole'
<1> USE DEF FilesAreWhole, HealthyIsReadable
<1>1. CASE UNCHANGED <<inbox, materials, audit>> /\ ~(Up /\ ~fault)'
  BY <1>1 DEF Whole
<1>2. CASE UNCHANGED <<inbox, materials, audit, fault>> /\ Up' = Up
  BY <1>2 DEF Whole, Readable
<1>3. ASSUME NEW i \in DOMAIN Local, AppendEvent(i) PROVE FilesAreWhole'
  BY <1>3, WholeWithLine DEF AppendEvent, lessons, service, Up, Readable, Whole
<1>4. ASSUME NEW i \in DOMAIN Local, AppendEventFails(i) PROVE FilesAreWhole'
  <2>1. ASSUME NEW left \in Leftover, inbox' = Remains(inbox, Event(i), left)
        PROVE  Whole(inbox')
    BY <2>1, WholeRemains, FilesTyped DEF IInv
  <2>2. UNCHANGED <<materials, audit>> BY <1>4 DEF AppendEventFails
  <2>3. CASE UNCHANGED <<service, inbox, known, index, audioIndex, op, learning>>
    BY <1>2, <2>2, <2>3 DEF service, Up
  <2>4. ASSUME NEW left \in Leftover, inbox' = Remains(inbox, Event(i), left),
               LeavesFault \/ Forget
        PROVE  FilesAreWhole'
    <3>1. ~(Up /\ ~fault)' BY <2>4 DEF LeavesFault, Forget, Up
    <3> QED BY <2>1, <2>2, <2>4, <3>1 DEF Whole
  <2> QED BY <1>4, <2>3, <2>4 DEF AppendEventFails
<1>5. CASE AppendMaterial
  BY <1>5, WholeWithLine DEF AppendMaterial, events, service, Up, Readable, Whole
<1>6. CASE AppendMaterialFails
  <2>1. ASSUME NEW left \in Leftover, materials' = Remains(materials, learning.of, left)
        PROVE  Whole(materials')
    BY <2>1, WholeRemains, FilesTyped DEF IInv
  <2>2. UNCHANGED <<inbox, audit>> BY <1>6 DEF AppendMaterialFails
  <2>3. CASE UNCHANGED <<service, materials>> BY <1>2, <2>2, <2>3 DEF service, Up
  <2>4. ASSUME NEW left \in Leftover, materials' = Remains(materials, learning.of, left),
               LeavesFault \/ Forget
        PROVE  FilesAreWhole'
    <3>1. ~(Up /\ ~fault)' BY <2>4 DEF LeavesFault, Forget, Up
    <3> QED BY <2>1, <2>2, <2>4, <3>1 DEF Whole
  <2> QED BY <1>6, <2>3, <2>4 DEF AppendMaterialFails
<1>7. CASE AppendAudit
  BY <1>7, WholeWithLine DEF AppendAudit, events, service, Up, Readable, Whole
<1>8. CASE AppendAuditFails
  <2>1. ASSUME NEW left \in Leftover, audit' = Remains(audit, AuditLine, left)
        PROVE  Whole(audit')
    BY <2>1, WholeRemains, FilesTyped DEF IInv
  <2>2. UNCHANGED <<inbox, materials>> BY <1>8 DEF AppendAuditFails
  <2>3. CASE UNCHANGED <<service, audit>> BY <1>2, <2>2, <2>3 DEF service, Up
  <2>4. ASSUME NEW left \in Leftover, audit' = Remains(audit, AuditLine, left),
               LeavesFault \/ Forget
        PROVE  FilesAreWhole'
    <3>1. ~(Up /\ ~fault)' BY <2>4 DEF LeavesFault, Forget, Up
    <3> QED BY <2>1, <2>2, <2>4, <3>1 DEF Whole
  <2> QED BY <1>8, <2>3, <2>4 DEF AppendAuditFails
\* A receiver starts only with files it can read.
<1>9. CASE Start
  BY <1>9 DEF Start, lessons, InboxLoads, LearningLoads, Readable, Whole
<1>10. CASE Repair
  <2>1. inbox'.end = "clean" /\ materials'.end = "clean" /\ audit'.end = "clean"
    BY <1>10, WholeMended, FilesTyped DEF Repair, IInv
  <2> QED BY <2>1 DEF Whole, Readable
<1>11. CASE Close \/ CloseDone \/ Crash
  <2>1. UNCHANGED <<inbox, materials, audit>>
    BY <1>11 DEF Close, CloseDone, Crash, events, lessons
  <2>2. (UNCHANGED fault /\ Up' = Up) \/ ~Up'
    BY <1>11 DEF Close, CloseDone, Crash, Forget, Up
  <2> QED BY <1>1, <1>2, <2>1, <2>2
<1>12. ASSUME Next,
              \A i \in DOMAIN Local : ~AppendEvent(i) /\ ~AppendEventFails(i),
              ~AppendMaterial, ~AppendMaterialFails, ~AppendAudit, ~AppendAuditFails,
              ~Start, ~Repair, ~Close, ~CloseDone, ~Crash
       PROVE  FilesAreWhole'
  <2>1. UNCHANGED <<inbox, materials, audit, fault, lifecycle>>
    BY <1>12 DEF Next, ReceiveDuplicate, WriteIndex, WriteIndexFails, DuplicateAudio, WriteAudio,
      Delete, AudioWritten, AudioWriteFails, WriteAudioIndex, WriteAudioIndexFails, Generate,
      Import, BeginMaterial, BatchAudits, AgentFetches, AgentFails, RunnerMoves, FoundMaterial,
      StartRefused,
      StartFails, Retain, RetentionDies, service, events, audio, lessons
  <2> QED BY <1>2, <2>1 DEF Up
<1>13. CASE UNCHANGED vars BY <1>2, <1>13 DEF vars, Up
<1> QED
  BY <1>3, <1>4, <1>5, <1>6, <1>7, <1>8, <1>9, <1>10, <1>11, <1>12, <1>13

\* Files in which no append leaves a line without its newline can be read again by
\* whoever reports no fault.
THEOREM AlwaysReadable == ASSUME Terminated PROVE Spec => []HealthyIsReadable
<1>1. Init => FilesAreWhole BY WholeInit
<1>2. IInv /\ FilesAreWhole /\ [Next]_vars => FilesAreWhole' BY Terminated, WholeStep
<1>3. FilesAreWhole => HealthyIsReadable BY DEF FilesAreWhole
<1> QED BY <1>1, <1>2, <1>3, Invariant, PTL DEF Spec

-----------------------------------------------------------------------------
(* The audit of the learning materials.                                    *)

\* No agent answers under a name that is also asked of the baseline generator.
NamesAreTheirs == BaselineName \cap AgentName = {}

\* The materials whose origin is missing, the one apart that is about to be given one.
Lost == WithoutOrigin \ IF learning.at = "audit" THEN {learning.of} ELSE {}

\* The inductive invariant of the audit; each missing origin has cost a failure.
AuditInv ==
  /\ \A r \in Range(audit.lines) : Fits(r)
  /\ learning.at = "audit" => Fits(AuditLine)
  /\ learning.at = "audit" /\ learning.action = "existing" => HasOrigin(learning.of)
  /\ Cardinality(Lost) <= failures

LEMMA LostIsFinite ==
  ASSUME TypeOK
  PROVE  IsFiniteSet(WithoutOrigin) /\ IsFiniteSet(Lost) /\ Cardinality(Lost) \in Nat
<1>1. Len(materials.lines) \in Nat /\ DOMAIN materials.lines = 1 .. Len(materials.lines)
      /\ materials.lines \in Seq(Material)
  BY LinesOf DEF TypeOK
<1> DEFINE f == materials.lines  S == 1 .. Len(materials.lines)
<1>2. f \in [S -> Range(f)] BY <1>1, LenProperties DEF Range
<1>3. f \in Surjection(S, Range(f)) BY <1>1, <1>2 DEF Surjection, Range
<1>4. IsFiniteSet(S)
  <2>1. 1 \in Int /\ Len(materials.lines) \in Int BY <1>1
  <2> QED BY <2>1, FS_Interval, Zenon
<1>5. IsFiniteSet(Range(f)) BY <1>3, <1>4, FS_Surjection
<1>6. WithoutOrigin \subseteq Range(f) /\ Lost \subseteq Range(f) BY DEF WithoutOrigin, Lost
<1>7. IsFiniteSet(WithoutOrigin) /\ IsFiniteSet(Lost) BY <1>5, <1>6, FS_Subset
<1> QED BY <1>7, FS_CardinalityType

LEMMA LostIsFiniteNext == TypeOK' => (IsFiniteSet(Lost) /\ Cardinality(Lost) \in Nat)'
<1>1. TypeOK => IsFiniteSet(Lost) /\ Cardinality(Lost) \in Nat BY LostIsFinite
<1> QED BY <1>1, PTL

\* A step that costs a failure may lose an origin; another may not.
LEMMA LostStep ==
  ASSUME TypeOK, TypeOK', Cardinality(Lost) <= failures,
         \/ Lost' \subseteq Lost /\ failures' \in {failures, failures + 1}
         \/ (\E x : Lost' \subseteq Lost \cup {x}) /\ failures' = failures + 1
  PROVE  Cardinality(Lost') <= failures'
<1>1. IsFiniteSet(Lost) /\ Cardinality(Lost) \in Nat BY LostIsFinite
<1>2. IsFiniteSet(Lost') /\ Cardinality(Lost') \in Nat BY LostIsFiniteNext
<1>3. failures \in Nat /\ failures' \in Nat
  <2>1. MaxFailures \in Nat BY ReceiverAssumption
  <2>2. failures \in 0 .. MaxFailures /\ failures' \in 0 .. MaxFailures BY DEF TypeOK
  <2> QED BY <2>1, <2>2
<1>4. CASE Lost' \subseteq Lost /\ failures' \in {failures, failures + 1}
  <2>1. Cardinality(Lost') <= Cardinality(Lost) BY <1>1, <1>4, FS_Subset
  <2> QED BY <1>1, <1>2, <1>3, <1>4, <2>1
<1>5. ASSUME NEW x, Lost' \subseteq Lost \cup {x}, failures' = failures + 1
      PROVE  Cardinality(Lost') <= failures'
  <2>1. /\ IsFiniteSet(Lost \cup {x})
        /\ Cardinality(Lost \cup {x}) \in {Cardinality(Lost), Cardinality(Lost) + 1}
    BY <1>1, FS_AddElement
  <2>2. Cardinality(Lost') <= Cardinality(Lost \cup {x}) BY <1>5, <2>1, FS_Subset
  <2> QED BY <1>1, <1>2, <1>3, <1>5, <2>1, <2>2
<1> QED BY <1>4, <1>5

\* What is written of a task that goes on, is over or is forgotten.
LEMMA FailuresGrow ==
  ASSUME IInv, [Next]_vars
  PROVE  failures' \in {failures, failures + 1}
BY DEF Next, vars, Inject, ReceiveDuplicate, AppendEvent, AppendEventFails, WriteIndex,
  WriteIndexFails, DuplicateAudio, WriteAudio, Delete, AudioWritten, AudioWriteFails,
  WriteAudioIndex, WriteAudioIndexFails, Generate, Import, BeginMaterial, BatchAudits,
  AgentFetches, AgentFails, RunnerMoves, FoundMaterial, AppendMaterial, AppendMaterialFails,
  AppendAudit, AppendAuditFails, Start, StartRefused, StartFails, Close, CloseDone, Crash, Retain,
  RetentionDies, Repair

LEMMA AuditIdle ==
  ASSUME IInv, IInv', AuditInv, UNCHANGED <<materials, audit>>, failures' \in {failures, failures + 1},
         \/ learning' = learning
         \/ learning.at # "audit" /\ learning'.at # "audit"
         \/ learning'.at # "audit" /\ failures' = failures + 1
  PROVE  AuditInv'
<1>1. \A r : Fits(r)' <=> Fits(r) BY DEF Fits
<1>2. WithoutOrigin' = WithoutOrigin BY DEF WithoutOrigin, HasOrigin
<1>3. \A r \in Range(audit'.lines) : Fits(r)' BY <1>1 DEF AuditInv
<1>4. learning' = learning \/ learning'.at # "audit" OBVIOUS
<1>5. learning'.at = "audit" => Fits(AuditLine)' BY <1>1, <1>4 DEF AuditInv, AuditLine, Fits
<1>6. learning'.at = "audit" /\ learning'.action = "existing" => HasOrigin(learning.of)'
  BY <1>4 DEF AuditInv, HasOrigin
<1>7. \/ Lost' \subseteq Lost
      \/ Lost' \subseteq Lost \cup {learning.of} /\ failures' = failures + 1
  BY <1>2 DEF Lost
<1>8. Cardinality(Lost') <= failures'
  BY <1>7, LostStep DEF IInv, AuditInv
<1> QED BY <1>3, <1>5, <1>6, <1>8 DEF AuditInv

\* A material is found under its own name only.
LEMMA FoundIsOfKind ==
  ASSUME NamesAreTheirs, NEW m \in Material, NEW y \in Material,
         IF m.kind = "baseline" THEN y.bundle = m.bundle /\ y.name = m.name ELSE y = m
  PROVE  y.kind = m.kind
BY DEF NamesAreTheirs, Material

LEMMA FoundMaterialAudit ==
  ASSUME NamesAreTheirs, IInv, IInv', AuditInv, FoundMaterial
  PROVE  AuditInv'
<1> USE DEF FoundMaterial
<1>1. CASE ~Readable(audit)
  <2>1. learning' = Idle BY <1>1
  <2>2. learning'.at # "audit" BY <2>1 DEF Idle
  <2> QED BY <2>2, AuditIdle
<1>2. CASE Readable(audit)
  <2> DEFINE y == materials.lines[First(Matches(learning.of))]
  <2>1. First(Matches(learning.of)) \in Matches(learning.of)
    <3>1. DOMAIN materials.lines \subseteq Nat BY MaterialsTyped, LenProperties
    <3>2. Matches(learning.of) \in SUBSET Nat BY <3>1 DEF Matches
    <3> QED BY <3>2, FirstIsOne
  <2>2. y \in Range(materials.lines) /\ y \in Material
    BY <2>1, MaterialsTyped DEF Matches, Range
  <2>3. y.kind = learning.of.kind
    BY <2>1, <2>2, DecideTyped, FoundIsOfKind DEF Matches
  <2>4. learning' = [at |-> "audit", of |-> y, action |-> AuditAction(y, learning.of.kind)]
    BY <1>2
  <2> HIDE DEF y
  <2>5. \A r : Fits(r)' <=> Fits(r) BY DEF Fits
  <2>6. WithoutOrigin' = WithoutOrigin /\ \A m : HasOrigin(m)' <=> HasOrigin(m)
    BY DEF WithoutOrigin, HasOrigin
  <2>7. \A r \in Range(audit'.lines) : Fits(r)' BY <2>5 DEF AuditInv
  <2>8. Fits(AuditLine)' BY <2>2, <2>3, <2>4 DEF Fits, AuditLine, AuditAction
  <2>9. learning'.action = "existing" => HasOrigin(learning.of)'
    <3>1. Origin(learning.of.kind) # "existing" BY DEF Origin
    <3>2. learning'.action = AuditAction(y, learning.of.kind) /\ learning'.of = y BY <2>4
    <3>3. learning'.action = "existing" => HasOrigin(y) BY <3>1, <3>2 DEF AuditAction
    <3> QED BY <2>6, <3>2, <3>3 DEF HasOrigin
  <2>10. Lost' \subseteq Lost BY <2>6 DEF Lost
  <2>11. Cardinality(Lost') <= failures' BY <2>10, LostStep DEF IInv, AuditInv
  <2> QED BY <2>7, <2>8, <2>9, <2>11 DEF AuditInv
<1> QED BY <1>1, <1>2

\* A line more, of materials or of the audit, that is whole or lost.
LEMMA MaterialsGrow ==
  ASSUME IInv, IInv', AuditInv, UNCHANGED audit,
         learning.at = "decide", NEW m, learning.of = m,
         Range(materials'.lines) \subseteq Range(materials.lines) \cup {m},
         Range(materials.lines) \subseteq Range(materials'.lines),
         \/ learning'.at # "audit" /\ failures' = failures + 1
         \/ /\ learning' = [at |-> "audit", of |-> m, action |-> Origin(m.kind)]
            /\ m \in Range(materials'.lines) /\ failures' = failures
  PROVE  AuditInv'
<1>1. \A r : Fits(r) => Fits(r)' BY DEF Fits
<1>2. \A r \in Range(audit'.lines) : Fits(r)' BY <1>1 DEF AuditInv
<1>3. WithoutOrigin' \subseteq WithoutOrigin \cup {m} BY DEF WithoutOrigin, HasOrigin
<1>4. learning'.at = "audit" => Fits(AuditLine)' BY DEF Fits, AuditLine
<1>5. learning'.at = "audit" => learning'.action # "existing" BY DEF Origin
<1>6. \/ Lost' \subseteq Lost /\ failures' \in {failures, failures + 1}
      \/ Lost' \subseteq Lost \cup {m} /\ failures' = failures + 1
  BY <1>3 DEF Lost
<1>7. Cardinality(Lost') <= failures' BY <1>6, LostStep DEF IInv, AuditInv
<1> QED BY <1>2, <1>4, <1>5, <1>7 DEF AuditInv

LEMMA AppendMaterialAudit ==
  ASSUME IInv, IInv', AuditInv, AppendMaterial
  PROVE  AuditInv'
<1> USE DEF AppendMaterial
<1>1. learning.of \in Material BY DecideTyped
<1>2. materials'.lines = Append(materials.lines, learning.of)
  BY <1>1, MaterialsTyped, WithLineOf
<1>3. Range(materials'.lines) = Range(materials.lines) \cup {learning.of}
  BY <1>2, MaterialsTyped, RangeOfAppend
<1> QED BY <1>3, MaterialsGrow

LEMMA AppendMaterialFailsAudit ==
  ASSUME IInv, IInv', AuditInv, AppendMaterialFails
  PROVE  AuditInv'
<1> USE DEF AppendMaterialFails, Inject
<1>1. learning.of \in Material BY DecideTyped
<1>2. learning'.at # "audit" BY DEF Forget, Idle
<1>3. materials'.lines = materials.lines \/ materials'.lines = Append(materials.lines, learning.of)
  <2>1. CASE UNCHANGED materials BY <2>1
  <2>2. ASSUME NEW left \in Leftover, materials' = Remains(materials, learning.of, left)
        PROVE  \/ materials'.lines = materials.lines
               \/ materials'.lines = Append(materials.lines, learning.of)
    <3>1. /\ Remains(materials, learning.of, left) \in File(Material)
          /\ \/ Remains(materials, learning.of, left).lines = materials.lines
             \/ Remains(materials, learning.of, left).lines
                  = Append(materials.lines, learning.of)
      BY <1>1, <2>2, MaterialsTyped, RemainsOf
    <3> QED BY <2>2, <3>1
  <2> QED BY <2>1, <2>2
<1>4. /\ Range(materials'.lines) \subseteq Range(materials.lines) \cup {learning.of}
      /\ Range(materials.lines) \subseteq Range(materials'.lines)
  <2>1. Range(Append(materials.lines, learning.of)) = Range(materials.lines) \cup {learning.of}
    BY MaterialsTyped, RangeOfAppend
  <2> QED BY <1>3, <2>1
<1> QED BY <1>2, <1>4, MaterialsGrow

\* A line of the audit is written, or perhaps written.
LEMMA AuditGrows ==
  ASSUME IInv, IInv', AuditInv, UNCHANGED materials,
         learning.at = "audit", learning'.at # "audit",
         Range(audit'.lines) \subseteq Range(audit.lines) \cup {AuditLine},
         Range(audit.lines) \subseteq Range(audit'.lines),
         \/ failures' = failures + 1
         \/ AuditLine \in Range(audit'.lines) /\ failures' = failures
  PROVE  AuditInv'
<1>1. \A r : Fits(r)' <=> Fits(r) BY DEF Fits
<1>2. \A r \in Range(audit'.lines) : Fits(r)' BY <1>1 DEF AuditInv
<1>3. \A m : HasOrigin(m) => HasOrigin(m)' BY DEF HasOrigin
<1>4. WithoutOrigin' \subseteq WithoutOrigin BY <1>3 DEF WithoutOrigin
<1>5. CASE failures' = failures + 1
  <2>1. Lost' \subseteq Lost \cup {learning.of} BY <1>4 DEF Lost
  <2> QED BY <1>2, <1>5, <2>1, LostStep DEF IInv, AuditInv
<1>6. CASE AuditLine \in Range(audit'.lines) /\ failures' = failures
  <2>1. \E r \in Range(audit'.lines) : r.of = learning.of /\ r.action # "existing"
    <3>1. CASE learning.action = "existing"
      <4>1. HasOrigin(learning.of) BY <3>1 DEF AuditInv
      <4> QED BY <4>1 DEF HasOrigin
    <3>2. CASE learning.action # "existing"
      BY <1>6, <3>2 DEF AuditLine
    <3> QED BY <3>1, <3>2
  <2>2. Lost' \subseteq Lost BY <1>4, <2>1 DEF Lost, WithoutOrigin, HasOrigin
  <2> QED BY <1>2, <1>6, <2>2, LostStep DEF IInv, AuditInv
<1> QED BY <1>5, <1>6

LEMMA AppendAuditAudit ==
  ASSUME IInv, IInv', AuditInv, AppendAudit
  PROVE  AuditInv'
<1> DEFINE R == [action : Action, of : Material]
<1>1. learning.at = "audit" /\ UNCHANGED <<materials, failures>> /\ learning'.at # "audit"
      /\ audit' = WithLine(audit, AuditLine)
  BY DEF AppendAudit, Idle
<1>2. AuditLine \in R BY <1>1, AuditTyped
<1>3. audit \in File(R) BY DEF IInv, TypeOK
<1> HIDE DEF R
<1>4. audit.lines \in Seq(R) BY <1>3, LinesOf
<1>5. audit'.lines = Append(audit.lines, AuditLine) BY <1>1 DEF WithLine
<1>6. Range(audit'.lines) = Range(audit.lines) \cup {AuditLine} BY <1>4, <1>5, RangeOfAppend
<1> QED BY <1>1, <1>6, AuditGrows

LEMMA AppendAuditFailsAudit ==
  ASSUME IInv, IInv', AuditInv, AppendAuditFails
  PROVE  AuditInv'
<1> USE DEF AppendAuditFails, Inject
<1> DEFINE R == [action : Action, of : Material]
<1>1. AuditLine \in R BY AuditTyped
<1>2. audit \in File(R)
      /\ audit.lines \in Seq(R)
  BY LinesOf DEF IInv, TypeOK
<1> HIDE DEF R
<1>3. learning'.at # "audit" BY DEF Forget, Idle
<1>4. audit'.lines = audit.lines \/ audit'.lines = Append(audit.lines, AuditLine)
  <2>1. CASE UNCHANGED audit BY <2>1
  <2>2. ASSUME NEW left \in Leftover, audit' = Remains(audit, AuditLine, left)
        PROVE  audit'.lines = audit.lines \/ audit'.lines = Append(audit.lines, AuditLine)
    <3>1. /\ Remains(audit, AuditLine, left) \in File(R)
          /\ \/ Remains(audit, AuditLine, left).lines = audit.lines
             \/ Remains(audit, AuditLine, left).lines = Append(audit.lines, AuditLine)
      BY <1>1, <1>2, <2>2, RemainsOf
    <3> QED BY <2>2, <3>1
  <2> QED BY <2>1, <2>2
<1>5. Range(Append(audit.lines, AuditLine)) = Range(audit.lines) \cup {AuditLine}
  BY <1>2, RangeOfAppend
<1> QED BY <1>3, <1>4, <1>5, AuditGrows

\* The audit that an operator writes anew gives each material its origin, and no other.
LEMMA RepairAudit ==
  ASSUME IInv, IInv', AuditInv, Repair
  PROVE  AuditInv'
<1> USE DEF Repair
<1>1. materials'.lines = materials.lines BY MendedOf DEF IInv, TypeOK
<1>2. learning' = Idle BY DEF IInv, DownIsEmpty
<1>3. learning'.at # "audit" BY <1>2 DEF Idle
<1>4. audit'.lines = Origins OBVIOUS
<1>5. \A r \in Range(Origins) :
        r.of \in Range(materials.lines) /\ r.action = Origin(r.of.kind)
  BY DEF Origins, Range
<1>6. \A m \in Range(materials.lines) :
        \E r \in Range(Origins) : r.of = m /\ r.action # "existing"
  <2>1. ASSUME NEW k \in DOMAIN materials.lines
        PROVE  \E r \in Range(Origins) : r.of = materials.lines[k] /\ r.action # "existing"
    <3>1. /\ Origins[k] \in Range(Origins) /\ Origins[k].of = materials.lines[k]
          /\ Origins[k].action = Origin(materials.lines[k].kind)
      BY DEF Origins, Range
    <3> QED BY <3>1 DEF Origin
  <2> QED BY <2>1 DEF Range
<1>7. \A r \in Range(audit'.lines) : Fits(r)' BY <1>1, <1>4, <1>5 DEF Fits
<1>8. WithoutOrigin' = {} BY <1>1, <1>4, <1>6 DEF WithoutOrigin, HasOrigin
<1>9. Lost' \subseteq Lost BY <1>8 DEF Lost
<1>10. Cardinality(Lost') <= failures' BY <1>9, LostStep DEF IInv, AuditInv
<1> QED BY <1>3, <1>7, <1>10 DEF AuditInv

LEMMA AuditInductive ==
  ASSUME NamesAreTheirs, IInv, IInv', AuditInv, [Next]_vars
  PROVE  AuditInv'
<1>1. failures' \in {failures, failures + 1} BY FailuresGrow
<1>2. CASE FoundMaterial BY <1>2, FoundMaterialAudit
<1>3. CASE AppendMaterial BY <1>3, AppendMaterialAudit
<1>4. CASE AppendMaterialFails BY <1>4, AppendMaterialFailsAudit
<1>5. CASE AppendAudit BY <1>5, AppendAuditAudit
<1>6. CASE AppendAuditFails BY <1>6, AppendAuditFailsAudit
<1>7. CASE Repair BY <1>7, RepairAudit
<1>8. CASE \/ \E n \in BaselineName : Generate(n)
           \/ \E r \in Runner, n \in AgentName : Import(r, n)
  <2>1. learning.at # "audit" /\ learning'.at # "audit" /\ UNCHANGED <<materials, audit>>
    BY <1>8 DEF Generate, Import, BeginMaterial, LearningTurn, Idle
  <2> QED BY <1>1, <2>1, AuditIdle
<1>9. CASE \E i \in DOMAIN Local : AppendEventFails(i)
  <2>1. UNCHANGED <<materials, audit>> /\ failures' = failures + 1
    BY <1>9 DEF AppendEventFails, Inject
  <2>2. learning' = learning \/ learning'.at # "audit"
    BY <1>9 DEF AppendEventFails, Forget, Idle
  <2> QED BY <1>1, <2>1, <2>2, AuditIdle
<1>10. CASE CloseDone \/ Crash
  <2>1. UNCHANGED <<materials, audit>> /\ learning'.at # "audit"
    BY <1>10 DEF CloseDone, Crash, Forget, Idle
  <2>2. learning.at # "audit" \/ failures' = failures + 1
    BY <1>10 DEF CloseDone, Crash, Inject, Idle
  <2> QED BY <1>1, <2>1, <2>2, AuditIdle
<1>11. ASSUME Next, ~FoundMaterial, ~AppendMaterial, ~AppendMaterialFails, ~AppendAudit,
              ~AppendAuditFails, ~Repair, \A n \in BaselineName : ~Generate(n),
              \A r \in Runner, n \in AgentName : ~Import(r, n),
              \A i \in DOMAIN Local : ~AppendEventFails(i),
              ~CloseDone, ~Crash
       PROVE  AuditInv'
  <2>1. UNCHANGED <<materials, audit, learning>>
    BY <1>11 DEF Next, ReceiveDuplicate, AppendEvent, WriteIndex, WriteIndexFails,
      DuplicateAudio, WriteAudio, Delete, AudioWritten, AudioWriteFails, WriteAudioIndex,
      WriteAudioIndexFails, BatchAudits, AgentFetches, AgentFails, RunnerMoves, Start, StartRefused,
      StartFails, Close, Retain, RetentionDies, lessons
  <2> QED BY <1>1, <2>1, AuditIdle
<1>12. CASE UNCHANGED vars BY <1>1, <1>12, AuditIdle DEF vars
<1> QED
  BY <1>2, <1>3, <1>4, <1>5, <1>6, <1>7, <1>8, <1>9, <1>10, <1>11, <1>12

LEMMA AuditInit == Init => AuditInv
<1> SUFFICES ASSUME Init PROVE AuditInv OBVIOUS
<1> USE DEF Init, EmptyFile
<1>1. Range(audit.lines) = {} /\ Range(materials.lines) = {} BY DEF Range
<1>2. Lost = {} BY <1>1 DEF Lost, WithoutOrigin
<1>3. Cardinality(Lost) = 0 BY <1>2, FS_EmptySet
<1>4. learning.at # "audit" BY DEF Idle
<1> QED BY <1>1, <1>3, <1>4 DEF AuditInv

LEMMA AuditInvariant == ASSUME NamesAreTheirs PROVE Spec => []AuditInv
<1>1. Init => AuditInv BY AuditInit
<1>2. IInv /\ IInv' /\ AuditInv /\ [Next]_vars => AuditInv' BY NamesAreTheirs, AuditInductive
<1> QED BY <1>1, <1>2, Invariant, PTL DEF Spec

\* A failed append, a crash and a request that is repeated leave an audit that the
\* receiver accepts, up to the origins they have cost.
THEOREM AuditAlwaysSound == ASSUME NamesAreTheirs PROVE Spec => []AuditIsSound
<1>1. ASSUME IInv, AuditInv PROVE AuditIsSound
  <2>1. learning.at = "audit" /\ learning.of \in WithoutOrigin => learning.action # "existing"
    BY <1>1 DEF AuditInv, WithoutOrigin
  <2>2. IsFiniteSet(Lost) /\ Cardinality(Lost) \in Nat BY <1>1, LostIsFinite DEF IInv
  <2>3. Cardinality(WithoutOrigin) <= failures + IF learning.at = "audit" THEN 1 ELSE 0
    <3>1. failures \in Int
      <4>1. failures \in 0 .. MaxFailures BY <1>1 DEF IInv, TypeOK
      <4> QED BY <4>1
    <3>2. CASE learning.at = "audit"
      <4>1. /\ IsFiniteSet(Lost \cup {learning.of})
            /\ Cardinality(Lost \cup {learning.of}) \in {Cardinality(Lost), Cardinality(Lost) + 1}
        BY <2>2, FS_AddElement
      <4>2. WithoutOrigin \subseteq Lost \cup {learning.of} BY DEF Lost
      <4>3. Cardinality(WithoutOrigin) <= Cardinality(Lost \cup {learning.of})
        BY <4>1, <4>2, FS_Subset
      <4>4. Cardinality(WithoutOrigin) \in Nat /\ Cardinality(Lost \cup {learning.of}) \in Nat
        BY <1>1, <4>1, LostIsFinite, FS_CardinalityType DEF IInv
      <4>5. Cardinality(Lost) <= failures BY <1>1 DEF AuditInv
      <4> QED BY <2>2, <3>1, <3>2, <4>1, <4>3, <4>4, <4>5
    <3>3. CASE learning.at # "audit"
      <4>1. WithoutOrigin = Lost BY <3>3 DEF Lost
      <4> QED BY <1>1, <2>2, <3>1, <3>3, <4>1 DEF AuditInv
    <3> QED BY <3>2, <3>3
  <2> QED BY <1>1, <2>1, <2>3 DEF AuditInv, AuditIsSound
<1> QED BY <1>1, Invariant, AuditInvariant, NamesAreTheirs, PTL

\* What the doctor passes starts, or lacks an origin in the audit it does not read.
THEOREM DoctorIsRight == ASSUME NamesAreTheirs PROVE Spec => []DoctorPassesWhatStarts
<1>1. ASSUME IInv, AuditInv PROVE DoctorPassesWhatStarts
  <2> SUFFICES ASSUME lifecycle = "down", retention = {}, DoctorPasses
               PROVE  /\ InboxLoads /\ RebuiltAudio = KeptAudio
                      /\ LearningLoads \/ ~Readable(audit) \/ WithoutOrigin # {}
    BY DEF DoctorPassesWhatStarts
  <2>1. InboxLoads
    <3>1. \A k \in DOMAIN inbox.lines : inbox.lines[k] = Event(k)
      BY <1>1 DEF IInv, InboxFollowsDevice
    <3>2. \A k : Event(k).cursor = k BY DEF Event
    <3> QED BY <3>1, <3>2 DEF InboxLoads, DoctorPasses
  <2>2. RebuiltAudio = KeptAudio
    BY DEF DoctorPasses, ArtifactsMatch, RebuiltAudio, KeptAudio
  <2>3. LearningLoads \/ ~Readable(audit) \/ WithoutOrigin # {}
    BY <1>1 DEF AuditInv, LearningLoads, DoctorPasses, MaterialsRead
  <2> QED BY <2>1, <2>2, <2>3
<1> QED BY <1>1, Invariant, AuditInvariant, NamesAreTheirs, PTL

-----------------------------------------------------------------------------
(* The materials follow the events.                                        *)

\* The events of the i-th material.
EventsOf(i) == materials.lines[i].bundle.events

\* The inductive invariant: no material is of more events than the receiver knows, nor the
\* one that is being stored of fewer than those stored are.  The inbox bounds them while
\* there is no memory.
OrderInv ==
  /\ MaterialsFollowEvents
  /\ \A i \in DOMAIN materials.lines :
       EventsOf(i) <= Len(inbox.lines) /\ (Up => EventsOf(i) <= Len(known))
  /\ learning.at = "decide" =>
       /\ learning.of.bundle.events <= Len(known)
       /\ \A i \in DOMAIN materials.lines : EventsOf(i) <= learning.of.bundle.events

LEMMA StoreLen ==
  ASSUME IInv
  PROVE  /\ Len(known) \in Nat /\ Len(inbox.lines) \in Nat
         /\ Len(known) <= Len(inbox.lines)
         /\ known \in Seq(Events) /\ inbox.lines \in Seq(Events)
BY LinesOf, LenProperties DEF IInv, TypeOK, MemoryFollows

\* The inbox does not shrink, nor does the memory but by the end of the process.
LEMMA StoreGrows ==
  ASSUME IInv, IInv', [Next]_vars
  PROVE  /\ Len(inbox.lines) <= Len(inbox'.lines)
         /\ Up' => \/ Up /\ Len(known) <= Len(known')
                   \/ ~Up /\ Len(known') = Len(inbox'.lines)
<1>0. /\ Len(known) \in Nat /\ Len(inbox.lines) \in Nat
      /\ known \in Seq(Events) /\ inbox.lines \in Seq(Events) /\ inbox \in File(Events)
  BY StoreLen DEF IInv, TypeOK
<1>1. ASSUME NEW i \in DOMAIN Local
      PROVE  /\ Event(i) \in Events
             /\ Len(Append(inbox.lines, Event(i))) = Len(inbox.lines) + 1
             /\ Len(Append(known, Event(i))) = Len(known) + 1
  <2>1. Event(i) \in Events BY DEF Events
  <2> QED BY <1>0, <2>1, AppendProperties
<1>2. ASSUME NEW i \in DOMAIN Local, AppendEvent(i)
      PROVE  /\ Len(inbox.lines) <= Len(inbox'.lines) /\ Len(known) <= Len(known') /\ Up
  <2>1. inbox'.lines = Append(inbox.lines, Event(i)) /\ known' = Append(known, Event(i)) /\ Up
    BY <1>0, <1>1, <1>2, WithLineOf DEF AppendEvent, MemoryWith, MayRun
  <2> QED BY <1>0, <1>1, <2>1
<1>3. ASSUME NEW i \in DOMAIN Local, AppendEventFails(i)
      PROVE  /\ Len(inbox.lines) <= Len(inbox'.lines) /\ (Up' => Up /\ known' = known)
  <2>1. Up' => Up /\ known' = known
    BY <1>3 DEF AppendEventFails, LeavesFault, Forget, Up, service
  <2>2. inbox'.lines = inbox.lines \/ inbox'.lines = Append(inbox.lines, Event(i))
    BY <1>0, <1>1, <1>3, RemainsOf DEF AppendEventFails
  <2> QED BY <1>0, <1>1, <2>1, <2>2
<1>4. CASE Start
  <2>1. ~Up /\ known' = inbox'.lines /\ inbox' = inbox BY <1>4 DEF Start, Up
  <2> QED BY <1>0, <2>1
<1>5. CASE Repair
  <2>1. inbox'.lines = inbox.lines BY <1>0, <1>5, MendedOf DEF Repair
  <2>2. ~Up' BY <1>5 DEF Repair, Up, service
  <2> QED BY <1>0, <2>1, <2>2
<1>6. CASE CloseDone \/ Crash
  BY <1>0, <1>6 DEF CloseDone, Crash, Forget, Up
<1>7. CASE AppendMaterialFails \/ AppendAuditFails
  <2>1. inbox' = inbox BY <1>7 DEF AppendMaterialFails, AppendAuditFails
  <2>2. Up' => Up /\ known' = known
    BY <1>7 DEF AppendMaterialFails, AppendAuditFails, LeavesFault, Forget, Up, service
  <2> QED BY <1>0, <2>1, <2>2
<1>8. ASSUME UNCHANGED <<inbox, known>>, lifecycle' = lifecycle \/ lifecycle = "ready"
      PROVE  /\ Len(inbox.lines) <= Len(inbox'.lines)
             /\ Up' => Up /\ Len(known) <= Len(known')
  BY <1>0, <1>8 DEF Up
<1>9. ASSUME Next, ~Start, ~Repair, ~CloseDone, ~Crash, ~AppendMaterialFails, ~AppendAuditFails,
             \A i \in DOMAIN Local : ~AppendEvent(i) /\ ~AppendEventFails(i)
      PROVE  UNCHANGED <<inbox, known>> /\ (lifecycle' = lifecycle \/ lifecycle = "ready")
  BY <1>9 DEF Next, ReceiveDuplicate, WriteIndex, WriteIndexFails,
      DuplicateAudio, WriteAudio, Delete, AudioWritten, AudioWriteFails, WriteAudioIndex,
      WriteAudioIndexFails, Generate, Import, BeginMaterial, BatchAudits, AgentFetches, AgentFails,
      RunnerMoves, FoundMaterial, AppendMaterial, AppendAudit, StartRefused,
      StartFails, Close, Retain, RetentionDies, service, events
<1>10. CASE UNCHANGED vars
  <2>1. UNCHANGED <<inbox, known, lifecycle>> BY <1>10 DEF vars
  <2> QED BY <1>8, <2>1
<1> QED BY <1>2, <1>3, <1>4, <1>5, <1>6, <1>7, <1>8, <1>9, <1>10

LEMMA EventsOfTyped ==
  ASSUME IInv
  PROVE  /\ \A i \in DOMAIN materials.lines : EventsOf(i) \in Nat
         /\ learning.at = "decide" => learning.of.bundle.events \in Nat /\ Up
<1>1. \A m \in Material : m.bundle.events \in Nat
  <2>1. \A m \in Material : m.bundle.events \in DOMAIN Local BY DEF Material, Bundles
  <2> QED BY <2>1, LocalLen
<1>2. learning.at = "decide" => Up
  <2>1. learning.at = "decide" => learning # Idle BY DEF Idle
  <2> QED BY <2>1 DEF IInv, DownIsEmpty, TypeOK, Up
<1> QED BY <1>1, <1>2, MaterialsTyped, DecideTyped DEF EventsOf

\* A step that adds no material and begins none.
LEMMA OrderIdle ==
  ASSUME IInv, IInv', OrderInv, [Next]_vars, materials'.lines = materials.lines,
         learning' = learning \/ learning'.at # "decide"
  PROVE  OrderInv'
<1>1. /\ Len(inbox.lines) <= Len(inbox'.lines)
      /\ Up' => \/ Up /\ Len(known) <= Len(known')
                \/ ~Up /\ Len(known') = Len(inbox'.lines)
  BY StoreGrows
<1>2. /\ Len(known) \in Nat /\ Len(inbox.lines) \in Nat
      /\ Len(known') \in Nat /\ Len(inbox'.lines) \in Nat
  <2>1. (Len(known) \in Nat /\ Len(inbox.lines) \in Nat)' BY StoreLen
  <2> QED BY <2>1, StoreLen
<1>3. /\ \A i \in DOMAIN materials.lines : EventsOf(i) \in Nat
      /\ learning.at = "decide" => learning.of.bundle.events \in Nat /\ Up
  BY EventsOfTyped
<1>4. learning'.at = "decide" => Up'
  <2>1. learning'.at = "decide" => learning' # Idle BY DEF Idle
  <2> QED BY <2>1 DEF IInv, DownIsEmpty, TypeOK, Up
<1>5. \A i : EventsOf(i)' = EventsOf(i) BY DEF EventsOf
<1>6. MaterialsFollowEvents' BY DEF OrderInv, MaterialsFollowEvents
<1>7. \A i \in DOMAIN materials'.lines :
        EventsOf(i)' <= Len(inbox'.lines) /\ (Up' => EventsOf(i)' <= Len(known'))
  <2> SUFFICES ASSUME NEW i \in DOMAIN materials.lines
               PROVE  EventsOf(i) <= Len(inbox'.lines) /\ (Up' => EventsOf(i) <= Len(known'))
    BY <1>5
  <2>1. EventsOf(i) \in Nat BY <1>3
  <2>2. EventsOf(i) <= Len(inbox.lines) /\ (Up => EventsOf(i) <= Len(known)) BY DEF OrderInv
  <2> QED BY <1>1, <1>2, <2>1, <2>2
<1>8. learning'.at = "decide" =>
        /\ learning'.of.bundle.events <= Len(known')
        /\ \A i \in DOMAIN materials'.lines : EventsOf(i)' <= learning'.of.bundle.events
  <2> SUFFICES ASSUME learning'.at = "decide"
               PROVE  /\ learning'.of.bundle.events <= Len(known')
                      /\ \A i \in DOMAIN materials'.lines : EventsOf(i)' <= learning'.of.bundle.events
    OBVIOUS
  <2>1. learning' = learning /\ Up /\ learning.of.bundle.events \in Nat BY <1>3
  <2>2. Len(known) <= Len(known') BY <1>1, <1>4, <2>1
  <2>3. learning.of.bundle.events <= Len(known) BY <2>1 DEF OrderInv
  <2>4. \A i \in DOMAIN materials.lines : EventsOf(i) <= learning.of.bundle.events
    BY <2>1 DEF OrderInv
  <2>5. learning.of.bundle.events <= Len(known') BY <1>2, <2>1, <2>2, <2>3
  <2> QED BY <1>5, <2>1, <2>4, <2>5
<1> QED BY <1>6, <1>7, <1>8 DEF OrderInv

\* A material that is begun is of all the events the receiver knows.
LEMMA OrderBegins ==
  ASSUME IInv, OrderInv, NEW kind, NEW name, BeginMaterial(Bundle, kind, name)
  PROVE  OrderInv'
<1>1. /\ UNCHANGED <<lifecycle, inbox, known, materials>> /\ Up
      /\ learning'.of.bundle.events = Len(known)
  BY DEF BeginMaterial, LearningTurn, MayRun, Bundle, service, events
<1>2. Len(known) \in Nat BY StoreLen
<1>3. /\ \A i : EventsOf(i)' = EventsOf(i)
      /\ Up' = Up
  BY <1>1 DEF EventsOf, Up
<1>4. MaterialsFollowEvents' BY <1>1 DEF OrderInv, MaterialsFollowEvents
<1> QED BY <1>1, <1>2, <1>3, <1>4 DEF OrderInv

\* The material that is stored is of no fewer events than the others are.
LEMMA OrderAdds ==
  ASSUME IInv, OrderInv, learning.at = "decide",
         materials'.lines = Append(materials.lines, learning.of),
         inbox' = inbox, Up' => known' = known, learning'.at # "decide"
  PROVE  OrderInv'
<1>0. PICK n : n = Len(materials.lines) OBVIOUS
<1>1. /\ materials.lines \in Seq(Material) /\ learning.of \in Material
      /\ n \in Nat /\ DOMAIN materials.lines = 1 .. n
  BY <1>0, MaterialsTyped, DecideTyped, LenProperties
<1>2. /\ DOMAIN materials'.lines = 1 .. n + 1
      /\ materials'.lines[n + 1] = learning.of
      /\ \A i \in 1 .. n : materials'.lines[i] = materials.lines[i]
  BY <1>0, <1>1, AppendProperties, LenProperties
<1>3. /\ EventsOf(n + 1)' = learning.of.bundle.events
      /\ \A i \in 1 .. n : EventsOf(i)' = EventsOf(i)
  BY <1>2 DEF EventsOf
<1>4. /\ \A i \in 1 .. n : EventsOf(i) <= learning.of.bundle.events
      /\ learning.of.bundle.events <= Len(known)
      /\ \A i \in 1 .. n : EventsOf(i) <= Len(inbox.lines) /\ EventsOf(i) <= Len(known)
  BY <1>1, EventsOfTyped DEF OrderInv
<1>5. /\ learning.of.bundle.events \in Nat
      /\ Len(known) \in Nat /\ Len(inbox.lines) \in Nat /\ Len(known) <= Len(inbox.lines)
  BY StoreLen, EventsOfTyped
<1>6. learning.of.bundle.events <= Len(inbox.lines) BY <1>4, <1>5
<1>7. \A i, j \in 1 .. n : i < j => EventsOf(i) <= EventsOf(j)
  BY <1>1 DEF OrderInv, MaterialsFollowEvents, EventsOf
<1>8. \A i, j \in 1 .. n + 1 : i < j => EventsOf(i)' <= EventsOf(j)'
  <2> SUFFICES ASSUME NEW i \in 1 .. n + 1, NEW j \in 1 .. n + 1, i < j
               PROVE  EventsOf(i)' <= EventsOf(j)'
    OBVIOUS
  <2>1. i \in 1 .. n BY <1>1
  <2>2. CASE j = n + 1 BY <1>3, <1>4, <2>1, <2>2
  <2>3. CASE j # n + 1
    <3>1. j \in 1 .. n BY <1>1, <2>3
    <3> QED BY <1>3, <1>7, <2>1, <3>1
  <2> QED BY <2>2, <2>3
<1>9. MaterialsFollowEvents' BY <1>2, <1>8 DEF MaterialsFollowEvents, EventsOf
<1>10. \A i \in 1 .. n + 1 : EventsOf(i)' <= Len(inbox.lines) /\ EventsOf(i)' <= Len(known)
  <2> SUFFICES ASSUME NEW i \in 1 .. n + 1
               PROVE  EventsOf(i)' <= Len(inbox.lines) /\ EventsOf(i)' <= Len(known)
    OBVIOUS
  <2>1. CASE i = n + 1 BY <1>3, <1>4, <1>6, <2>1
  <2>2. CASE i # n + 1
    <3>1. i \in 1 .. n BY <1>1, <2>2
    <3> QED BY <1>3, <1>4, <3>1
  <2> QED BY <2>1, <2>2
<1> QED BY <1>2, <1>9, <1>10 DEF OrderInv

LEMMA OrderStep ==
  ASSUME IInv, IInv', OrderInv, [Next]_vars PROVE OrderInv'
<1>0. Idle.at # "decide" BY DEF Idle
<1>1. ASSUME NEW n \in BaselineName, Generate(n) PROVE OrderInv'
  BY <1>1, OrderBegins DEF Generate
\* What is imported is of the current bundle, whoever asked for it and when.
<1>2. ASSUME NEW r \in Runner, NEW n \in AgentName, Import(r, n) PROVE OrderInv'
  <2>1. BeginMaterial(Bundle, "external-agent", n) BY <1>2 DEF Import, IsCurrent
  <2> QED BY <2>1, OrderBegins
<1>3. learning.at = "decide" => materials \in File(Material) /\ learning.of \in Material
  BY MaterialsTyped, DecideTyped
<1>4. CASE AppendMaterial
  <2>1. /\ learning.at = "decide" /\ materials' = WithLine(materials, learning.of)
        /\ learning'.at # "decide" /\ inbox' = inbox /\ known' = known
    BY <1>4 DEF AppendMaterial, events
  <2>2. materials'.lines = Append(materials.lines, learning.of) BY <1>3, <2>1, WithLineOf
  <2> QED BY <2>1, <2>2, OrderAdds
<1>5. CASE AppendMaterialFails
  <2>1. /\ learning.at = "decide" /\ inbox' = inbox
        /\ learning' = Idle /\ (Up' => known' = known)
    BY <1>5 DEF AppendMaterialFails, LeavesFault, Forget, Up, service
  <2>2. \/ materials' = materials
        \/ \E left \in Leftover : materials' = Remains(materials, learning.of, left)
    BY <1>5 DEF AppendMaterialFails
  <2>3. materials'.lines = materials.lines \/ materials'.lines = Append(materials.lines, learning.of)
    BY <1>3, <2>1, <2>2, RemainsOf
  <2>4. CASE materials'.lines = materials.lines BY <1>0, <2>1, <2>4, OrderIdle
  <2>5. CASE materials'.lines = Append(materials.lines, learning.of)
    BY <1>0, <2>1, <2>5, OrderAdds
  <2> QED BY <2>3, <2>4, <2>5
<1>6. CASE Repair
  <2>1. materials'.lines = materials.lines /\ learning' = learning
    BY <1>6, MendedOf DEF Repair, IInv, TypeOK
  <2> QED BY <2>1, OrderIdle
<1>7. CASE FoundMaterial
  <2>1. materials' = materials /\ learning'.at # "decide" BY <1>0, <1>7 DEF FoundMaterial
  <2> QED BY <2>1, OrderIdle
<1>8. ASSUME materials' = materials, learning' = learning \/ learning' = Idle
      PROVE  OrderInv'
  BY <1>0, <1>8, OrderIdle
<1>9. ASSUME Next, ~AppendMaterial, ~AppendMaterialFails, ~FoundMaterial, ~Repair,
             \A r \in Runner, n \in AgentName : ~Import(r, n),
             \A n \in BaselineName : ~Generate(n)
      PROVE  materials' = materials /\ (learning' = learning \/ learning' = Idle)
  BY <1>9 DEF Next, ReceiveDuplicate, AppendEvent, AppendEventFails, WriteIndex, WriteIndexFails,
      DuplicateAudio, WriteAudio, Delete, AudioWritten, AudioWriteFails, WriteAudioIndex,
      WriteAudioIndexFails, BatchAudits, AgentFetches, AgentFails, RunnerMoves, AppendAudit,
      AppendAuditFails, Start, StartRefused, StartFails, Close, CloseDone, Crash, Forget, Retain,
      RetentionDies, lessons
<1>10. CASE UNCHANGED vars BY <1>8, <1>10 DEF vars
<1> QED BY <1>1, <1>2, <1>4, <1>5, <1>6, <1>7, <1>8, <1>9, <1>10

LEMMA OrderInit == Init => OrderInv
<1> SUFFICES ASSUME Init PROVE OrderInv OBVIOUS
<1>1. DOMAIN materials.lines = {} BY DEF Init, EmptyFile
<1>2. learning.at # "decide" BY DEF Init, Idle
<1> QED BY <1>1, <1>2 DEF OrderInv, MaterialsFollowEvents

\* An answer of an agent that has become outdated is never stored after a newer material,
\* however many runs overlap: what is imported is of the bundle of the moment, whose events
\* the process does not lose before the material is in the file (importLearningMaterial,
\* normalizeExternalLearningMaterial, generateLearningMaterial).
THEOREM AlwaysFollowEvents == Spec => []MaterialsFollowEvents
<1>1. Init => OrderInv BY OrderInit
<1>2. IInv /\ IInv' /\ OrderInv /\ [Next]_vars => OrderInv' BY OrderStep
<1>3. OrderInv => MaterialsFollowEvents BY DEF OrderInv
<1> QED BY <1>1, <1>2, <1>3, Invariant, PTL DEF Spec

-----------------------------------------------------------------------------
(* The refinement of CloudArchive.                                         *)

\* What the device sees of a step: it stays where it is.
Unseen == UNCHANGED <<inbox.lines, artifact, ackedEvents, ackedAudio>>

LEMMA UnseenStep == ASSUME Unseen PROVE UNCHANGED Archive!vars
BY DEF Unseen, Archive!vars, WholeChunks

\* The next line of the inbox is the next event of the device.
LEMMA StoreStep ==
  ASSUME IInv, NEW i \in DOMAIN Local, i = NextCursor, MayRun,
         inbox'.lines = Append(inbox.lines, Event(i)),
         UNCHANGED <<artifact, ackedEvents, ackedAudio>>
  PROVE  Archive!Store
<1>1. inbox.lines \in Seq(Events) /\ Len(inbox.lines) \in Nat BY LinesOf DEF IInv, TypeOK
<1>2. i = Len(inbox.lines) + 1 /\ Len(inbox.lines) < Len(Local)
  BY <1>1, CursorIsNext, LocalLen DEF IInv, MemoryFollows, MayRun
<1>3. Event(i) = [cursor |-> Len(inbox.lines) + 1, kind |-> Local[Len(inbox.lines) + 1]]
  BY <1>2 DEF Event
<1> QED BY <1>2, <1>3 DEF Archive!Store, WholeChunks

LEMMA AppendEventFailsSeen ==
  ASSUME IInv, NEW i \in DOMAIN Local, AppendEventFails(i)
  PROVE  Archive!Store \/ UNCHANGED Archive!vars
<1> USE DEF AppendEventFails, acked, tools
<1>1. CASE UNCHANGED inbox BY <1>1, UnseenStep DEF Unseen
<1>2. ASSUME NEW left \in Leftover, inbox' = Remains(inbox, Event(i), left)
      PROVE  Archive!Store \/ UNCHANGED Archive!vars
  <2>1. inbox \in File(Events) /\ Event(i) \in Events BY DEF IInv, TypeOK, Events
  <2>2. \/ Remains(inbox, Event(i), left).lines = inbox.lines
        \/ Remains(inbox, Event(i), left).lines = Append(inbox.lines, Event(i))
    BY <2>1, RemainsOf
  <2>3. CASE inbox'.lines = inbox.lines BY <2>3, UnseenStep DEF Unseen
  <2>4. CASE inbox'.lines = Append(inbox.lines, Event(i)) BY <2>4, StoreStep
  <2> QED BY <1>2, <2>2, <2>3, <2>4
<1> QED BY <1>1, <1>2

LEMMA AcknowledgeEventStep ==
  ASSUME NEW e \in Range(inbox.lines), ackedEvents' = ackedEvents \cup {e},
         UNCHANGED <<inbox.lines, artifact, ackedAudio>>
  PROVE  Archive!Next
<1>1. Archive!AcknowledgeEvent(e) BY DEF Archive!AcknowledgeEvent, Archive!Range, Range, WholeChunks
<1>2. e \in Archive!Range(inbox.lines) BY DEF Archive!Range, Range
<1> QED BY <1>1, <1>2 DEF Archive!Next

\* An artifact that nobody was told of is written or deleted.
LEMMA LoseAudioStep ==
  ASSUME IInv, NEW c \in Chunk, NEW x \in {"none", "part"}, c \notin ackedAudio,
         artifact' = [artifact EXCEPT ![c] = x],
         UNCHANGED <<inbox.lines, ackedEvents, ackedAudio>>
  PROVE  Archive!Next
<1>1. artifact'[c] = x /\ \A d \in Chunk \ {c} : artifact'[d] = artifact[d]
  BY DEF IInv, TypeOK
<1>2. WholeChunks' = WholeChunks \ {c} BY <1>1 DEF WholeChunks
<1>3. Archive!LoseAudio(c) BY <1>2 DEF Archive!LoseAudio
<1> QED BY <1>3 DEF Archive!Next

LEMMA AcknowledgeAudioStep ==
  ASSUME NEW c \in Chunk, artifact[c] = "whole", ackedAudio' = ackedAudio \cup {c},
         UNCHANGED <<inbox.lines, artifact, ackedEvents>>
  PROVE  Archive!Next
<1>1. Archive!AcknowledgeAudio(c) BY DEF Archive!AcknowledgeAudio, WholeChunks
<1> QED BY <1>1 DEF Archive!Next

LEMMA AudioWrittenSeen == ASSUME IInv, AudioWritten PROVE Archive!Next
<1> USE DEF AudioWritten, events, acked
<1>1. op.of \in Chunk /\ op.of \in Described(inbox.lines)
  BY OpAudio DEF IInv, AudioIsStored
<1>2. \E e \in Range(inbox.lines) : e.kind = op.of BY <1>1 DEF Described
<1>3. artifact'[op.of] = "whole" /\ \A d \in Chunk \ {op.of} : artifact'[d] = artifact[d]
  BY <1>1 DEF IInv, TypeOK
<1>4. WholeChunks' = WholeChunks \cup {op.of} BY <1>1, <1>3 DEF WholeChunks
<1>5. Archive!StoreAudio(op.of) BY <1>2, <1>4 DEF Archive!StoreAudio, Archive!Range, Range
<1> QED BY <1>1, <1>5 DEF Archive!Next

LEMMA RetainSeen == ASSUME NEW cs \in SUBSET Chunk, Retain(cs) PROVE Archive!Next
<1> USE DEF Retain, events
<1>1. Archive!Retire(cs) BY DEF Archive!Retire, WholeChunks
<1> QED BY <1>1 DEF Archive!Next

\* Learning materials, starts, stops and repairs, and what fails without a trace.
LEMMA OthersUnseen ==
  ASSUME IInv, Next,
         ~\E i \in DOMAIN Local : ReceiveDuplicate(i) \/ AppendEvent(i) \/ AppendEventFails(i),
         ~\E c \in Chunk : DuplicateAudio(c) \/ WriteAudio(c) \/ Delete(c),
         ~WriteIndex, ~AudioWritten, ~WriteAudioIndex, ~\E cs \in SUBSET Chunk : Retain(cs)
  PROVE  Unseen
<1> USE DEF Unseen, events, audio, acked
<1>1. CASE WriteIndexFails \/ AudioWriteFails \/ WriteAudioIndexFails
  BY <1>1 DEF WriteIndexFails, AudioWriteFails, WriteAudioIndexFails
<1>2. CASE \/ \E n \in BaselineName : Generate(n)
           \/ \E r \in Runner, n \in AgentName : Import(r, n)
  BY <1>2 DEF Generate, Import, BeginMaterial
<1>3. CASE FoundMaterial \/ \E r \in Runner : BatchAudits(r) \/ AgentFetches(r) \/ AgentFails(r)
  BY <1>3 DEF BatchAudits, AgentFetches, AgentFails, RunnerMoves, FoundMaterial
<1>4. CASE AppendMaterial \/ AppendMaterialFails \/ AppendAudit \/ AppendAuditFails
  BY <1>4 DEF AppendMaterial, AppendMaterialFails, AppendAudit, AppendAuditFails
<1>5. CASE Start \/ StartRefused \/ StartFails \/ Close \/ CloseDone \/ Crash \/ RetentionDies
  BY <1>5 DEF Start, StartRefused, StartFails, Close, CloseDone, Crash, RetentionDies
<1>6. CASE Repair BY <1>6, MendedOf DEF Repair, IInv, TypeOK
<1> QED BY <1>1, <1>2, <1>3, <1>4, <1>5, <1>6 DEF Next

\* Each step of the receiver is one the device may see, or one it does not see.
LEMMA ArchiveStep == ASSUME IInv, Next PROVE [Archive!Next]_Archive!vars
<1> USE DEF events, audio, acked
<1>1. ASSUME NEW i \in DOMAIN Local, ReceiveDuplicate(i) PROVE Archive!Next
  <2>1. Event(i) \in Range(inbox.lines) BY <1>1, KnownIsStored DEF ReceiveDuplicate
  <2> QED BY <1>1, <2>1, AcknowledgeEventStep DEF ReceiveDuplicate
<1>2. ASSUME NEW i \in DOMAIN Local, AppendEvent(i) PROVE Archive!Next
  <2>1. inbox \in File(Events) /\ Event(i) \in Events BY DEF IInv, TypeOK, Events
  <2>2. WithLine(inbox, Event(i)).lines = Append(inbox.lines, Event(i)) BY <2>1, WithLineOf
  <2>3. Archive!Store BY <1>2, <2>2, StoreStep DEF AppendEvent
  <2> QED BY <2>3 DEF Archive!Next
<1>3. ASSUME NEW i \in DOMAIN Local, AppendEventFails(i) PROVE [Archive!Next]_Archive!vars
  BY <1>3, AppendEventFailsSeen DEF Archive!Next
<1>4. CASE WriteIndex
  <2>1. op.of \in Range(inbox.lines) BY <1>4 DEF WriteIndex, IInv, EventsAreStored
  <2> QED BY <1>4, <2>1, AcknowledgeEventStep DEF WriteIndex
<1>5. ASSUME NEW c \in Chunk, DuplicateAudio(c) PROVE Archive!Next
  <2>1. artifact[c] = "whole" BY <1>5 DEF DuplicateAudio, IInv, AudioIsStored
  <2> QED BY <1>5, <2>1, AcknowledgeAudioStep DEF DuplicateAudio
<1>6. ASSUME NEW c \in Chunk, WriteAudio(c) PROVE Archive!Next
  <2>1. c \notin ackedAudio BY <1>6 DEF WriteAudio, MayRun, IInv, AudioIsStored
  <2> QED BY <1>6, <2>1, LoseAudioStep DEF WriteAudio
<1>7. ASSUME NEW c \in Chunk, Delete(c) PROVE Archive!Next
  <2>1. c \notin ackedAudio BY <1>7 DEF Delete, IInv, RetainedIsFree
  <2> QED BY <1>7, <2>1, LoseAudioStep DEF Delete
<1>8. CASE AudioWritten BY <1>8, AudioWrittenSeen
<1>9. CASE WriteAudioIndex
  <2>1. op.of \in Chunk /\ artifact[op.of] = "whole"
    BY <1>9, OpAudio DEF WriteAudioIndex, IInv, AudioIsStored
  <2> QED BY <1>9, <2>1, AcknowledgeAudioStep DEF WriteAudioIndex
<1>10. ASSUME NEW cs \in SUBSET Chunk, Retain(cs) PROVE Archive!Next BY <1>10, RetainSeen
<1>11. CASE Unseen BY <1>11, UnseenStep
<1> QED BY <1>1, <1>2, <1>3, <1>4, <1>5, <1>6, <1>7, <1>8, <1>9, <1>10, <1>11, OthersUnseen

\* The receiver implements the abstract archive, whichever write fails and wherever it or
\* the retention tool dies.
THEOREM ImplementsArchive == Spec => ImplementsCloudArchive
<1>1. Init => Archive!Init
  BY DEF Init, EmptyFile, Archive!Init, WholeChunks
<1>2. IInv /\ [Next]_vars => [Archive!Next]_Archive!vars
  <2>1. ASSUME UNCHANGED vars PROVE UNCHANGED Archive!vars
    BY <2>1, UnseenStep DEF vars, Unseen
  <2> QED BY <2>1, ArchiveStep
<1> QED BY Invariant, <1>1, <1>2, PTL DEF Spec, ImplementsCloudArchive, Archive!Spec

=============================================================================
