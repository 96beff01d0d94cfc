---------------------------- MODULE MemosPublish ----------------------------
(***************************************************************************)
(* Publishing ended sessions to a Memos instance: the settings, the ledger *)
(* of what was published, and each attempt with the memo and the           *)
(* attachments it creates on the instance.                                 *)
(*                                                                         *)
(* An attempt is numbered; its memo and its files carry the number.  A     *)
(* request to the instance is one step: it is done, or it fails.  What the *)
(* instance has done when only its answer is lost is known to nobody, and  *)
(* is left out.                                                            *)
(***************************************************************************)
EXTENDS Naturals, Sequences, FiniteSets

CONSTANTS
  Session,      \* sessions that have ended
  Server,       \* Memos instances that can be configured
  PartsUnder,   \* the files of a session under the upload limit of an instance
  MaxAttempts,  \* bound on the attempts to publish
  MaxChanges    \* bound on the changes of the settings

ASSUME MemosAssumption ==
  /\ PartsUnder \in [Server -> Nat \ {0}] /\ MaxAttempts \in Nat /\ MaxChanges \in Nat

VARIABLES
  memory,    \* what the process knows: settings, limit, memosPublishInFlight, ledger
  disk,      \* memos.json and memos-published.json
  publish,   \* the attempts
  instance   \* what the Memos instances store: memos and attachments

memosVars == <<memory, disk, publish, instance>>

Attempt == 1 .. MaxAttempts
None == "none"  \* no instance configured, or no limit known

Unused == [at |-> "unused", session |-> None, to |-> None, by |-> None, limit |-> None, parts |-> 0,
           created |-> {}, memo |-> FALSE, expired |-> FALSE, refused |-> FALSE,
           clean |-> TRUE]

MemosInit ==
  /\ disk = [settings |-> None, ledger |-> [s \in Session |-> 0], changes |-> 0]
  /\ memory = [settings |-> None, limit |-> None, inFlight |-> {}, ledger |-> disk.ledger,
               queue |-> <<>>, test |-> None]
  /\ publish = [a \in Attempt |-> Unused]
  /\ instance = [memos |-> {}, files |-> {}]

\* initialize reads both files.
MemosLoaded ==
  memory' = [settings |-> disk.settings, limit |-> None, inFlight |-> {},
             ledger |-> disk.ledger, queue |-> <<>>, test |-> None]

Ended == {"unused", "failed", "published", "unrecorded", "lost"}
Active(a) == publish[a].at \notin Ended
Publishing == {a \in Attempt : Active(a)}

\* A crash takes the attempts and the memory with it.
MemosLost ==
  /\ memory' = [memory EXCEPT !.inFlight = {}, !.queue = <<>>, !.test = None]
  /\ publish' = [a \in Attempt |-> IF Active(a) THEN [Unused EXCEPT !.at = "lost"] ELSE publish[a]]

-----------------------------------------------------------------------------
(* Settings.                                                               *)

UpdateSettings(srv) ==
  /\ disk.changes < MaxChanges
  /\ disk' = [disk EXCEPT !.settings = srv, !.changes = @ + 1]
  /\ memory' = [memory EXCEPT !.settings = srv, !.limit = None]
  /\ UNCHANGED <<publish, instance>>

\* testMemosConnection: the answer is kept whatever is configured by then.
TestConnection ==
  /\ memory.settings # None /\ memory.test = None
  /\ memory' = [memory EXCEPT !.test = memory.settings] /\ UNCHANGED <<disk, publish, instance>>

ConnectionTested ==
  /\ memory.test # None
  /\ \E answered \in {TRUE, FALSE} :
       memory' = [memory EXCEPT !.test = None, !.limit = IF answered THEN memory.test ELSE @]
  /\ UNCHANGED <<disk, publish, instance>>

-----------------------------------------------------------------------------
(* One attempt.                                                            *)

At(a, at) == publish[a].at = at
Put(a, r) == publish' = [publish EXCEPT ![a] = r]

\* The request is accepted: the session is marked before anything is awaited.
Accepts(s) == memory.settings # None /\ s \notin memory.inFlight

BeginPublish(a, s, p) ==
  /\ At(a, "unused") /\ \A b \in Attempt : b < a => ~At(b, "unused")
  /\ Accepts(s)
  /\ memory' = [memory EXCEPT !.inFlight = @ \cup {s}]
  /\ Put(a, [Unused EXCEPT !.at = "limit", !.session = s, !.to = memory.settings, !.by = p])
  /\ UNCHANGED <<disk, instance>>

\* What is left of an attempt that is over.
Over(a, at) == [publish[a] EXCEPT !.at = at, !.to = None, !.by = None, !.limit = None,
                                         !.expired = FALSE]

\* The finally clause.
Ends(a, at) ==
  /\ Put(a, Over(a, at))
  /\ memory' = [memory EXCEPT !.inFlight = @ \ {publish[a].session}]

Fails(a) == Ends(a, "failed") /\ UNCHANGED <<disk, instance>>

\* ensureMemosUploadLimit asks the instance unless a limit is known.
LimitKnown(a) ==
  /\ At(a, "limit")
  /\ LET known == IF memory.limit # None THEN memory.limit ELSE publish[a].to IN
       /\ memory' = [memory EXCEPT !.limit = known]
       /\ Put(a, [publish[a] EXCEPT !.at = "audio", !.limit = known])
  /\ UNCHANGED <<disk, instance>>

\* buildMemosAudio: the recordings of the session as files under the limit.
FilesBuilt(a) ==
  /\ At(a, "audio")
  /\ Put(a, [publish[a] EXCEPT !.at = "files", !.parts = PartsUnder[publish[a].limit]])
  /\ UNCHANGED <<memory, disk, instance>>

\* The instance does not tell its limit, or a recording is missing or damaged.
PreparationFails(a) == (At(a, "limit") \/ At(a, "audio")) /\ Fails(a)

\* A request fails: because of its signal, which the whole attempt shares, or not.
Failed(a, closing) ==
  \E expired \in {publish[a].expired \/ closing, TRUE} :
    Put(a, [publish[a] EXCEPT !.at = "rollback", !.expired = expired])

CreateFilePast(a, closing) ==
  /\ At(a, "files") /\ UNCHANGED <<memory, disk>>
  /\ LET part == Cardinality(publish[a].created) + 1
         r == [publish[a] EXCEPT !.created = @ \cup {part},
                                 !.at = IF part > publish[a].parts THEN "memo" ELSE "files"]
     IN \/ ~closing /\ Put(a, r) /\ instance' = [instance EXCEPT !.files = @ \cup {<<a, part>>}]
        \/ Failed(a, closing) /\ UNCHANGED instance

CreateFile(a, closing) ==
  /\ At(a, "files") /\ UNCHANGED <<memory, disk>>
  /\ LET part == Cardinality(publish[a].created) + 1
         r == [publish[a] EXCEPT !.created = @ \cup {part},
                                 !.at = IF part = publish[a].parts THEN "memo" ELSE "files"]
     IN \/ ~closing /\ Put(a, r) /\ instance' = [instance EXCEPT !.files = @ \cup {<<a, part>>}]
        \/ Failed(a, closing) /\ UNCHANGED instance

CreateMemoUnchecked(a, closing) ==
  /\ At(a, "memo") /\ UNCHANGED <<memory, disk>>
  /\ LET r == [publish[a] EXCEPT !.memo = TRUE, !.at = "wire"] IN
       \/ ~closing /\ Put(a, r) /\ instance' = [instance EXCEPT !.memos = @ \cup {a}]
       \/ Put(a, r) /\ UNCHANGED instance

CreateMemo(a, closing) ==
  /\ At(a, "memo") /\ UNCHANGED <<memory, disk>>
  /\ LET r == [publish[a] EXCEPT !.memo = TRUE, !.at = "wire"] IN
       \/ ~closing /\ Put(a, r) /\ instance' = [instance EXCEPT !.memos = @ \cup {a}]
       \/ Failed(a, closing) /\ UNCHANGED instance

\* setMemoAttachments: the attachments of the memo are listed, merged and set.
SetAttachments(a, closing) ==
  /\ At(a, "wire") /\ UNCHANGED <<memory, disk, instance>>
  /\ (~closing /\ Put(a, [publish[a] EXCEPT !.at = "record"])) \/ Failed(a, closing)

Mine(a) == {<<a, part>> : part \in publish[a].created}

\* rollback: the memo, with the attachments it has, and each attachment.  With a signal
\* that is aborted no request is sent; a DELETE may be refused.
RollsBackQuietly(a, closing) ==
  /\ At(a, "rollback") /\ UNCHANGED disk
  /\ memory' = [memory EXCEPT !.inFlight = @ \ {publish[a].session}]
  /\ \E refused \in {TRUE, FALSE} :
       /\ instance' = IF publish[a].expired \/ closing \/ refused THEN instance
                      ELSE [memos |-> instance.memos \ {a}, files |-> instance.files \ Mine(a)]
       /\ Put(a, [Over(a, "failed") EXCEPT !.refused = refused])

RollsBack(a, closing) ==
  /\ At(a, "rollback") /\ UNCHANGED disk
  /\ memory' = [memory EXCEPT !.inFlight = @ \ {publish[a].session}]
  /\ LET r == Over(a, "failed")
         memo == IF r.memo THEN {a} ELSE {}
     IN IF publish[a].expired \/ closing
        THEN /\ UNCHANGED instance
             /\ Put(a, [r EXCEPT !.clean = memo = {} /\ Mine(a) = {}])
        ELSE \E memosKept \in {{}, memo}, filesKept \in {{}, Mine(a)} :
               LET clean == memosKept = {} /\ filesKept = {} IN
                 /\ instance' = [memos |-> instance.memos \ (memo \ memosKept),
                                 files |-> instance.files \ (Mine(a) \ filesKept)]
                 /\ Put(a, [r EXCEPT !.clean = clean, !.refused = ~clean])

-----------------------------------------------------------------------------
(* The ledger.                                                             *)

\* recordMemosPublish queues the change of the ledger.
Record(a) ==
  /\ At(a, "record") /\ Put(a, [publish[a] EXCEPT !.at = "recording"])
  /\ memory' = [memory EXCEPT !.queue = Append(@, a)] /\ UNCHANGED <<disk, instance>>

LedgerWith(a) == [memory.ledger EXCEPT ![publish[a].session] = a]

\* Its turn comes: the ledger is changed, then written.
Turn(a) == a = Head(memory.queue)

LedgerChanges(a) ==
  /\ At(a, "recording") /\ Turn(a)
  /\ memory' = [memory EXCEPT !.ledger = LedgerWith(a)]
  /\ Put(a, [publish[a] EXCEPT !.at = "writing"]) /\ UNCHANGED <<disk, instance>>

LedgerHeldUp(a) ==
  /\ At(a, "writing") /\ UNCHANGED instance
  /\ \E written \in {TRUE, FALSE} :
       /\ disk' = [disk EXCEPT !.ledger = IF written THEN memory.ledger ELSE @]
       /\ Put(a, Over(a, IF written THEN "published" ELSE "unrecorded"))
       /\ memory' = [memory EXCEPT !.inFlight = @ \ {publish[a].session},
                                   !.queue = IF written THEN Tail(@) ELSE @]

LedgerWritten(a) ==
  /\ At(a, "writing") /\ UNCHANGED instance
  /\ \E written \in {TRUE, FALSE} :
       /\ disk' = [disk EXCEPT !.ledger = IF written THEN memory.ledger ELSE @]
       /\ Put(a, Over(a, IF written THEN "published" ELSE "unrecorded"))
  /\ memory' = [memory EXCEPT !.inFlight = @ \ {publish[a].session}, !.queue = Tail(@)]

PublishStep(a, closing) ==
  \/ LimitKnown(a) \/ FilesBuilt(a) \/ PreparationFails(a)
  \/ CreateFile(a, closing) \/ CreateMemo(a, closing) \/ SetAttachments(a, closing)
  \/ RollsBack(a, closing) \/ Record(a) \/ LedgerChanges(a) \/ LedgerWritten(a)

-----------------------------------------------------------------------------
(* Properties.                                                             *)

MemosTypeOK ==
  /\ memory.settings \in Server \cup {None} /\ memory.limit \in Server \cup {None}
  /\ memory.ledger \in [Session -> 0 .. MaxAttempts] /\ disk.ledger \in [Session -> 0 .. MaxAttempts]
  /\ \A a \in Attempt : publish[a].created \subseteq 1 .. publish[a].parts
  /\ instance.memos \subseteq Attempt

\* The ledger on disk only names memos that exist, of the session they are filed under.
LedgerNamesMemos ==
  \A s \in Session : disk.ledger[s] # 0 =>
    publish[disk.ledger[s]].session = s /\ disk.ledger[s] \in instance.memos

\* These memos have all the attachments of their session.
MemosAreWhole ==
  \A s \in Session : disk.ledger[s] # 0 =>
    LET a == disk.ledger[s] IN
      Cardinality(publish[a].created) = publish[a].parts /\ Mine(a) \subseteq instance.files

\* A session that was recorded as published stays so: two attempts that end together,
\* a write that fails and a crash forget nothing.
NothingForgotten ==
  [][\A s \in Session : disk.ledger[s] # 0 => disk'.ledger[s] # 0]_memosVars

\* The ledger on disk is true, and stays so.
LedgerIsKept == [](LedgerNamesMemos /\ MemosAreWhole) /\ NothingForgotten

\* What the attempt created and knows of is on the instance.
Known(a) == (publish[a].memo /\ a \in instance.memos) \/ Mine(a) \cap instance.files # {}

\* A publication that fails says so when something it has created is left behind.
RollbackIsHonest == \A a \in Attempt : At(a, "failed") /\ publish[a].clean => ~Known(a)

\* memosPublisher.ts:138-142: any step that fails cleans up what was just created.  So
\* nothing is left that the attempt knows of, unless the instance refuses to delete it.
FailureIsCleanedUp == \A a \in Attempt : At(a, "failed") /\ ~publish[a].refused => ~Known(a)

=============================================================================
