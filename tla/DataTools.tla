----------------------------- MODULE DataTools -----------------------------
(***************************************************************************)
(* The programs an operator runs on a data root by hand: the migration of  *)
(* sessions that have no captureMode, the backup with its verification and *)
(* restore, and the doctor.  None of them takes the lock of the root.      *)
(*                                                                         *)
(* A line of events.jsonl is a session.started event, the only one that    *)
(* the migration changes; it is "legacy" without a captureMode, "migrated" *)
(* with one.  An outbox item is what it embeds.  Every old session has a   *)
(* source: without one the migration refuses to guess.  A tool may die     *)
(* between any two of its steps; one tool runs at a time.                  *)
(***************************************************************************)
EXTENDS Naturals, Sequences, FiniteSets

CONSTANTS
  OldLines,   \* bound on the sessions of the version without captureMode
  MaxLines,   \* bound on the events of the root
  MaxRuns     \* bound on the runs of the tools

ASSUME ToolsAssumption ==
  /\ OldLines \in Nat /\ MaxLines \in Nat /\ MaxRuns \in Nat
  /\ OldLines <= MaxLines

VARIABLES
  root,      \* events.jsonl, the items of outbox.jsonl by cursor, and whether one is owed
  original,  \* the files of the root before any tool ran
  kept,      \* what the migrations have copied before they changed the root
  backup,    \* the directory of the backup
  target,    \* the directory a backup is restored into
  tool       \* the tool that runs

toolVars == <<root, original, kept, backup, target, tool>>

All(n, x) == [i \in 1 .. n |-> x]
Files(r) == [events |-> r.events, outbox |-> r.outbox]
NoFile == [whole |-> FALSE, lines |-> <<>>]
FileOf(lines) == [whole |-> TRUE, lines |-> lines]
NoFiles == [events |-> <<>>, outbox |-> <<>>]
NoTool == [runs |-> 0, at |-> "none", read |-> NoFiles, copied |-> NoFiles, quiet |-> FALSE]

\* The old version may have died before the item of its last event was appended.
ToolsInit ==
  /\ \E n \in 0 .. OldLines : \E m \in {n, n - 1} \cap Nat :
       root = [events |-> All(n, "legacy"), outbox |-> All(m, "legacy"), owed |-> FALSE]
  /\ original = Files(root) /\ kept = {}
  /\ backup = [events |-> NoFile, outbox |-> NoFile,
               manifest |-> [whole |-> FALSE, of |-> NoFiles, quiet |-> FALSE]]
  /\ target = [at |-> "empty", events |-> NoFile, outbox |-> NoFile, quiet |-> FALSE]
  /\ tool = NoTool

Goes(at) == tool' = [tool EXCEPT !.at = at]
Leaves == tool' = [NoTool EXCEPT !.runs = tool.runs]

RunBegins(at) ==
  /\ tool.at = "none" /\ tool.runs < MaxRuns
  /\ tool' = [tool EXCEPT !.at = at, !.runs = @ + 1, !.read = Files(root)]

ToolDies == tool.at # "none" /\ Leaves /\ UNCHANGED <<root, original, kept, backup, target>>

-----------------------------------------------------------------------------
(* What the service does with the root.                                    *)

Migrated(lines) == [i \in DOMAIN lines |-> "migrated"]
HasLegacy(lines) == \E i \in DOMAIN lines : lines[i] = "legacy"

\* readEvents, readOutbox and the comparisons of reconcileOutbox.
Opens(r) ==
  /\ ~HasLegacy(r.events) /\ ~HasLegacy(r.outbox)
  /\ \A i \in DOMAIN r.outbox : i \in DOMAIN r.events /\ r.outbox[i] = r.events[i]

\* The end of reconcileOutbox: every event has its item.
RootOpened ==
  /\ Opens(root) /\ root' = [root EXCEPT !.outbox = root.events]
  /\ UNCHANGED <<original, kept, backup, target, tool>>

\* Somebody works on the root while a tool runs.
RootTaken ==
  /\ tool' = [tool EXCEPT !.quiet = FALSE]
  /\ UNCHANGED <<root, original, kept, backup, target>>

\* appendEvent: the event, then its item.
LineAppended ==
  /\ ~root.owed /\ Len(root.events) < MaxLines
  /\ root' = [root EXCEPT !.events = Append(@, "migrated"), !.owed = TRUE]
  /\ UNCHANGED <<original, kept, backup, target, tool>>

ItemAppended ==
  /\ root.owed
  /\ root' = [root EXCEPT !.owed = FALSE,
                          !.outbox = [i \in DOMAIN @ \cup {Len(root.events)} |->
                                        IF i \in DOMAIN @ THEN @[i] ELSE "migrated"]]
  /\ UNCHANGED <<original, kept, backup, target, tool>>

RootLeft == root' = [root EXCEPT !.owed = FALSE] /\ UNCHANGED <<original, kept, backup, target, tool>>

-----------------------------------------------------------------------------
(* migrateCaptureMode.                                                     *)

AcceptsEqual(r) == DOMAIN r.outbox \subseteq DOMAIN r.events /\ \A i \in DOMAIN r.outbox : r.outbox[i] = r.events[i]

\* Every item has its event and embeds it, up to the captureMode.
MigrationAccepts(r) == DOMAIN r.outbox \subseteq DOMAIN r.events

\* The operator applies the migration when its dry run has something to change.
MigrationBegins ==
  /\ RunBegins("keep events") /\ MigrationAccepts(root)
  /\ HasLegacy(root.events) \/ HasLegacy(root.outbox)
  /\ UNCHANGED <<root, original, kept, backup, target>>

KeepEvents ==
  /\ tool.at = "keep events"
  /\ tool' = [tool EXCEPT !.at = "keep outbox", !.copied.events = root.events]
  /\ UNCHANGED <<root, original, kept, backup, target>>

KeepOver ==
  /\ tool.at = "keep outbox" /\ Goes("rename events")
  /\ kept' = {[events |-> tool.copied.events, outbox |-> root.outbox]}
  /\ UNCHANGED <<root, original, backup, target>>

\* A migration copies to a directory that did not exist before.
KeepOutbox ==
  /\ tool.at = "keep outbox" /\ Goes("rename events")
  /\ kept' = kept \cup {[events |-> tool.copied.events, outbox |-> root.outbox]}
  /\ UNCHANGED <<root, original, backup, target>>

\* Both temporary files are written; the first replaces events.jsonl, the second outbox.jsonl.
RenameEvents ==
  /\ tool.at = "rename events" /\ Goes("rename outbox")
  /\ root' = [root EXCEPT !.events = Migrated(tool.read.events)]
  /\ UNCHANGED <<original, kept, backup, target>>

RenameOutbox ==
  /\ tool.at = "rename outbox" /\ Leaves
  /\ root' = [root EXCEPT !.outbox = Migrated(tool.read.outbox)]
  /\ UNCHANGED <<original, kept, backup, target>>

MigrationStep == MigrationBegins \/ KeepEvents \/ KeepOutbox \/ RenameEvents \/ RenameOutbox

-----------------------------------------------------------------------------
(* createDataBackup, verifyDataBackup, restoreDataBackup.                  *)

\* The directory may hold an earlier backup, whole or not.
BackupBegins(held) ==
  /\ tool.at = "none" /\ tool.runs < MaxRuns
  /\ tool' = [tool EXCEPT !.at = "read events", !.runs = @ + 1, !.quiet = ~held]
  /\ UNCHANGED <<root, original, kept, backup, target>>

\* A file is read, then written; writeFile truncates it first.
BackupReads(f, at, next) ==
  /\ tool.at = at
  /\ tool' = [tool EXCEPT !.at = next, !.copied[f] = root[f]]
  /\ backup' = [backup EXCEPT ![f] = NoFile] /\ UNCHANGED <<root, original, kept, target>>

BackupWrites(f, at, next) ==
  /\ tool.at = at /\ Goes(next)
  /\ backup' = [backup EXCEPT ![f] = FileOf(tool.copied[f])]
  /\ UNCHANGED <<root, original, kept, target>>

ManifestBegins ==
  /\ tool.at = "manifest" /\ Goes("manifest file")
  /\ backup' = [backup EXCEPT !.manifest.whole = FALSE]
  /\ UNCHANGED <<root, original, kept, target>>

ManifestWritten ==
  /\ tool.at = "manifest file" /\ Leaves
  /\ backup' = [backup EXCEPT !.manifest = [whole |-> TRUE, of |-> tool.copied, quiet |-> tool.quiet]]
  /\ UNCHANGED <<root, original, kept, target>>

\* validateManifest and the hash of the manifest over its own content.
ManifestIntact == backup.manifest.whole

VerifiedByName == ManifestIntact

\* The manifest is intact and every file is what it says.
Verified ==
  /\ ManifestIntact
  /\ \A f \in {"events", "outbox"} : backup[f] = FileOf(backup.manifest.of[f])

RestoreBegins ==
  /\ RunBegins("restore events") /\ Verified /\ target.at = "empty"
  /\ target' = [target EXCEPT !.at = "partial", !.quiet = backup.manifest.quiet]
  /\ UNCHANGED <<root, original, kept, backup>>

RestoreEvents ==
  /\ tool.at = "restore events" /\ Goes("restore outbox")
  /\ target' = [target EXCEPT !.events = backup.events] /\ UNCHANGED <<root, original, kept, backup>>

RestoreOutbox ==
  /\ tool.at = "restore outbox" /\ Leaves
  /\ target' = [target EXCEPT !.outbox = backup.outbox, !.at = "restored"]
  /\ UNCHANGED <<root, original, kept, backup>>

BackupStep(held) ==
  \/ BackupBegins(held) \/ ManifestBegins \/ ManifestWritten
  \/ BackupReads("events", "read events", "write events")
  \/ BackupWrites("events", "write events", "read outbox")
  \/ BackupReads("outbox", "read outbox", "write outbox")
  \/ BackupWrites("outbox", "write outbox", "manifest")
  \/ RestoreBegins \/ RestoreEvents \/ RestoreOutbox

-----------------------------------------------------------------------------
(* inspectLocalDataRoot: the errors it reports; a missing item is a warning. *)

ValidEvents(r) == {i \in DOMAIN r.events : r.events[i] # "legacy"}

ValidItems(r) == {i \in DOMAIN r.outbox : r.outbox[i] # "legacy"}

DoctorErrors(r) ==
  LET events == ValidEvents(r)
      items == ValidItems(r)
  IN (IF events # DOMAIN r.events THEN {"invalid-event"} ELSE {})
       \cup (IF events # 1 .. Cardinality(events) THEN {"event-cursor-gap"} ELSE {})
       \cup (IF items # DOMAIN r.outbox THEN {"invalid-outbox"} ELSE {})
       \cup (IF items \ events # {} THEN {"orphan-outbox"} ELSE {})
       \cup (IF \E i \in items \cap events : r.outbox[i] # r.events[i]
             THEN {"outbox-event-mismatch"} ELSE {})

-----------------------------------------------------------------------------
(* Properties.                                                             *)

ToolsTypeOK ==
  /\ Len(root.events) <= MaxLines /\ DOMAIN root.outbox \subseteq DOMAIN root.events
  /\ tool.runs <= MaxRuns /\ target.at \in {"empty", "partial", "restored"}

\* Wherever a migration dies, the service opens the root or another migration
\* completes it, and the doctor tells which: it reports an error exactly when the
\* service refuses the root.
RootIsUsable ==
  /\ Opens(root) \/ MigrationAccepts(root)
  /\ DoctorErrors(root) = {} <=> Opens(root)

\* What the first migration found is in the root until it is whole in a copy, and no
\* later migration takes the copy away.
OriginalIsKept == HasLegacy(original.events) /\ Files(root) # original => original \in kept

Restored == [events |-> target.events.lines, outbox |-> target.outbox.lines]

\* A backup that verifies, however many runs died over its directory, restores to a root
\* that the service opens or the migration accepts, if nobody held the root meanwhile.
VerifiedBackupStarts ==
  target.at = "restored" /\ target.quiet =>
    /\ target.events.whole /\ target.outbox.whole
    /\ Opens(Restored) \/ MigrationAccepts(Restored)

=============================================================================
