------------------------ MODULE ExternalCaptionAdapter ------------------------
(***************************************************************************)
(* The adapter of the system-caption helper: a process that writes status  *)
(* and caption lines, a queue that processes one of them at a time, and a  *)
(* stop that asks the helper to flush its tail, kills it when it takes too *)
(* long, and settles with the exit in either case.                         *)
(*                                                                         *)
(* The state is one record, cap.  What the callbacks do is in              *)
(* CaptionRuntime.                                                         *)
(***************************************************************************)
EXTENDS Naturals, Sequences

CONSTANTS MaxLines  \* bound on the lines the helper writes before its tail

ASSUME ExternalAssumption == MaxLines \in Nat

VARIABLES cap

CapInit ==
  cap = [proc |-> "running",      \* "running", "flushed" or "exited"
         killed |-> FALSE, child |-> TRUE,
         told |-> FALSE,          \* the stop line is written, and the timer armed
         wrote |-> 0,             \* the lines it has written
         captions |-> 0,          \* the captions among them
         lines |-> <<>>,          \* its output that is not processed
         processing |-> "idle",   \* the callback that the processing queue awaits
         stored |-> 0,            \* captionCount
         error |-> FALSE,         \* processingError
         exit |-> "none",
         stop |-> "no"]

-----------------------------------------------------------------------------
(* The helper.                                                             *)

CapWrites(kind) ==
  /\ cap.proc = "running" /\ cap.wrote < MaxLines
  /\ cap' = [cap EXCEPT !.wrote = @ + 1, !.lines = Append(@, kind),
                        !.captions = IF kind = "caption" THEN @ + 1 ELSE @]

\* Told to stop, it writes the caption it still has.
CapFlushes ==
  /\ cap.proc = "running" /\ cap.told
  /\ cap' = [cap EXCEPT !.proc = "flushed", !.captions = @ + 1, !.lines = Append(@, "caption")]

\* It exits: flushed, killed, or by itself.
CapExits ==
  /\ cap.proc # "exited"
  /\ cap' = [cap EXCEPT !.proc = "exited", !.lines = Append(@, "exit"),
                        !.exit = IF cap.proc = "flushed" /\ ~cap.killed THEN "flushed" ELSE "cut"]

-----------------------------------------------------------------------------
(* The processing queue.                                                   *)

\* After an error the lines are skipped; the exit is not.
Skipped == cap.error /\ Head(cap.lines) # "exit"

SkipLine ==
  /\ cap.processing = "idle" /\ cap.lines # <<>> /\ Skipped
  /\ cap' = [cap EXCEPT !.lines = Tail(@)]

Process ==
  /\ cap.processing = "idle" /\ cap.lines # <<>> /\ ~Skipped
  /\ LET next == [cap EXCEPT !.lines = Tail(@), !.processing = Head(cap.lines)] IN
       cap' = IF next.processing = "exit" THEN [next EXCEPT !.child = FALSE] ELSE next

\* The callback is done.
Processed == [cap EXCEPT !.processing = "idle"]

\* It rejects: recordProcessingError.
ProcessingFails == [Processed EXCEPT !.error = TRUE, !.killed = TRUE]

\* onExit is done: the promise of the exit is settled, and with it the stop.
CapExited == [Processed EXCEPT !.processing = IF cap.error THEN "rejected" ELSE "resolved"]

-----------------------------------------------------------------------------
(* stop.                                                                   *)

StopCap ==
  /\ cap.stop = "no"
  /\ cap' = [cap EXCEPT !.stop = "waiting", !.told = cap.child]

StopKillsUntold ==
  /\ cap.stop = "waiting" /\ ~cap.told /\ cap.child /\ ~cap.killed
  /\ cap' = [cap EXCEPT !.killed = TRUE]

StopKills ==
  /\ cap.stop = "waiting" /\ cap.told /\ cap.child /\ ~cap.killed
  /\ cap' = [cap EXCEPT !.killed = TRUE]

StopCapSettles ==
  /\ cap.stop = "waiting" /\ cap.processing \in {"resolved", "rejected"}
  /\ cap' = [cap EXCEPT !.stop = IF cap.processing = "resolved" THEN "ok" ELSE "failed"]

=============================================================================
