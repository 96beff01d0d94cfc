--------------------------- MODULE LocalAsrAdapter ---------------------------
(***************************************************************************)
(* The adapter of the resident speech recogniser: one helper process, one  *)
(* request at a time, answers that are read in order, and a stop that      *)
(* drains the source before it shuts the helper down.                      *)
(*                                                                         *)
(* The state is one record, asr; an operator on it is a method of the      *)
(* class, up to its next await.  The caller awaits each request before it  *)
(* makes the next (CaptionRuntime), so requestTail holds one at most.      *)
(***************************************************************************)
EXTENDS Naturals, Sequences

CONSTANTS MaxRequests  \* the audio requests are 1..MaxRequests

ASSUME LocalAsrAssumption == MaxRequests \in Nat

Drain == MaxRequests + 1
Shutdown == MaxRequests + 2

VARIABLES
  asr,   \* the adapter and its process
  heard  \* the requests the helper has carried out

asrVars == <<asr, heard>>

AsrInit ==
  /\ asr = [proc |-> "starting",      \* "starting", "running", "done" or "exited"
            killed |-> FALSE, child |-> TRUE,
            wire |-> 0,               \* the request the helper has not answered
            lines |-> <<>>,           \* its output that is not processed
            ready |-> "waiting",      \* readyPromise
            processing |-> "idle",    \* the callback that the processing queue awaits
            request |-> 0,            \* the request under withTimeout
            answer |-> [r \in 1 .. Shutdown |-> "none"],
            runtimeError |-> FALSE, processingError |-> FALSE,
            active |-> FALSE,         \* the source is in activeSources
            exit |-> "none", exitError |-> FALSE,
            stop |-> "no"]
  /\ heard = {}

-----------------------------------------------------------------------------
(* Methods.                                                                *)

\* The promise of the request is settled.
Settle(a, outcome) ==
  IF a.request = 0 THEN a
  ELSE [a EXCEPT !.answer[a.request] = outcome, !.request = 0,
                 !.active = IF outcome = "failed" THEN @ ELSE a.request # Drain]

RejectOutstanding(a) ==
  Settle([a EXCEPT !.ready = IF @ = "waiting" THEN "failed" ELSE @], "failed")

SignalRuntimeError(a) ==
  IF a.runtimeError \/ a.processingError THEN a
  ELSE RejectOutstanding([a EXCEPT !.runtimeError = TRUE, !.killed = TRUE])

SignalProcessingError(a) ==
  IF a.processingError THEN a
  ELSE RejectOutstanding([a EXCEPT !.processingError = TRUE, !.killed = TRUE])

\* executeRequest, once the request is at the head of its queue.
Execute(a) ==
  IF ~a.child \/ a.runtimeError \/ a.processingError THEN Settle(a, "failed")
  ELSE IF a.ready = "ready" THEN [a EXCEPT !.wire = a.request]
  ELSE a

Ask(a, r) == Execute([a EXCEPT !.request = r])

\* submitAudio
Submit(r) ==
  /\ asr' = IF ~asr.child \/ asr.stop # "no"
            THEN [asr EXCEPT !.answer[r] = "failed"]
            ELSE Ask(asr, r)
  /\ UNCHANGED heard

RequestTimesOut ==
  /\ asr.request \in 1 .. MaxRequests
  /\ asr' = Settle(SignalRuntimeError(asr), "failed") /\ UNCHANGED heard

\* The process is gone: writeLine rejects.
WriteFails ==
  /\ asr.wire # 0 /\ asr.wire = asr.request /\ asr.proc = "exited"
  /\ asr' = SignalRuntimeError(Settle([asr EXCEPT !.wire = 0], "failed")) /\ UNCHANGED heard

-----------------------------------------------------------------------------
(* The helper.                                                             *)

Line(kind, r) == [kind |-> kind, of |-> r]

Says(a, out) == [a EXCEPT !.lines = @ \o out]

HelperReady ==
  /\ asr.proc = "starting"
  /\ asr' = Says([asr EXCEPT !.proc = "running"], <<Line("ready", 0)>>) /\ UNCHANGED heard

\* It carries out a request; it has something to transcribe in all but the last.
Answer(r) == IF r = Shutdown THEN <<Line("ok", r)>> ELSE <<Line("transcript", r), Line("ok", r)>>

HelperAnswers ==
  /\ asr.proc = "running" /\ asr.wire # 0
  /\ asr' = Says([asr EXCEPT !.wire = 0, !.proc = IF asr.wire = Shutdown THEN "done" ELSE @],
                 Answer(asr.wire))
  /\ heard' = heard \cup {asr.wire}

HelperRefuses ==
  /\ asr.proc = "running" /\ asr.wire # 0
  /\ asr' = Says([asr EXCEPT !.wire = 0], <<Line("error", asr.wire)>>) /\ UNCHANGED heard

\* A startup error, or a line that cannot be parsed instead of an answer.
HelperMisbehaves ==
  /\ asr.proc = "starting" \/ (asr.proc = "running" /\ asr.wire # 0)
  /\ asr.lines = <<>> /\ ~asr.killed
  /\ asr' = Says(asr, <<Line("bad", 0)>>) /\ UNCHANGED heard

\* It exits: after the shutdown, killed, or by itself.
HelperExits ==
  /\ asr.proc # "exited"
  /\ asr' = Says([asr EXCEPT !.proc = "exited"],
                 <<Line(IF asr.proc = "done" /\ ~asr.killed THEN "exit 0" ELSE "exit 1", 0)>>)
  /\ UNCHANGED heard

-----------------------------------------------------------------------------
(* The processing queue: consumeLine and finishClose.                      *)

Consume == [asr EXCEPT !.lines = Tail(@)]

NextLine(kind) == asr.processing = "idle" /\ asr.lines # <<>> /\ Head(asr.lines).kind = kind

ReadyLine ==
  /\ NextLine("ready") /\ UNCHANGED heard
  /\ asr' = IF asr.ready = "waiting"
            THEN Execute([Consume EXCEPT !.ready = "ready", !.processing = "ready"])
            ELSE Consume

BadLine == NextLine("bad") /\ asr' = SignalRuntimeError(Consume) /\ UNCHANGED heard

\* The answer belongs to the request that is pending.
ExpectedAnswer(a) == IF a.request = Head(a.lines).of THEN a.request ELSE 0

TranscriptLine ==
  /\ NextLine("transcript") /\ UNCHANGED heard
  /\ asr' = IF ExpectedAnswer(asr) # 0 THEN [Consume EXCEPT !.processing = "transcript"]
            ELSE SignalRuntimeError(Consume)

AnyResult ==
  /\ NextLine("ok") \/ NextLine("error")
  /\ asr' = IF ExpectedAnswer(asr) = 0 THEN SignalRuntimeError(Consume) ELSE Settle(Consume, "ok")
  /\ UNCHANGED heard

ResultLine ==
  /\ NextLine("ok") \/ NextLine("error")
  /\ asr' = IF ExpectedAnswer(asr) = 0 THEN SignalRuntimeError(Consume)
            ELSE Settle(Consume, IF Head(asr.lines).kind = "ok" THEN "ok" ELSE "failed")
  /\ UNCHANGED heard

\* onTranscript has stored the caption, or rejects.
TranscriptStored ==
  /\ asr.processing = "transcript"
  /\ asr' = [asr EXCEPT !.processing = "idle"] /\ UNCHANGED heard

TranscriptRejected ==
  /\ asr.processing = "transcript"
  /\ asr' = SignalProcessingError([asr EXCEPT !.processing = "idle"]) /\ UNCHANGED heard

\* finishClose, up to onExit; the result is made before anyone hears of the exit.
ExitLine ==
  /\ NextLine("exit 0") \/ NextLine("exit 1")
  /\ LET expected == asr.stop # "no" /\ Head(asr.lines).kind = "exit 0"
                       /\ ~asr.runtimeError /\ ~asr.processingError
         a == IF expected THEN Consume ELSE RejectOutstanding(Consume)
     IN  asr' = [a EXCEPT !.child = FALSE, !.exitError = asr.runtimeError, !.processing = "exit"]
  /\ UNCHANGED heard

\* onExit is done.
Exited ==
  asr' = [asr EXCEPT !.processing = "idle",
                     !.exit = IF asr.processingError THEN "rejected" ELSE "resolved"]

-----------------------------------------------------------------------------
(* stop.                                                                   *)

StopAsr == asr.stop = "no" /\ asr' = [asr EXCEPT !.stop = "queue"] /\ UNCHANGED heard

AskShutdown(a) == Ask([a EXCEPT !.stop = "shutdown"], Shutdown)

\* The input of a process that has exited may be destroyed already.
AfterDrain(a) ==
  (IF a.child THEN {AskShutdown(a)} ELSE {})
    \cup (IF a.child /\ a.proc # "exited" THEN {} ELSE {[a EXCEPT !.stop = "exit"]})

GiveUp(a) == [SignalRuntimeError(a) EXCEPT !.stop = "exit"]

StopQueueDrained ==
  /\ asr.stop = "queue" /\ asr.request = 0 /\ UNCHANGED heard
  /\ IF asr.active THEN asr' = Ask([asr EXCEPT !.stop = "drain"], Drain)
     ELSE asr' \in AfterDrain(asr)

StopDrained ==
  /\ asr.stop = "drain" /\ asr.request = 0 /\ UNCHANGED heard
  /\ IF asr.answer[Drain] = "ok" THEN asr' \in AfterDrain(asr) ELSE asr' = GiveUp(asr)

StopShutDown ==
  /\ asr.stop = "shutdown" /\ asr.request = 0 /\ UNCHANGED heard
  /\ asr' = IF asr.answer[Shutdown] = "ok" THEN [asr EXCEPT !.stop = "exit"] ELSE GiveUp(asr)

StopTimesOut ==
  /\ asr.stop \in {"queue", "drain", "shutdown"} /\ asr.request # 0
  /\ asr' = GiveUp(asr) /\ UNCHANGED heard

RawOutcome(a) == a.exit

AsrStopOutcome(a) == IF a.exit = "rejected" \/ a.exitError THEN "failed" ELSE "ok"

StopExited ==
  /\ asr.stop \in {"exit", "killed"} /\ asr.exit # "none"
  /\ asr' = [asr EXCEPT !.stop = AsrStopOutcome(asr)] /\ UNCHANGED heard

\* It does not exit, and then not even when it is killed.
StopExitTimesOut ==
  /\ asr.stop \in {"exit", "killed"} /\ asr.exit = "none" /\ UNCHANGED heard
  /\ asr' = [asr EXCEPT !.killed = TRUE,
                        !.stop = IF asr.stop = "exit" THEN "killed" ELSE "failed"]

=============================================================================
