--------------------------- MODULE CaptureSession ---------------------------
(***************************************************************************)
(* What the local service promises about its capture sessions, to whoever  *)
(* reads its events: one session is open at a time; it takes its source of *)
(* captions, if it has one, and only then the microphone; a source records *)
(* and starts again until it fails, and one that has failed has failed for *)
(* good; a session is stopped before it ends; what has ended rests and     *)
(* never changes.                                                          *)
(*                                                                         *)
(* SessionLifecycle implements this specification, see Sessions there.     *)
(* The helpers, the recordings, the timers, the requests, the transitions, *)
(* the crashes and the recoveries are all invisible here.                  *)
(***************************************************************************)
CONSTANTS
  Session,      \* the sessions of the device
  CaptureKind   \* the kinds of source that captions come from

VARIABLES
  phase,    \* the phase of each session
  mode,     \* its mode
  status    \* what became of its sources

vars == <<phase, mode, status>>

Kind == CaptureKind \cup {"browser-mic"}

Live == {"starting", "recording"}

IsOpen(s) == phase[s] \in {"open", "stopping"}

Init ==
  /\ phase = [s \in Session |-> "none"]
  /\ mode = [s \in Session |-> "none"]
  /\ status = [s \in Session |-> [k \in Kind |-> "none"]]

Becomes(s, k, st) == status' = [status EXCEPT ![s][k] = st] /\ UNCHANGED <<phase, mode>>

Start(s, m) ==
  /\ \A t \in Session : ~IsOpen(t)
  /\ phase[s] = "none"
  /\ phase' = [phase EXCEPT ![s] = "open"]
  /\ mode' = [mode EXCEPT ![s] = m]
  /\ UNCHANGED status

AttachSource(s, k) ==
  /\ phase[s] = "open" /\ mode[s] = "captions"
  /\ \A j \in Kind : status[s][j] = "none"
  /\ Becomes(s, k, "starting")

AttachMic(s) ==
  /\ phase[s] = "open" /\ status[s]["browser-mic"] = "none"
  /\ mode[s] = "captions" => \E k \in CaptureKind : status[s][k] \in Live
  /\ Becomes(s, "browser-mic", "available")

SourceMoves(s, k, st) ==
  /\ IsOpen(s) /\ status[s][k] \in Live
  /\ Becomes(s, k, st)

MicFails(s) ==
  /\ phase[s] = "stopping" /\ status[s]["browser-mic"] = "available"
  /\ Becomes(s, "browser-mic", "failed")

Stop(s) ==
  /\ phase[s] = "open"
  /\ phase' = [phase EXCEPT ![s] = "stopping"]
  /\ UNCHANGED <<mode, status>>

End(s) ==
  /\ phase[s] = "stopping"
  /\ phase' = [phase EXCEPT ![s] = "ended"]
  /\ status' = [status EXCEPT ![s] =
       [k \in Kind |-> IF @[k] \in {"none", "failed"} THEN @[k] ELSE "stopped"]]
  /\ UNCHANGED mode

Next ==
  \E s \in Session :
    \/ \E m \in {"captions", "recording-only"} : Start(s, m)
    \/ \E k \in CaptureKind : AttachSource(s, k)
    \/ \E k \in CaptureKind : \E st \in Live \cup {"failed"} : SourceMoves(s, k, st)
    \/ AttachMic(s) \/ MicFails(s) \/ Stop(s) \/ End(s)

Spec == Init /\ [][Next]_vars

=============================================================================
