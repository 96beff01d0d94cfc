-------------------------- MODULE CloudOwnership --------------------------
(***************************************************************************)
(* Which event may follow which: the rules the cloud receiver applies to   *)
(* the events of one device, in cursor order, before it stores one         *)
(* (validateDeviceEventOwnership).  The rules are operators on what the    *)
(* receiver derives from the events it has stored, so a model of           *)
(* the local service can offer each event it writes.                       *)
(*                                                                         *)
(* A session has at most one source of a kind, so a source is named by its *)
(* session and kind.  Left out: the identities of segments and chunks,     *)
(* which the local service never reuses.                                   *)
(***************************************************************************)
CONSTANTS
  Session,     \* the sessions of the device
  NoSession    \* no session

CaptureKind == {"system-captions", "local-asr"}

Kind == CaptureKind \cup {"browser-mic"}

Mode == {"captions", "recording-only"}

Phase == {"none", "open", "stopping", "ended"}

CaptureStatus == {"available", "unavailable", "starting", "recording", "stopped", "failed"}

\* "not-recording" also stands for "durable", which nothing here tells from it.
Tail == {"not-recording", "loss-confirmed"}

\* Sessions and sources the receiver has not heard of are "none".
Ownership ==
  [active : Session \cup {NoSession},
   phase : [Session -> Phase],
   mode : [Session -> Mode \cup {"none"}],
   capture : [Session -> CaptureKind \cup {"none"}],
   status : [Session -> [Kind -> CaptureStatus \cup {"none"}]]]

NothingOwned ==
  [active |-> NoSession,
   phase |-> [s \in Session |-> "none"],
   mode |-> [s \in Session |-> "none"],
   capture |-> [s \in Session |-> "none"],
   status |-> [s \in Session |-> [k \in Kind |-> "none"]]]

Event ==
  [type : {"session.started"}, session : Session, mode : Mode]
  \cup [type : {"session.stop.requested"}, session : Session, tail : Tail]
  \cup [type : {"session.ended"}, session : Session]
  \cup [type : {"source.attached", "source.status.changed"},
        session : Session, kind : Kind, status : CaptureStatus]
  \cup [type : {"caption.received", "audio.chunk.saved"}, session : Session, kind : Kind]

-----------------------------------------------------------------------------
\* SOURCE_STATUS_TRANSITIONS: the changes of status that Lite produces.
SourceStatusTransitions ==
  {<<"available", "starting">>,
   <<"starting", "recording">>, <<"starting", "failed">>,
   <<"recording", "starting">>, <<"recording", "failed">>,
   <<"failed", "starting">>}

\* At most one capture source of a session is starting or recording.
MayClaimCapture(c, s, k) == c.capture[s] \in {"none", k}

ValidInitialSource(c, e) ==
  IF e.kind = "browser-mic"
    THEN e.status = "available"
    ELSE c.mode[e.session] = "captions" /\ e.status \in {"starting", "available"}

\* A source that is taking captions, or audio, for its session.
TakesCaptions(c, s, k) ==
  IF k = "browser-mic"
    THEN c.mode[s] = "recording-only" /\ c.status[s][k] = "available"
    ELSE c.status[s][k] = "recording"

TakesAudio(c, s, k) ==
  IF k = "browser-mic"
    THEN c.status[s][k] = "available"
    ELSE c.status[s][k] = "recording" /\ c.capture[s] = k

Accepts(c, e) ==
  LET s == e.session IN
  CASE e.type = "session.started" ->
         c.active = NoSession /\ c.phase[s] = "none"
    [] e.type = "session.stop.requested" ->
         c.phase[s] = "open"
    [] e.type = "session.ended" ->
         c.phase[s] = "stopping"
    [] e.type = "source.attached" ->
         /\ c.phase[s] = "open"
         /\ ValidInitialSource(c, e)
         /\ c.status[s][e.kind] = "none"
         /\ e.kind # "browser-mic" /\ e.status = "starting" => MayClaimCapture(c, s, e.kind)
    [] e.type = "source.status.changed" ->
         /\ c.phase[s] \in {"open", "stopping"}
         /\ e.kind # "browser-mic"
         /\ <<c.status[s][e.kind], e.status>> \in SourceStatusTransitions
         /\ e.status \in {"starting", "recording"} => MayClaimCapture(c, s, e.kind)
    [] e.type = "caption.received" ->
         c.phase[s] \in {"open", "stopping"} /\ TakesCaptions(c, s, e.kind)
    [] e.type = "audio.chunk.saved" ->
         c.phase[s] \in {"open", "stopping"} /\ TakesAudio(c, s, e.kind)

\* What the receiver knows after an event it accepts.
After(c, e) ==
  LET s == e.session IN
  CASE e.type = "session.started" ->
         [c EXCEPT !.active = s, !.phase[s] = "open", !.mode[s] = e.mode]
    [] e.type = "session.stop.requested" ->
         [c EXCEPT !.phase[s] = "stopping"]
    [] e.type = "session.ended" ->
         [c EXCEPT !.phase[s] = "ended",
                   !.active = IF @ = s THEN NoSession ELSE @,
                   !.capture[s] = "none",
                   !.status[s] = [k \in Kind |-> IF @[k] = "none" THEN "none" ELSE "stopped"]]
    [] e.type \in {"source.attached", "source.status.changed"} ->
         [c EXCEPT !.status[s][e.kind] = e.status,
                   !.capture[s] = IF e.kind # "browser-mic" /\ e.status \in {"starting", "recording"}
                                    THEN e.kind
                                  ELSE IF @ = e.kind THEN "none" ELSE @]
    [] OTHER -> c

=============================================================================
