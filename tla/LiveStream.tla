----------------------------- MODULE LiveStream -----------------------------
(***************************************************************************)
(* What a page shows of a running service: the events, which it reads once *)
(* from /api/state and then one by one from the event stream, and the      *)
(* preview of the caption being spoken, which only the stream carries.  An *)
(* event that ends a session clears the preview of the page.               *)
(*                                                                         *)
(* An event is its cursor.  A preview is the stream of its captioner,      *)
(* which is new at each attachment and at each reconnection, with a        *)
(* revision.  The connection is a queue that a drop loses.  An answer to   *)
(* a refresh arrives in any order with respect to the stream, but before   *)
(* the page is connected to the next process.                              *)
(***************************************************************************)
EXTENDS Naturals, Sequences

CONSTANTS
  Nobody,       \* no process
  MaxCursor,    \* bound on the events
  MaxRevision,  \* bound on the revisions of one stream
  MaxStreams,   \* bound on the streams of captioners
  MaxQueue,     \* bound on what is sent and not yet read
  MaxDrops,     \* bound on the connections that a running service loses
  Refreshes     \* bound on the refreshes a page has under way, a set

ASSUME LiveAssumption == MaxCursor \in Nat /\ MaxStreams \in Nat

VARIABLES
  feed,     \* the log and the ends of sessions in it, the preview the service keeps, and
            \* the attached captioner
  conn,     \* the event stream of the page
  page,     \* what the page holds
  refresh   \* the refreshes under way

liveVars == <<feed, conn, page, refresh>>

NoPreview == [stream |-> 0, revision |-> 0]
Streams == 1 .. MaxStreams
Idle == [at |-> "idle", force |-> FALSE, by |-> Nobody, cursor |-> 0]

LiveInit ==
  /\ feed = [cursor |-> 0, unsent |-> FALSE, ended |-> {}, preview |-> NoPreview, kind |-> "none",
             stream |-> 0, revision |-> 0, streams |-> 0]
  /\ conn = [by |-> Nobody, queue |-> <<>>, drops |-> 0]
  /\ page = [open |-> FALSE, instance |-> Nobody, last |-> 0, applied |-> {}, back |-> FALSE,
             preview |-> NoPreview, revisions |-> [s \in Streams |-> 0]]
  /\ refresh = [i \in Refreshes |-> Idle]

Message(kind, cursor, preview) == [kind |-> kind, cursor |-> cursor, preview |-> preview]

Sent(p, m) == conn' = IF conn.by = p THEN [conn EXCEPT !.queue = Append(@, m)] ELSE conn

-----------------------------------------------------------------------------
(* The service.                                                            *)

\* hasOpenSession.  The log begins in a session; what follows the end of one starts another.
SessionOpen == feed.cursor \notin feed.ended

\* appendEvent: the event is stored and counted in the state, later it is broadcast.  A
\* session ends after its captioner is detached (endSessionOnce).
EventStored(end) ==
  /\ feed.cursor < MaxCursor /\ ~feed.unsent
  /\ end => SessionOpen /\ feed.stream = 0
  /\ feed' = [feed EXCEPT !.cursor = @ + 1, !.unsent = TRUE,
                          !.ended = IF end THEN @ \cup {feed.cursor + 1} ELSE @]
  /\ UNCHANGED <<conn, page, refresh>>

EventBroadcast(p, connected) ==
  /\ feed.unsent /\ feed' = [feed EXCEPT !.unsent = FALSE]
  /\ IF connected THEN Sent(p, Message("event", feed.cursor, NoPreview)) ELSE UNCHANGED conn
  /\ UNCHANGED <<page, refresh>>

\* startCaptionAdapter, in the mutation that has started the session.
CaptionerAttached ==
  /\ feed.stream = 0 /\ feed.streams < MaxStreams /\ SessionOpen /\ ~feed.unsent
  /\ \E kind \in {"local-asr", "system-captions"} :
       feed' = [feed EXCEPT !.kind = kind, !.streams = @ + 1, !.stream = feed.streams + 1,
                            !.revision = 0]
  /\ UNCHANGED <<conn, page, refresh>>

\* publishCaptionPreview.  The helper of the system captions numbers its previews.
PreviewPublished(p) ==
  /\ feed.stream # 0 /\ feed.revision < MaxRevision
  /\ LET preview == [stream |-> feed.stream, revision |-> feed.revision + 1] IN
       /\ feed' = [feed EXCEPT !.revision = @ + 1, !.preview = preview]
       /\ Sent(p, Message("upsert", 0, preview))
  /\ UNCHANGED <<page, refresh>>

PreviewWithdrawn(p) ==
  /\ feed.kind = "system-captions" /\ feed.stream # 0 /\ feed.revision < MaxRevision
  /\ feed' = [feed EXCEPT !.revision = @ + 1,
                          !.preview = IF @.stream = feed.stream THEN NoPreview ELSE @]
  /\ Sent(p, Message("clear", 0, [stream |-> feed.stream, revision |-> feed.revision + 1]))
  /\ UNCHANGED <<page, refresh>>

\* clearCaptionPreview, with what else changes.  The runtime of a local recogniser
\* goes on numbering after the revision of the clear.
ClearedWith(p, f) ==
  IF feed.preview.stream # feed.stream THEN feed' = f /\ UNCHANGED conn
  ELSE LET revision == feed.preview.revision + 1 IN
         /\ feed' = [f EXCEPT !.preview = NoPreview,
                              !.revision = IF feed.kind = "local-asr" /\ revision > @ THEN revision ELSE @]
         /\ Sent(p, Message("clear", 0, [stream |-> feed.stream, revision |-> revision]))

\* The recogniser clears its partial text, or its final text is stored.
TranscriptDone(p) ==
  /\ feed.kind = "local-asr" /\ feed.preview # NoPreview
  /\ ClearedWith(p, feed) /\ UNCHANGED <<page, refresh>>

\* The helper of the system captions reconnects: a new stream.
HelperReconnects(p) ==
  /\ feed.kind = "system-captions" /\ feed.stream # 0 /\ feed.streams < MaxStreams
  /\ ClearedWith(p, [feed EXCEPT !.streams = @ + 1, !.stream = feed.streams + 1])
  /\ UNCHANGED <<page, refresh>>

\* detachCaptionAdapter
CaptionerDetached(p) ==
  /\ feed.stream # 0
  /\ ClearedWith(p, [feed EXCEPT !.stream = 0, !.kind = "none"]) /\ UNCHANGED <<page, refresh>>

\* The process ends, and with it all but the log.
FeedLost ==
  /\ feed' = [feed EXCEPT !.unsent = FALSE, !.preview = NoPreview, !.stream = 0, !.kind = "none"]
  /\ UNCHANGED <<conn, page, refresh>>

\* openEventStream: the hello, then the previews that are current.
StreamOf(p) ==
  <<Message("hello", feed.cursor, NoPreview)>>
    \o IF feed.preview = NoPreview THEN <<>> ELSE <<Message("upsert", 0, feed.preview)>>

-----------------------------------------------------------------------------
(* The page.                                                               *)

NoCaption(pg) == [pg EXCEPT !.preview = NoPreview, !.revisions = [s \in Streams |-> 0]]

\* adoptServerInstance
InstanceChanged(p) == page.instance # Nobody /\ page.instance # p
Adopted(pg, p) == [IF InstanceChanged(p) THEN NoCaption(pg) ELSE pg EXCEPT !.instance = p]

Asks(p, force) ==
  \E i \in Refreshes :
    /\ refresh[i] = Idle
    /\ refresh' = [refresh EXCEPT ![i] = [Idle EXCEPT !.at = "asked", !.force = force, !.by = p]]

Asked(force) == Asks(conn.by, force)

\* The page is loaded from the service: it asks for the state and opens the stream.
OpenPage(p) ==
  /\ ~page.open /\ page' = [page EXCEPT !.open = TRUE]
  /\ conn' = [conn EXCEPT !.by = p, !.queue = StreamOf(p)]
  /\ Asks(p, FALSE) /\ UNCHANGED feed

\* The EventSource connects again.
Reconnect(p) ==
  /\ page.open /\ conn.by = Nobody
  /\ \A i \in Refreshes : refresh[i].by \in {Nobody, p}
  /\ conn' = [conn EXCEPT !.by = p, !.queue = StreamOf(p)] /\ UNCHANGED <<feed, page, refresh>>

Drop(gone) ==
  /\ conn.by # Nobody /\ (gone \/ conn.drops < MaxDrops)
  /\ conn' = [by |-> Nobody, queue |-> <<>>, drops |-> IF gone THEN conn.drops ELSE conn.drops + 1]
  /\ page' = NoCaption(page) /\ UNCHANGED <<feed, refresh>>

Received(kind) ==
  /\ conn.queue # <<>> /\ Head(conn.queue).kind \in kind
  /\ conn' = [conn EXCEPT !.queue = Tail(@)] /\ UNCHANGED feed

HelloTrusted ==
  /\ Received({"hello"})
  /\ page' = [Adopted(page, conn.by) EXCEPT !.back = FALSE]
  /\ IF InstanceChanged(conn.by) THEN Asked(TRUE) ELSE UNCHANGED refresh

ReceiveHello ==
  /\ Received({"hello"})
  /\ page' = [Adopted(page, conn.by) EXCEPT !.back = FALSE]
  /\ LET cursor == Head(conn.queue).cursor IN
       IF InstanceChanged(conn.by) \/ cursor # page.last
       THEN Asked(InstanceChanged(conn.by) \/ cursor < page.last)
       ELSE UNCHANGED refresh

Shows(pg, cursors, last, back) ==
  [pg EXCEPT !.applied = cursors, !.last = last, !.back = back]

\* The next event is applied; the end of a session clears the preview.
Applied(cursor) ==
  LET pg == Shows(page, page.applied \cup {cursor}, cursor, FALSE) IN
    IF cursor \in feed.ended THEN NoCaption(pg) ELSE pg

AppliesAny ==
  /\ Received({"event"})
  /\ LET cursor == Head(conn.queue).cursor IN
       page' = IF cursor <= page.last THEN page ELSE Applied(cursor)
  /\ UNCHANGED refresh

\* applySequentialLiteEvent: a duplicate is ignored, a gap asks for the state.
ReceiveEvent ==
  /\ Received({"event"})
  /\ LET cursor == Head(conn.queue).cursor IN
       \/ cursor <= page.last /\ UNCHANGED <<page, refresh>>
       \/ cursor = page.last + 1 /\ UNCHANGED refresh /\ page' = Applied(cursor)
       \/ cursor > page.last + 1 /\ Asked(FALSE) /\ page' = [page EXCEPT !.back = FALSE]

\* applyCaptionPreview
ReceivePreview ==
  /\ Received({"upsert", "clear"}) /\ UNCHANGED refresh
  /\ LET m == Head(conn.queue)
         stream == m.preview.stream
         newer == m.preview.revision > page.revisions[stream]
         seen == [page EXCEPT !.revisions[stream] = m.preview.revision]
     IN \/ ~newer /\ UNCHANGED page
        \/ newer /\ m.kind = "upsert" /\ page' = [seen EXCEPT !.preview = m.preview]
        \/ newer /\ m.kind = "clear"
           /\ page' = [seen EXCEPT !.preview = IF @.stream = stream THEN NoPreview ELSE @]

\* GET /api/state
RefreshAnswered(p) ==
  /\ \E i \in Refreshes :
       /\ refresh[i].at = "asked" /\ refresh[i].by = p
       /\ refresh' = [refresh EXCEPT ![i].at = "answered", ![i].cursor = feed.cursor]
  /\ UNCHANGED <<feed, conn, page>>

\* An answer that is forced upon the page may be older than what it shows.
RefreshApplied ==
  /\ \E i \in Refreshes :
       LET r == refresh[i]
           pg == Adopted(page, r.by)
       IN /\ r.at = "answered"
          /\ refresh' = [refresh EXCEPT ![i] = Idle]
          /\ page' = IF r.force \/ InstanceChanged(r.by) \/ r.cursor >= page.last
                     THEN Shows(pg, 1 .. r.cursor, r.cursor, page.back \/ r.cursor < page.last)
                     ELSE pg
  /\ UNCHANGED <<feed, conn>>

\* The process that should answer is gone.
RefreshFails(gone) ==
  /\ \E i \in Refreshes : /\ refresh[i].by \in gone
                          /\ refresh' = [refresh EXCEPT ![i] = Idle]
  /\ UNCHANGED <<feed, conn, page>>

PageStep == ReceiveHello \/ ReceiveEvent \/ ReceivePreview \/ RefreshApplied

-----------------------------------------------------------------------------
(* Properties.                                                             *)

LiveTypeOK ==
  /\ feed.cursor \in 0 .. MaxCursor /\ feed.stream \in 0 .. MaxStreams
  /\ page.last \in 0 .. MaxCursor /\ page.preview.stream \in 0 .. MaxStreams
  /\ \A i \in Refreshes : refresh[i].at \in {"idle", "asked", "answered"}

\* What a page shows is a state the service was in: the events up to some cursor,
\* none left out, whatever the order in which the stream and the answers arrive.
PageIsPrefix == page.applied = 1 .. page.last /\ page.last <= feed.cursor

=============================================================================
