------------------------- MODULE ServicePage_proofs -------------------------
(***************************************************************************)
(* That a page which has read what it was sent, and was not just taken     *)
(* back, shows what the service holds, for any number of processes, drops, *)
(* refreshes, sessions and captioners.                                     *)
(*                                                                         *)
(* The queue of the connection is read as a prediction.  The last message  *)
(* in it leaves the page with the preview of the service, because each     *)
(* message is newer than what the page has seen of its stream, and because *)
(* each fits the preview that the message before it leaves.  An event the  *)
(* page does not show is told by the queue or by the answer to a refresh   *)
(* under way, unless the page was taken back; and whatever event the queue *)
(* tells of next, the rest of the queue tells of those that are after it.  *)
(* Only the process the page is connected to can change what it holds      *)
(* while it serves: the lock.                                              *)
(*                                                                         *)
(* Then the type invariant of the whole service, from the invariants of    *)
(* its parts and the bounds that they do not need.                         *)
(*                                                                         *)
(* Last, that a close is never stuck: what its stages wait for, down to    *)
(* the queue of the ledger, has no cycle.                                  *)
(***************************************************************************)
EXTENDS Service_proofs

\* The preview that a message leaves on the page.
Reads(m) == IF m.kind = "upsert" THEN m.preview ELSE NoPreview

\* The preview that page pg shows when it has read k messages of queue q.
After(pg, q, k) == IF k = 0 THEN pg.preview ELSE Reads(q[k])

\* Message m can be read while the page shows preview v.
Follows(v, m) ==
  /\ m.kind \in {"hello", "event"} => v = NoPreview
  /\ m.kind = "clear" => v = NoPreview \/ v.stream = m.preview.stream

InOrder(pg, q) ==
  \A k \in DOMAIN q : Follows(After(pg, q, k - 1), q[k]) /\ (q[k].kind = "hello" => k = 1)

Carries(m) == m.kind \in {"upsert", "clear"}

\* A preview that page pg has not seen, of a captioner that service f has attached.
New(f, pg, v) ==
  /\ v.stream \in 1 .. f.streams /\ v.revision > pg.revisions[v.stream]
  /\ v.stream = f.stream => v.revision <= f.revision

Rising(q) ==
  \A j, k \in DOMAIN q :
    j < k /\ Carries(q[j]) /\ Carries(q[k]) /\ q[j].preview.stream = q[k].preview.stream
      => q[j].preview.revision < q[k].preview.revision

Numbered(f, pg, q) == Rising(q) /\ \A k \in DOMAIN q : Carries(q[k]) => New(f, pg, q[k].preview)

\* What the page has seen of the streams the service has numbered.
Counted(f, pg) ==
  /\ f.stream # 0 => pg.revisions[f.stream] <= f.revision
  /\ \A s \in Streams : s > f.streams => pg.revisions[s] = 0
  /\ pg.preview = NoPreview \/ pg.preview.stream \in 1 .. f.streams

-----------------------------------------------------------------------------
(* Queues.                                                                 *)

\* A message that fits what the queue leaves can be sent after it.
LEMMA AppendInOrder ==
  ASSUME NEW S, NEW pg, NEW q \in Seq(S), NEW m \in S, InOrder(pg, q),
         Follows(After(pg, q, Len(q)), m), m.kind # "hello"
  PROVE  /\ InOrder(pg, Append(q, m))
         /\ After(pg, Append(q, m), Len(Append(q, m))) = Reads(m)
<1> DEFINE r == Append(q, m)
<1>1. /\ Len(r) = Len(q) + 1 /\ Len(q) \in Nat /\ DOMAIN r = 1 .. (Len(q) + 1) /\ DOMAIN q = 1 .. Len(q)
      /\ r[Len(q) + 1] = m /\ \A k \in 1 .. Len(q) : r[k] = q[k]
  OBVIOUS
<1> HIDE DEF r
<1>2. \A k \in 0 .. Len(q) : After(pg, r, k) = After(pg, q, k)
  BY <1>1 DEF After
<1>3. ASSUME NEW k \in DOMAIN r
      PROVE  Follows(After(pg, r, k - 1), r[k]) /\ (r[k].kind = "hello" => k = 1)
  <2>1. CASE k \in DOMAIN q
    <3>1. After(pg, r, k - 1) = After(pg, q, k - 1) /\ r[k] = q[k]
      BY <1>1, <1>2, <2>1
    <3> QED
      BY <2>1, <3>1 DEF InOrder
  <2>2. CASE k = Len(q) + 1
    <3>1. k - 1 = Len(q) /\ r[k] = m
      BY <1>1, <2>2
    <3>2. After(pg, r, k - 1) = After(pg, q, Len(q))
      BY <1>1, <1>2, <3>1
    <3> QED
      BY <3>1, <3>2
  <2> QED
    BY <1>1, <1>3, <2>1, <2>2
<1>4. After(pg, r, Len(r)) = Reads(m)
  BY <1>1 DEF After
<1> QED
  BY <1>3, <1>4 DEF InOrder, r

\* A message newer than all of its stream can be sent after the others.
LEMMA AppendRising ==
  ASSUME NEW c \in Nat, NEW q \in Seq(Messages(c)), NEW m \in Messages(c), Rising(q),
         Carries(m) => \A k \in DOMAIN q : Carries(q[k]) /\ q[k].preview.stream = m.preview.stream
                                             => q[k].preview.revision < m.preview.revision
  PROVE  Rising(Append(q, m))
<1> DEFINE r == Append(q, m)
<1>1. /\ Len(q) \in Nat /\ DOMAIN r = 1 .. (Len(q) + 1) /\ DOMAIN q = 1 .. Len(q)
      /\ r[Len(q) + 1] = m /\ \A k \in 1 .. Len(q) : r[k] = q[k]
  OBVIOUS
<1> HIDE DEF r
<1>2. ASSUME NEW j \in DOMAIN r, NEW k \in DOMAIN r, j < k, Carries(r[j]), Carries(r[k]),
             r[j].preview.stream = r[k].preview.stream
      PROVE  r[j].preview.revision < r[k].preview.revision
  <2>1. j \in DOMAIN q /\ r[j] = q[j]
    BY <1>1, <1>2
  <2>2. CASE k \in DOMAIN q
    <3>1. r[k] = q[k]
      BY <1>1, <2>2
    <3> QED
      BY <1>2, <2>1, <2>2, <3>1 DEF Rising
  <2>3. CASE k = Len(q) + 1
    <3>1. r[k] = m
      BY <1>1, <2>3
    <3> QED
      BY <1>2, <2>1, <3>1
  <2> QED
    BY <1>1, <2>2, <2>3
<1> QED
  BY <1>2 DEF Rising, r

\* What is left when the first message has been read.
LEMMA TailReads ==
  ASSUME NEW S, NEW q \in Seq(S), q # <<>>
  PROVE  /\ Len(q) \in Nat \ {0} /\ Tail(q) \in Seq(S) /\ Len(Tail(q)) = Len(q) - 1
         /\ DOMAIN q = 1 .. Len(q) /\ DOMAIN Tail(q) = 1 .. (Len(q) - 1)
         /\ 1 \in DOMAIN q /\ Head(q) = q[1] /\ Head(q) \in S
         /\ \A k \in DOMAIN Tail(q) : k + 1 \in DOMAIN q /\ Tail(q)[k] = q[k + 1]
  OBVIOUS

LEMMA TailInOrder ==
  ASSUME NEW S, NEW pg, NEW pg2, NEW q \in Seq(S), q # <<>>, InOrder(pg, q), pg2.preview = Reads(Head(q))
  PROVE  /\ InOrder(pg2, Tail(q))
         /\ After(pg2, Tail(q), Len(Tail(q))) = After(pg, q, Len(q))
         /\ \A k \in DOMAIN Tail(q) : Tail(q)[k].kind # "hello"
<1> DEFINE r == Tail(q)
<1>1. /\ Len(q) \in Nat \ {0} /\ Len(r) = Len(q) - 1 /\ DOMAIN q = 1 .. Len(q) /\ DOMAIN r = 1 .. (Len(q) - 1)
      /\ Head(q) = q[1] /\ \A k \in DOMAIN r : k + 1 \in DOMAIN q /\ r[k] = q[k + 1]
  BY TailReads
<1> HIDE DEF r
<1>2. \A k \in 0 .. Len(r) : After(pg2, r, k) = After(pg, q, k + 1)
  BY <1>1 DEF After
<1>3. ASSUME NEW k \in DOMAIN r
      PROVE  Follows(After(pg2, r, k - 1), r[k]) /\ r[k].kind # "hello"
  <2>1. k \in Nat \ {0} /\ k - 1 \in 0 .. Len(r) /\ (k - 1) + 1 = k /\ k + 1 \in DOMAIN q /\ (k + 1) - 1 = k
        /\ r[k] = q[k + 1] /\ k + 1 # 1
    BY <1>1
  <2>2. After(pg2, r, k - 1) = After(pg, q, k)
    BY <1>2, <2>1
  <2> QED
    BY <2>1, <2>2 DEF InOrder
<1>4. After(pg2, r, Len(r)) = After(pg, q, Len(q))
  BY <1>1, <1>2
<1> QED
  BY <1>3, <1>4 DEF InOrder, r

\* The messages left are as new as they were, and newer than one that was read.
LEMMA TailNumbered ==
  ASSUME NEW c \in Nat, NEW f, NEW pg, NEW q \in Seq(Messages(c)), q # <<>>, Numbered(f, pg, q)
  PROVE  /\ Numbered(f, pg, Tail(q))
         /\ Carries(Head(q)) =>
              /\ New(f, pg, Head(q).preview)
              /\ \A k \in DOMAIN Tail(q) :
                   Carries(Tail(q)[k]) /\ Tail(q)[k].preview.stream = Head(q).preview.stream
                     => Head(q).preview.revision < Tail(q)[k].preview.revision
<1> DEFINE r == Tail(q)
<1>1. /\ DOMAIN q = 1 .. Len(q) /\ DOMAIN r = 1 .. (Len(q) - 1) /\ Len(q) \in Nat \ {0}
      /\ 1 \in DOMAIN q /\ Head(q) = q[1] /\ \A k \in DOMAIN r : k + 1 \in DOMAIN q /\ r[k] = q[k + 1]
  BY TailReads
<1> HIDE DEF r
<1>2. \A j, k \in DOMAIN r : j < k => j + 1 < k + 1
  BY <1>1
<1>3. Rising(r)
  BY <1>1, <1>2 DEF Rising, Numbered
<1>4. \A k \in DOMAIN r : 1 < k + 1
  BY <1>1
<1>5. Numbered(f, pg, r)
  BY <1>1, <1>3 DEF Numbered
<1> QED
  BY <1>1, <1>4, <1>5 DEF Numbered, Rising, r

-----------------------------------------------------------------------------
(* The invariant.                                                          *)

\* The captioner that is attached is the last one, and its preview the last it has sent.
\* Its session is open, and no event is on its way.
FeedCounted ==
  /\ feed.stream <= feed.streams /\ feed.streams <= MaxStreams /\ feed.cursor <= MaxCursor
  /\ feed.preview # NoPreview =>
       /\ workload = "previews" /\ feed.stream # 0 /\ feed.revision # 0
       /\ feed.preview = [stream |-> feed.stream, revision |-> feed.revision]
  /\ feed.unsent => workload \in {"events", "previews"}
  /\ feed.stream # 0 => workload = "previews" /\ SessionOpen /\ ~feed.unsent

\* A process that has served, or does.
Past(p) == Life(p) \in {"ready", "closing", "closed", "dead"}

\* A page without a connection shows no preview.  One that has a connection knows whose
\* it is, or will be told by the next message, and waits for nobody else.
Connected ==
  /\ conn.by = Nobody =>
       conn.queue = <<>> /\ page.preview = NoPreview /\ \A s \in Streams : page.revisions[s] = 0
  /\ conn.by # Nobody =>
       /\ page.open /\ Past(conn.by)
       /\ page.instance = conn.by \/ (conn.queue # <<>> /\ Head(conn.queue).kind = "hello")
       /\ \A i \in Refreshes : refresh[i].by \in {Nobody, conn.by}
  /\ \A i \in Refreshes :
       /\ refresh[i].at = "idle" \/ ~page.open => refresh[i] = Idle
       /\ refresh[i].at # "idle" => refresh[i].by # Nobody

\* An answer that is asked for, or that counts event c.
Awaits(r, c) == r.at = "asked" \/ (r.at = "answered" /\ c <= r.cursor)

\* A message from which the page learns of event c, if not of a gap before it.
Speaks(m) == m.kind \in {"hello", "event"}
Tells(m, c) == Speaks(m) /\ c <= m.cursor

Untold(c) == feed.unsent /\ c = feed.cursor

\* From the first message that speaks of events, a queue tells of all of them.
Reaches(q) ==
  \A k \in DOMAIN q : Speaks(q[k]) =>
    \A c \in 1 .. feed.cursor : Untold(c) \/ \E j \in DOMAIN q : k <= j /\ Tells(q[j], c)

\* The page shows event c, or will learn of it; or it was taken back.
Coming(c) ==
  \/ c \in page.applied \/ page.back \/ Untold(c)
  \/ \E k \in DOMAIN conn.queue : Tells(conn.queue[k], c)
  \/ \E i \in Refreshes : Awaits(refresh[i], c)

CaughtUp ==
  conn.by # Nobody /\ Serving(conn.by) =>
    /\ After(page, conn.queue, Len(conn.queue)) = feed.preview
    /\ \A c \in 1 .. feed.cursor : Coming(c)
    /\ Reaches(conn.queue)

StreamInv ==
  /\ FeedCounted /\ Numbered(feed, page, conn.queue) /\ Counted(feed, page) /\ InOrder(page, conn.queue)
  /\ Connected /\ CaughtUp

\* Initially nothing is sent and nothing is shown.
LEMMA StreamStart == Init => StreamInv
<1> SUFFICES ASSUME Init PROVE StreamInv
  OBVIOUS
<1>1. LiveInit
  BY DEF Init
<1>2. /\ feed.cursor = 0 /\ feed.stream = 0 /\ feed.streams = 0 /\ ~feed.unsent /\ feed.preview = NoPreview
      /\ conn.by = Nobody /\ conn.queue = <<>> /\ page.preview = NoPreview
      /\ (\A s \in Streams : page.revisions[s] = 0) /\ \A i \in Refreshes : refresh[i] = Idle
  BY <1>1 DEF LiveInit
<1>3. DOMAIN conn.queue = {}
  BY <1>2
<1>4. FeedCounted /\ Counted(feed, page)
  BY <1>2, LiveAssumption DEF FeedCounted, Counted
<1>5. Numbered(feed, page, conn.queue) /\ InOrder(page, conn.queue)
  BY <1>3 DEF Numbered, Rising, InOrder
<1>6. Idle.at = "idle"
  BY DEF Idle
<1>7. Connected
  BY <1>2, <1>6 DEF Connected
<1> QED
  BY <1>2, <1>4, <1>5, <1>7 DEF StreamInv, CaughtUp

-----------------------------------------------------------------------------
(* The life of a process.                                                  *)

\* A process serves once.
LEMMA LifeForward ==
  ASSUME LockInv, NEW p \in Process, LifeStep(p), NEW q \in Process, Past(q)
  PROVE  Past(q)' /\ (Serving(q)' => Serving(q))
<1> DEFINE R == proc[p]
<1>0. R \in ProcRecord /\ proc \in [Process -> ProcRecord] /\ Life(p) = R.life
  BY DEF LockInv, Typed, Life
<1>1. ASSUME NEW r, Set(p, r), R.life \in {"ready", "closing", "closed", "dead"} =>
                                 r.life \in {"closing", "closed", "dead"}
      PROVE  Past(q)' /\ (Serving(q)' => Serving(q))
  <2>1. proc'[p] = r /\ (q # p => proc'[q] = proc[q])
    BY <1>0, <1>1 DEF Set
  <2> QED
    BY <1>1, <2>1 DEF Past, Serving, Life
<1>2. ASSUME NEW r, Set(p, r), R.life \notin {"ready", "closing", "closed", "dead"}
      PROVE  Past(q)' /\ (Serving(q)' => Serving(q))
  BY <1>1, <1>2
<1>3. CASE Starts(p) \/ LockRefused(p) \/ LockAcquired(p) \/ InitFails(p) \/ Ready(p)
  <2>1. PICK r : Set(p, r) /\ R.life \in {"new", "locking", "initializing"}
    BY <1>0, <1>3 DEF Starts, StartProcess, LockRefused, LockAcquired, InitFails, Unlocked, Ready, InitSucceeds
  <2> QED
    BY <1>2, <2>1
<1>4. CASE Close(p)
  <2>1. CASE R.life = "ready" /\ Set(p, Closing(R))
    <3>1. Closing(R).life = "closing"
      BY <1>0 DEF ProcRecord, Closing
    <3> QED
      BY <1>1, <2>1, <3>1
  <2>2. CASE R.life \in {"locking", "initializing"} /\ Set(p, [R EXCEPT !.closeAsked = TRUE])
    BY <1>2, <2>2
  <2> QED
    BY <1>0, <1>4, <2>1, <2>2 DEF Close
<1>5. CASE Closed(p)
  <2>1. Set(p, [R EXCEPT !.life = "closed", !.stage = "none"])
    BY <1>5 DEF Closed, Released, Unlocked
  <2>2. [R EXCEPT !.life = "closed", !.stage = "none"].life = "closed"
    BY <1>0 DEF ProcRecord
  <2> QED
    BY <1>1, <2>1, <2>2
<1>6. CASE Dies(p)
  <2>1. Set(p, [NewProcess EXCEPT !.life = "dead"])
    BY <1>6 DEF Dies, Crash
  <2>2. [NewProcess EXCEPT !.life = "dead"].life = "dead"
    BY DEF NewProcess
  <2> QED
    BY <1>1, <2>1, <2>2
<1>7. CASE Drained(p) \/ Settles(p)
  <2>1. PICK r : Set(p, r) /\ r.life = R.life /\ R.life = "closing"
    <3>1. ASSUME NEW x PROVE [R EXCEPT !.stage = x].life = R.life
      BY <1>0 DEF ProcRecord
    <3>2. ASSUME NEW x, NEW y PROVE [R EXCEPT !.stage = x, !.stopping = y].life = R.life
      BY <1>0 DEF ProcRecord
    <3>3. CASE AdaptersStopped(p) \/ Drained(p)
      BY <1>0, <3>2, <3>3 DEF AdaptersStopped, Passes, Awaited, Drained, RequestsDrained
    <3>4. CASE SyncsSettled(p) \/ TransitionsSettled(p) \/ StopsDrained(p) \/ TailsSettled(p)
      BY <1>0, <3>1, <3>4 DEF SyncsSettled, TransitionsSettled, StopsDrained, TailsSettled, Passes, Awaited, GoesTo
    <3> QED
      BY <1>7, <3>3, <3>4 DEF Settles
  <2> QED
    BY <1>1, <2>1
<1> QED
  BY <1>3, <1>4, <1>5, <1>6, <1>7 DEF LifeStep, Locks

\* The process a page is connected to is the only one that owns the root while it serves.
LEMMA OneServes ==
  ASSUME LockInv, NEW p \in Process, NEW q \in Process, Life(p) \in Owning, Serving(q)
  PROVE  p = q
  BY DEF LockInv, OwnersHold, Serving, Owning

\* What goes on in a process does not move it through its life.
LEMMA WorkStays ==
  ASSUME LockInv, NEW p \in Process, WorkStep(p), NEW q \in Process
  PROVE  Life(q)' = Life(q)
<1> DEFINE R == proc[p]
<1>1. R \in ProcRecord /\ proc \in [Process -> ProcRecord] /\ R.work \subseteq WorkKind
  BY DEF LockInv, Typed, ProcRecord
<1>2. ASSUME NEW r, Set(p, r), r.life = R.life PROVE Life(q)' = Life(q)
  BY <1>1, <1>2 DEF Set, Life
<1>3. ASSUME NEW work, Set(p, [R EXCEPT !.work = work]) PROVE Life(q)' = Life(q)
  <2>1. [R EXCEPT !.work = work].life = R.life
    BY <1>1 DEF ProcRecord
  <2> QED
    BY <1>2, <1>3, <2>1
<1>4. CASE \/ RequestArrives(p) \/ RequestAttaches(p) \/ RuntimeTransition(p) \/ TranslationAnswered(p)
  <2>1. PICK k : Set(p, [R EXCEPT !.work = @ \cup {k}])
    BY <1>4 DEF RequestArrives, RequestAttaches, RuntimeTransition, TranslationAnswered, Begins
  <2> QED
    BY <1>3, <2>1
<1>5. CASE \/ RequestDetaches(p) \/ RuntimeFailure(p) \/ RuntimeExit(p) \/ SyncStarts(p) \/ ExitRecorded(p)
           \/ RuntimeStopped(p) \/ \E k \in WorkKind : WorkEnds(p, k)
  <2>1. PICK k, ks : Set(p, [R EXCEPT !.work = (@ \ {k}) \cup ks])
    BY <1>5 DEF RequestDetaches, RuntimeFailure, RuntimeExit, SyncStarts, ExitRecorded, RuntimeStopped,
                WorkEnds, Becomes
  <2> QED
    BY <1>3, <2>1
<1>6. CASE WriteEnds(p)
  <2> DEFINE work == IF Life(p) = "ready" THEN R.work \cup {"timer"} ELSE R.work
             r == [R EXCEPT !.writer = "none", !.work = work]
  <2>1. Set(p, r)
    BY <1>6 DEF WriteEnds
  <2> HIDE DEF work
  <2>2. r.life = R.life
    BY <1>1 DEF ProcRecord
  <2> QED
    BY <1>2, <2>1, <2>2
<1>7. CASE \E k \in MayWrite : WriteBegins(p, k)
  <2>1. PICK k \in MayWrite : Set(p, [R EXCEPT !.writer = k])
    BY <1>7 DEF WriteBegins
  <2>2. [R EXCEPT !.writer = k].life = R.life
    BY <1>1 DEF ProcRecord
  <2> QED
    BY <1>2, <2>1, <2>2
<1> QED
  BY <1>4, <1>5, <1>6, <1>7 DEF WorkStep

\* A process that owns the root ends: a page connected to it is connected to no service.
LEMMA OwnerEnds ==
  ASSUME LockInv, NEW p \in Process, Life(p) \in Owning, NEW r, Set(p, r), r.life \in {"closed", "dead"},
         NEW q \in Process, Past(q)
  PROVE  ~Serving(q)'
<1>1. proc \in [Process -> ProcRecord] /\ proc' = [proc EXCEPT ![p] = r]
  BY DEF LockInv, Typed, Set
<1>2. CASE q = p
  BY <1>1, <1>2 DEF Serving, Life
<1>3. CASE q # p
  <2>1. ~Serving(q)
    BY <1>3, OneServes
  <2> QED
    BY <1>1, <1>3, <2>1 DEF Serving, Life
<1> QED
  BY <1>2, <1>3

-----------------------------------------------------------------------------
(* What the service does.                                                  *)

\* What the invariant of the page says of the types.
LEMMA PageTypes ==
  ASSUME PageInv
  PROVE  /\ feed.cursor \in Nat /\ feed.streams \in Nat /\ feed.stream \in Nat /\ feed.revision \in Nat
         /\ feed.preview \in Preview /\ feed.unsent \in BOOLEAN
         /\ page.last \in Nat /\ page.last <= feed.cursor /\ page.applied = 1 .. page.last
         /\ page.back \in BOOLEAN /\ page.preview \in Preview /\ page.revisions \in [Streams -> Nat]
         /\ conn = [by |-> conn.by, queue |-> conn.queue, drops |-> conn.drops]
         /\ conn.by \in Process \cup {Nobody} /\ conn.queue \in Seq(Messages(feed.cursor))
         /\ \A k \in DOMAIN conn.queue : conn.queue[k] \in Messages(feed.cursor) /\ conn.queue[k].preview \in Preview
<1>1. /\ feed.cursor \in Nat /\ feed.streams \in Nat /\ feed.stream \in Nat /\ feed.revision \in Nat
      /\ feed.preview \in Preview /\ feed.unsent \in BOOLEAN
  BY DEF PageInv, FeedRecord
<1>2. /\ page.last \in Nat /\ page.last <= feed.cursor /\ page.applied = 1 .. page.last
      /\ page.back \in BOOLEAN /\ page.preview \in Preview /\ page.revisions \in [Streams -> Nat]
  BY DEF PageInv, IsPage, PageRecord
<1>3. /\ conn = [by |-> conn.by, queue |-> conn.queue, drops |-> conn.drops]
      /\ conn.by \in Process \cup {Nobody} /\ conn.queue \in Seq(Messages(feed.cursor))
  BY DEF PageInv, IsConn
<1>4. \A k \in DOMAIN conn.queue : conn.queue[k] \in Messages(feed.cursor)
  BY <1>3
<1>5. \A m \in Messages(feed.cursor) : m.preview \in Preview
  BY DEF Messages
<1> QED
  BY <1>1, <1>2, <1>3, <1>4, <1>5

\* Service f goes on from the one there is: it numbers no preview twice.
Renumbers(f) ==
  /\ f.streams >= feed.streams
  /\ f.stream # 0 => \/ f.stream = feed.stream /\ f.revision >= feed.revision
                     \/ f.stream > feed.streams /\ f.stream \in Streams

\* What the page has seen and has to read stays new to the service.
LEMMA RenumbersKeeps ==
  ASSUME PageInv, Numbered(feed, page, conn.queue), Counted(feed, page), FeedCounted, NEW f \in FeedRecord, Renumbers(f)
  PROVE  Numbered(f, page, conn.queue) /\ Counted(f, page)
<1>1. /\ feed.streams \in Nat /\ feed.stream \in Nat /\ feed.revision \in Nat
      /\ page.revisions \in [Streams -> Nat] /\ page.preview.stream \in Nat
      /\ \A k \in DOMAIN conn.queue : conn.queue[k].preview \in Preview
      /\ f.streams \in Nat /\ f.stream \in Nat /\ f.revision \in Nat
      /\ MaxStreams \in Nat /\ feed.streams <= MaxStreams
  BY PageTypes, LiveAssumption DEF FeedRecord, FeedCounted, Preview
<1>2. ASSUME NEW v \in Preview, New(feed, page, v) PROVE New(f, page, v)
  <2>1. v.stream \in Nat /\ v.revision \in Nat /\ v.stream \in Streams
    BY <1>1, <1>2 DEF Preview, New, Streams
  <2>2. page.revisions[v.stream] \in Nat
    BY <1>1, <2>1
  <2> QED
    BY <1>1, <1>2, <2>1, <2>2 DEF New, Renumbers
<1>3. Numbered(f, page, conn.queue)
  BY <1>1, <1>2 DEF Numbered
<1>4. f.stream # 0 => page.revisions[f.stream] <= f.revision
  <2>1. CASE f.stream # 0 /\ f.stream = feed.stream /\ f.revision >= feed.revision
    <3>1. page.revisions[feed.stream] \in Nat
      BY <1>1, <2>1 DEF FeedCounted, Streams
    <3> QED
      BY <1>1, <2>1, <3>1 DEF Counted
  <2>2. CASE f.stream > feed.streams /\ f.stream \in Streams
    BY <1>1, <2>2 DEF Counted
  <2> QED
    BY <2>1, <2>2 DEF Renumbers
<1>5. \A s \in Streams : s > f.streams => page.revisions[s] = 0
  BY <1>1 DEF Counted, Renumbers, Streams
<1>6. page.preview = NoPreview \/ page.preview.stream \in 1 .. f.streams
  BY <1>1 DEF Counted, Renumbers
<1> QED
  BY <1>3, <1>4, <1>5, <1>6 DEF Counted

\* A step of the service that sends nothing to the page.
LEMMA QuietFeed ==
  ASSUME PageInv, StreamInv, NEW f \in FeedRecord, feed' = f, UNCHANGED <<conn, page, refresh, proc>>,
         Renumbers(f), FeedCounted',
         conn.by # Nobody /\ Serving(conn.by) =>
           /\ f.preview = feed.preview
           /\ \/ f.cursor = feed.cursor /\ f.unsent = feed.unsent
              \/ f.cursor = feed.cursor + 1 /\ ~feed.unsent /\ f.unsent
  PROVE  StreamInv'
<1>1. Numbered(f, page, conn.queue) /\ Counted(f, page)
  BY RenumbersKeeps DEF StreamInv
<1>2. Numbered(feed, page, conn.queue)' /\ Counted(feed, page)' /\ InOrder(page, conn.queue)'
  BY <1>1 DEF StreamInv
<1>3. Connected'
  BY DEF StreamInv, Connected, Past, Life
<1>4. CaughtUp'
  <2>1. After(page, conn.queue, Len(conn.queue))' = After(page, conn.queue, Len(conn.queue))
    OBVIOUS
  <2>2. Serving(conn.by)' <=> Serving(conn.by)
    BY DEF Serving, Life
  <2>3. SUFFICES ASSUME conn.by # Nobody, Serving(conn.by)
                 PROVE  f.preview = feed.preview /\ (\A c \in 1 .. f.cursor : Coming(c)') /\ Reaches(conn.queue)'
    BY <2>1, <2>2 DEF StreamInv, CaughtUp
  <2>4. feed.cursor \in Nat
    BY PageTypes
  <2>5. ASSUME NEW c \in 1 .. f.cursor PROVE Untold(c)' \/ (c \in 1 .. feed.cursor /\ ~Untold(c))
    BY <2>3, <2>4 DEF Untold
  <2>6. ASSUME NEW c \in 1 .. f.cursor PROVE Coming(c)'
    BY <2>3, <2>5 DEF StreamInv, CaughtUp, Coming
  <2>7. Reaches(conn.queue)'
    <3>1. Reaches(conn.queue)
      BY <2>3 DEF StreamInv, CaughtUp
    <3>2. ASSUME NEW k \in DOMAIN conn.queue, Speaks(conn.queue[k]), NEW c \in 1 .. f.cursor
          PROVE  Untold(c)' \/ \E j \in DOMAIN conn.queue : k <= j /\ Tells(conn.queue[j], c)
      BY <2>5, <3>1, <3>2 DEF Reaches
    <3> QED
      BY <3>2 DEF Reaches
  <2> QED
    BY <2>3, <2>6, <2>7
<1> QED
  BY <1>2, <1>3, <1>4 DEF StreamInv

\* A preview of the captioner that is attached, newer than those it has sent.
Latest(f, m) ==
  Carries(m) =>
    /\ m.preview.stream = feed.stream /\ feed.stream # 0 /\ m.preview.revision > feed.revision
    /\ m.preview.stream = f.stream => m.preview.revision <= f.revision

\* A process that serves sends a message.
LEMMA SentFeed ==
  ASSUME LockInv, PageInv, StreamInv, NEW p \in Process, Serving(p),
         NEW f \in FeedRecord, feed' = f, UNCHANGED <<page, refresh, proc>>,
         NEW m \in Messages(feed.cursor), Sent(p, m), m.kind # "hello",
         Renumbers(f), FeedCounted', f.cursor = feed.cursor,
         Latest(f, m), Follows(feed.preview, m), f.preview = Reads(m),
         Speaks(m) => m.cursor = feed.cursor, feed.unsent => f.unsent \/ Speaks(m)
  PROVE  StreamInv'
<1>0. /\ NoProcess = Nobody /\ Nobody \notin Process
  BY ServiceAssumption, ProcessAssumption
<1>1. CASE conn.by # p
  <2>1. UNCHANGED conn /\ ~(conn.by # Nobody /\ Serving(conn.by))
    <3>1. conn.by \in Process \cup {Nobody}
      BY PageTypes
    <3>2. Life(p) \in Owning
      BY DEF Serving, Owning
    <3> QED
      BY <1>1, <3>1, <3>2, OneServes DEF Sent
  <2> QED
    BY <2>1, QuietFeed
<1>2. CASE conn.by = p
  <2> DEFINE q == conn.queue
             r == Append(q, m)
             S == Messages(feed.cursor)
  <2>1. conn' = [conn EXCEPT !.queue = r] /\ q \in Seq(S) /\ m \in S /\ feed.cursor \in Nat
    BY <1>2, PageTypes DEF Sent
  <2>2. conn'.queue = r /\ conn'.by = p
    BY <1>2, <2>1, PageTypes
  <2>3. /\ Len(q) \in Nat /\ Len(r) = Len(q) + 1 /\ DOMAIN r = 1 .. (Len(q) + 1) /\ DOMAIN q = 1 .. Len(q)
        /\ r[Len(q) + 1] = m /\ r # <<>> /\ \A k \in DOMAIN q : k \in DOMAIN r /\ r[k] = q[k]
    BY <2>1
  <2>4. q # <<>> => Head(r) = Head(q)
    BY <2>1
  <2>5. After(page, q, Len(q)) = feed.preview
    BY <1>0, <1>2 DEF StreamInv, CaughtUp
  <2> HIDE DEF r, q, S
  <2>6. InOrder(page, r) /\ After(page, r, Len(r)) = Reads(m)
    <3>1. InOrder(page, q)
      BY DEF StreamInv, q
    <3> QED
      BY <2>1, <2>5, <3>1, AppendInOrder DEF r
  <2>7. Numbered(f, page, q) /\ Counted(f, page)
    BY RenumbersKeeps DEF StreamInv, q
  <2>8. Carries(m) => New(f, page, m.preview)
    <3>1. SUFFICES ASSUME Carries(m) PROVE New(f, page, m.preview)
      OBVIOUS
    <3> DEFINE v == m.preview
    <3>2. v.stream = feed.stream /\ v.stream # 0 /\ v.revision > feed.revision
          /\ (v.stream = f.stream => v.revision <= f.revision) /\ v \in Preview
      BY <2>1, <3>1 DEF Latest, Messages, S
    <3> HIDE DEF v
    <3>3. /\ feed.streams \in Nat /\ feed.stream \in Nat /\ feed.revision \in Nat /\ f.streams \in Nat
          /\ feed.stream <= feed.streams /\ feed.streams <= f.streams /\ feed.streams <= MaxStreams
          /\ page.revisions \in [Streams -> Nat] /\ MaxStreams \in Nat
      BY PageTypes, LiveAssumption DEF StreamInv, FeedCounted, Renumbers, FeedRecord
    <3>4. feed.stream \in Streams /\ page.revisions[feed.stream] <= feed.revision
      BY <3>2, <3>3 DEF StreamInv, Counted, Streams
    <3>5. page.revisions[feed.stream] \in Nat /\ v.revision \in Nat
      BY <3>2, <3>3, <3>4 DEF Preview
    <3>6. v.revision > page.revisions[v.stream] /\ v.stream \in 1 .. f.streams
      BY <3>2, <3>3, <3>4, <3>5
    <3> QED
      BY <3>2, <3>6 DEF New, v
  <2>9. Rising(r)
    <3>1. ASSUME NEW k \in DOMAIN q, Carries(m), Carries(q[k]), q[k].preview.stream = m.preview.stream
          PROVE  q[k].preview.revision < m.preview.revision
      <4>1. New(feed, page, q[k].preview) /\ q[k].preview \in Preview /\ m.preview \in Preview /\ feed.revision \in Nat
        BY <2>1, <3>1, PageTypes DEF StreamInv, Numbered, q, S, Messages
      <4>2. q[k].preview.revision <= feed.revision /\ m.preview.revision > feed.revision
        BY <3>1, <4>1 DEF New, Latest
      <4> QED
        BY <4>1, <4>2 DEF Preview
    <3>2. Rising(q)
      BY <2>7 DEF Numbered
    <3> QED
      BY <2>1, <3>1, <3>2, AppendRising DEF r, S
  <2>10. Numbered(f, page, r)
    <3>1. ASSUME NEW k \in DOMAIN r, Carries(r[k]) PROVE New(f, page, r[k].preview)
      BY <2>3, <2>7, <2>8, <3>1 DEF Numbered
    <3> QED
      BY <2>9, <3>1 DEF Numbered
  <2>11. Numbered(feed, page, conn.queue)' /\ Counted(feed, page)' /\ InOrder(page, conn.queue)'
    BY <2>2, <2>6, <2>7, <2>10
  <2>12. Connected'
    <3>1. conn.by # Nobody /\ conn'.by = conn.by /\ conn'.queue = r
      BY <1>0, <1>2, <2>2
    <3>2. /\ page.open /\ Past(conn.by) /\ \A i \in Refreshes : refresh[i].by \in {Nobody, conn.by}
          /\ page.instance = conn.by \/ (q # <<>> /\ Head(q).kind = "hello")
      BY <3>1 DEF StreamInv, Connected, q
    <3>3. page.instance = conn.by \/ (r # <<>> /\ Head(r).kind = "hello")
      BY <2>3, <2>4, <3>2
    <3>4. Past(conn.by)'
      BY <3>1, <3>2 DEF Past, Life
    <3>5. \A i \in Refreshes : /\ refresh[i].at = "idle" \/ ~page.open => refresh[i] = Idle
                               /\ refresh[i].at # "idle" => refresh[i].by # Nobody
      BY DEF StreamInv, Connected
    <3> QED
      BY <3>1, <3>2, <3>3, <3>4, <3>5 DEF Connected
  <2>13. CaughtUp'
    <3>1. After(page, conn.queue, Len(conn.queue))' = feed'.preview
      BY <2>2, <2>6
    <3>2. (\A c \in 1 .. feed.cursor : Coming(c)) /\ Reaches(q)
      BY <1>0, <1>2 DEF StreamInv, CaughtUp, q
    <3>3. ASSUME NEW c \in 1 .. feed.cursor PROVE (Untold(c) => Untold(c)' \/ Tells(m, c)) /\ (Speaks(m) => Tells(m, c))
      BY <2>1 DEF Untold, Tells
    <3>4. ASSUME NEW c \in 1 .. feed.cursor PROVE Coming(c)'
      <4>1. CASE c \in page.applied \/ page.back \/ \E i \in Refreshes : Awaits(refresh[i], c)
        BY <4>1 DEF Coming
      <4>2. CASE Untold(c)
        BY <2>2, <2>3, <3>3, <4>2 DEF Coming
      <4>3. CASE \E k \in DOMAIN q : Tells(q[k], c)
        BY <2>2, <2>3, <4>3 DEF Coming
      <4> QED
        BY <3>2, <4>1, <4>2, <4>3 DEF Coming, q
    <3>5. ASSUME NEW k \in DOMAIN r, Speaks(r[k]), NEW c \in 1 .. feed.cursor
          PROVE  Untold(c)' \/ \E j \in DOMAIN r : k <= j /\ Tells(r[j], c)
      <4>1. Len(q) + 1 \in DOMAIN r /\ k <= Len(q) + 1 /\ r[Len(q) + 1] = m
        BY <2>3
      <4>2. CASE k \in DOMAIN q
        <5>1. Untold(c) \/ \E j \in DOMAIN q : k <= j /\ Tells(q[j], c)
          BY <2>3, <3>2, <3>5, <4>2 DEF Reaches
        <5> QED
          BY <2>3, <3>3, <4>1, <5>1
      <4>3. CASE k = Len(q) + 1
        BY <3>3, <3>5, <4>1, <4>3
      <4> QED
        BY <2>3, <4>2, <4>3
    <3>6. Reaches(conn.queue)'
      BY <2>2, <3>5 DEF Reaches
    <3> QED
      BY <3>1, <3>4, <3>6 DEF CaughtUp
  <2> QED
    BY <2>11, <2>12, <2>13 DEF StreamInv
<1> QED
  BY <1>1, <1>2

\* An event is stored, and told later.  No captioner is attached.
LEMMA StoredKeepsStream ==
  ASSUME LockInv, PageInv, StreamInv, UNCHANGED <<workload, proc>>, workload \in {"events", "previews"},
         EventStored(workload = "previews" /\ SessionOpen)
  PROVE  StreamInv'
<1> DEFINE n == feed.cursor + 1
           end == workload = "previews" /\ SessionOpen
           ended == IF end THEN feed.ended \cup {n} ELSE feed.ended
           f == [feed EXCEPT !.cursor = n, !.unsent = TRUE, !.ended = ended]
<1>1. feed' = f /\ UNCHANGED <<conn, page, refresh>> /\ feed.cursor < MaxCursor /\ ~feed.unsent
      /\ (end => feed.stream = 0)
  BY DEF EventStored
<1>2. feed \in FeedRecord /\ feed.cursor \in Nat /\ feed.streams \in Nat /\ feed.revision \in Nat /\ feed.stream \in Nat
  BY PageTypes DEF PageInv
<1>3. n \in Nat /\ n <= MaxCursor
  BY <1>1, <1>2, LiveAssumption
<1>4. feed.stream = 0
  BY <1>1 DEF StreamInv, FeedCounted
<1>5. ended \in SUBSET Nat
  BY <1>2, <1>3 DEF FeedRecord
<1> HIDE DEF ended, end
<1>6. /\ f \in FeedRecord /\ f.cursor = n /\ f.unsent = TRUE /\ f.preview = feed.preview /\ f.stream = feed.stream
      /\ f.streams = feed.streams /\ f.revision = feed.revision
  BY <1>2, <1>3, <1>5 DEF FeedRecord
<1> HIDE DEF f
<1>7. Renumbers(f)
  BY <1>2, <1>6 DEF Renumbers
<1>8. FeedCounted'
  BY <1>1, <1>3, <1>4, <1>6 DEF StreamInv, FeedCounted
<1> QED
  BY <1>1, <1>6, <1>7, <1>8, QuietFeed

\* An event is told to the page, unless the process does not serve yet or any more.
LEMMA BroadcastKeepsStream ==
  ASSUME LockInv, PageInv, StreamInv, UNCHANGED <<workload, proc>>, NEW p \in Process, Life(p) \in Owning,
         EventBroadcast(p, Serving(p))
  PROVE  StreamInv'
<1> DEFINE f == [feed EXCEPT !.unsent = FALSE]
           m == Message("event", feed.cursor, NoPreview)
<1>1. feed' = f /\ UNCHANGED <<page, refresh>> /\ feed.unsent
      /\ IF Serving(p) THEN Sent(p, m) ELSE UNCHANGED conn
  BY DEF EventBroadcast
<1>2. /\ feed \in FeedRecord /\ feed.cursor \in Nat /\ feed.streams \in Nat /\ feed.revision \in Nat /\ feed.stream \in Nat
      /\ conn.by \in Process \cup {Nobody}
  BY PageTypes DEF PageInv
<1>3. /\ f \in FeedRecord /\ f.cursor = feed.cursor /\ f.unsent = FALSE /\ f.preview = feed.preview
      /\ f.stream = feed.stream /\ f.streams = feed.streams /\ f.revision = feed.revision
  BY <1>2 DEF FeedRecord
<1>4. m \in Messages(feed.cursor) /\ m.kind = "event" /\ m.cursor = feed.cursor /\ m.preview = NoPreview
  BY <1>2 DEF Message, Messages, NoPreview, Preview
<1> HIDE DEF f, m
<1>5. Renumbers(f)
  BY <1>2, <1>3 DEF Renumbers
<1>6. FeedCounted'
  BY <1>1, <1>3 DEF StreamInv, FeedCounted
<1>7. feed.preview = NoPreview
  BY <1>1 DEF StreamInv, FeedCounted
<1>8. CASE Serving(p)
  <2>1. Latest(f, m) /\ Follows(feed.preview, m) /\ f.preview = Reads(m) /\ Speaks(m) /\ m.kind # "hello"
    BY <1>3, <1>4, <1>7 DEF Latest, Carries, Follows, Reads, Speaks
  <2> QED
    BY <1>1, <1>3, <1>4, <1>5, <1>6, <1>8, <2>1, SentFeed
<1>9. CASE ~Serving(p)
  <2>1. ~(conn.by # Nobody /\ Serving(conn.by))
    BY <1>2, <1>9, OneServes
  <2> QED
    BY <1>1, <1>3, <1>5, <1>6, <1>9, <2>1, QuietFeed
<1> QED
  BY <1>8, <1>9

\* A captioner clears its preview; what else changes numbers no preview twice.
LEMMA ClearKeepsStream ==
  ASSUME LockInv, PageInv, StreamInv, UNCHANGED <<workload, proc, page, refresh>>, NEW p \in Process, Serving(p),
         NEW f \in FeedRecord, ClearedWith(p, f), Renumbers(f), f.cursor = feed.cursor, f.unsent = feed.unsent,
         f.preview = feed.preview, f.stream <= f.streams, f.streams <= MaxStreams,
         f.stream = feed.stream => feed.kind = "local-asr", f.revision >= feed.revision,
         f.ended = feed.ended, f.stream # 0 => feed.stream # 0,
         feed.stream # 0 \/ feed.preview # NoPreview
  PROVE  StreamInv'
<1>1. /\ feed \in FeedRecord /\ feed.cursor \in Nat /\ feed.streams \in Nat /\ feed.revision \in Nat /\ feed.stream \in Nat
      /\ f.revision \in Nat /\ f.stream \in Nat /\ f.streams \in Nat
      /\ conn.by \in Process \cup {Nobody} /\ feed.preview \in Preview
  BY PageTypes DEF PageInv, FeedRecord
<1>2. FeedCounted
  BY DEF StreamInv
<1>3. CASE feed.preview.stream # feed.stream
  <2>1. feed' = f /\ UNCHANGED conn
    BY <1>3 DEF ClearedWith
  <2>2. feed.preview = NoPreview
    BY <1>2, <1>3 DEF FeedCounted
  <2>3. FeedCounted'
    BY <1>2, <2>1, <2>2 DEF FeedCounted, SessionOpen
  <2> QED
    BY <1>1, <2>1, <2>3, QuietFeed
<1>4. CASE feed.preview.stream = feed.stream
  <2> DEFINE revision == feed.preview.revision + 1
             rev == IF feed.kind = "local-asr" /\ revision > f.revision THEN revision ELSE f.revision
             g == [f EXCEPT !.preview = NoPreview, !.revision = rev]
             v == [stream |-> feed.stream, revision |-> revision]
             m == Message("clear", 0, v)
  <2>1. feed' = g /\ Sent(p, m)
    BY <1>4 DEF ClearedWith
  <2>2. feed.preview # NoPreview /\ feed.stream # 0
    BY <1>2, <1>4 DEF FeedCounted, NoPreview
  <2>3. feed.preview.revision = feed.revision
    BY <1>2, <2>2 DEF FeedCounted
  <2>4. revision \in Nat /\ revision > feed.revision /\ rev \in Nat /\ rev >= feed.revision
        /\ (feed.kind = "local-asr" => revision <= rev)
    BY <1>1, <2>3
  <2>5. v \in Preview /\ v.stream = feed.stream /\ v.revision = revision
    BY <1>1, <2>4 DEF Preview
  <2> HIDE DEF v, rev, revision
  <2>6. m \in Messages(feed.cursor) /\ m.kind = "clear" /\ m.preview = v
    BY <1>1, <2>5 DEF Message, Messages
  <2>7. /\ g \in FeedRecord /\ g.cursor = feed.cursor /\ g.unsent = feed.unsent /\ g.preview = NoPreview /\ g.ended = feed.ended
        /\ g.revision = rev /\ g.stream = f.stream /\ g.streams = f.streams
    <3>1. NoPreview \in Preview
      BY DEF NoPreview, Preview
    <3> QED
      BY <2>4, <3>1 DEF FeedRecord
  <2> HIDE DEF g, m
  <2>8. Renumbers(g)
    BY <2>4, <2>7 DEF Renumbers
  <2>9. FeedCounted'
    BY <1>2, <2>1, <2>7 DEF FeedCounted, SessionOpen
  <2>10. Latest(g, m)
    BY <2>2, <2>4, <2>5, <2>6, <2>7 DEF Latest
  <2>11. Follows(feed.preview, m) /\ g.preview = Reads(m) /\ m.kind # "hello" /\ ~Speaks(m)
    BY <1>4, <2>5, <2>6, <2>7 DEF Follows, Reads, Speaks
  <2> QED
    BY <2>1, <2>6, <2>7, <2>8, <2>9, <2>10, <2>11, SentFeed
<1> QED
  BY <1>3, <1>4

\* A captioner is attached, sends its previews, clears them and is detached.
LEMMA FeedsKeepStream ==
  ASSUME LockInv, PageInv, StreamInv, NEW p \in Process, Feeds(p)
  PROVE  StreamInv'
<1>0. /\ feed \in FeedRecord /\ feed.cursor \in Nat /\ feed.streams \in Nat /\ feed.revision \in Nat /\ feed.stream \in Nat
      /\ conn.by \in Process \cup {Nobody} /\ feed.preview \in Preview /\ MaxStreams \in Nat
  BY PageTypes, LiveAssumption DEF PageInv
<1>1. UNCHANGED <<workload, proc>> /\ FeedCounted
  BY DEF Feeds, LiveStep, lifecycleVars, StreamInv
<1>2. CASE workload \in {"events", "previews"} /\ EventStored(workload = "previews" /\ SessionOpen)
  BY <1>1, <1>2, StoredKeepsStream
<1>3. ASSUME Serving(p), workload = "previews", CaptionerAttached PROVE StreamInv'
  <2>1. PICK kind \in {"local-asr", "system-captions"} :
          feed' = [feed EXCEPT !.kind = kind, !.streams = @ + 1, !.stream = feed.streams + 1, !.revision = 0]
    BY <1>3 DEF CaptionerAttached
  <2> DEFINE n == feed.streams + 1
             f == [feed EXCEPT !.kind = kind, !.streams = n, !.stream = n, !.revision = 0]
  <2>2. n \in Nat /\ n <= MaxStreams /\ n > feed.streams /\ feed' = f /\ UNCHANGED <<conn, page, refresh>> /\ feed.stream = 0
        /\ SessionOpen /\ ~feed.unsent
    BY <1>0, <1>3, <2>1 DEF CaptionerAttached
  <2> HIDE DEF n
  <2>3. /\ f \in FeedRecord /\ f.cursor = feed.cursor /\ f.unsent = feed.unsent /\ f.preview = feed.preview
        /\ f.stream = n /\ f.streams = n /\ f.ended = feed.ended
    BY <1>0, <2>2 DEF FeedRecord
  <2> HIDE DEF f
  <2>4. Renumbers(f)
    BY <1>0, <2>2, <2>3 DEF Renumbers, Streams
  <2>5. FeedCounted'
    BY <1>0, <1>1, <1>3, <2>2, <2>3 DEF FeedCounted, SessionOpen
  <2> QED
    BY <1>0, <1>1, <2>2, <2>3, <2>4, <2>5, QuietFeed
<1>4. ASSUME Serving(p), workload = "previews", PreviewPublished(p) \/ PreviewWithdrawn(p) PROVE StreamInv'
  <2> DEFINE n == feed.revision + 1
             v == [stream |-> feed.stream, revision |-> n]
             held == IF feed.preview.stream = feed.stream THEN NoPreview ELSE feed.preview
  <2>1. n \in Nat /\ n > feed.revision /\ n # 0 /\ feed.stream # 0 /\ UNCHANGED <<page, refresh>>
    BY <1>0, <1>4 DEF PreviewPublished, PreviewWithdrawn
  <2>2. held = NoPreview
    BY <1>1 DEF FeedCounted
  <2>3. PICK k \in {"upsert", "clear"} :
          /\ feed' = [feed EXCEPT !.revision = n, !.preview = IF k = "upsert" THEN v ELSE held]
          /\ Sent(p, Message(k, 0, v))
    <3>1. CASE PreviewPublished(p)
      BY <3>1 DEF PreviewPublished
    <3>2. CASE PreviewWithdrawn(p)
      BY <3>2 DEF PreviewWithdrawn
    <3> QED
      BY <1>4, <3>1, <3>2
  <2>4. v \in Preview /\ v.stream = feed.stream /\ v.revision = n
    BY <1>0, <2>1 DEF Preview
  <2> HIDE DEF n, held
  <2> DEFINE w == IF k = "upsert" THEN v ELSE held
             f == [feed EXCEPT !.revision = n, !.preview = w]
             m == Message(k, 0, v)
  <2>5. feed' = f /\ Sent(p, m)
    BY <2>3
  <2>6. w \in Preview /\ w = (IF k = "upsert" THEN v ELSE NoPreview)
    BY <2>2, <2>4 DEF NoPreview, Preview
  <2>7. m \in Messages(feed.cursor) /\ m.kind = k /\ m.preview = v
    BY <1>0, <2>3, <2>4 DEF Message, Messages
  <2> HIDE DEF w, m
  <2>8. /\ f \in FeedRecord /\ f.cursor = feed.cursor /\ f.unsent = feed.unsent /\ f.preview = w
        /\ f.stream = feed.stream /\ f.streams = feed.streams /\ f.revision = n /\ f.ended = feed.ended
    BY <1>0, <2>1, <2>6 DEF FeedRecord
  <2> HIDE DEF f
  <2>9. Renumbers(f)
    BY <1>0, <2>1, <2>8 DEF Renumbers
  <2>10. FeedCounted'
    BY <1>1, <1>4, <2>1, <2>5, <2>6, <2>8 DEF FeedCounted, SessionOpen
  <2>11. Latest(f, m)
    BY <1>0, <2>1, <2>4, <2>7, <2>8 DEF Latest
  <2>12. Follows(feed.preview, m) /\ f.preview = Reads(m) /\ m.kind # "hello" /\ ~Speaks(m)
    BY <1>1, <2>3, <2>4, <2>6, <2>7, <2>8 DEF Follows, Reads, Speaks, FeedCounted
  <2> QED
    BY <1>1, <1>4, <2>1, <2>5, <2>7, <2>8, <2>9, <2>10, <2>11, <2>12, SentFeed
<1>5. ASSUME Serving(p), TranscriptDone(p) PROVE StreamInv'
  <2>1. /\ ClearedWith(p, feed) /\ UNCHANGED <<page, refresh>> /\ feed.preview # NoPreview /\ feed.kind = "local-asr"
    BY <1>5 DEF TranscriptDone
  <2>2. Renumbers(feed)
    BY <1>0 DEF Renumbers
  <2> QED
    BY <1>0, <1>1, <1>5, <2>1, <2>2, ClearKeepsStream DEF FeedCounted
<1>6. ASSUME Serving(p), HelperReconnects(p) PROVE StreamInv'
  <2> DEFINE n == feed.streams + 1
             f == [feed EXCEPT !.streams = n, !.stream = n]
  <2>1. n \in Nat /\ n <= MaxStreams /\ n > feed.streams /\ ClearedWith(p, f) /\ UNCHANGED <<page, refresh>>
        /\ feed.stream # 0 /\ feed.stream <= feed.streams
    BY <1>0, <1>1, <1>6 DEF HelperReconnects, FeedCounted
  <2> HIDE DEF n
  <2>2. /\ f \in FeedRecord /\ f.cursor = feed.cursor /\ f.unsent = feed.unsent /\ f.preview = feed.preview
        /\ f.stream = n /\ f.streams = n /\ f.revision = feed.revision /\ f.ended = feed.ended
    BY <1>0, <2>1 DEF FeedRecord
  <2> HIDE DEF f
  <2>3. Renumbers(f) /\ f.stream # feed.stream
    BY <1>0, <2>1, <2>2 DEF Renumbers, Streams
  <2> QED
    BY <1>0, <1>1, <1>6, <2>1, <2>2, <2>3, ClearKeepsStream
<1>7. ASSUME Serving(p), CaptionerDetached(p) PROVE StreamInv'
  <2> DEFINE f == [feed EXCEPT !.stream = 0, !.kind = "none"]
  <2>1. ClearedWith(p, f) /\ UNCHANGED <<page, refresh>> /\ feed.stream # 0
    BY <1>7 DEF CaptionerDetached
  <2>2. /\ f \in FeedRecord /\ f.cursor = feed.cursor /\ f.unsent = feed.unsent /\ f.preview = feed.preview
        /\ f.stream = 0 /\ f.streams = feed.streams /\ f.revision = feed.revision
        /\ f.ended = feed.ended
    BY <1>0 DEF FeedRecord
  <2> HIDE DEF f
  <2>3. Renumbers(f) /\ f.stream # feed.stream /\ f.stream <= f.streams /\ f.streams <= MaxStreams
    BY <1>0, <1>1, <2>1, <2>2 DEF Renumbers, FeedCounted
  <2> QED
    BY <1>0, <1>1, <1>7, <2>1, <2>2, <2>3, ClearKeepsStream
<1> QED
  BY <1>2, <1>3, <1>4, <1>5, <1>6, <1>7 DEF Feeds, LiveStep

\* The process ends: what it held is lost, and it serves no page.
LEMMA LostKeepsStream ==
  ASSUME PageInv, StreamInv, FeedLost, UNCHANGED workload,
         conn.by # Nobody => Past(conn.by)' /\ ~Serving(conn.by)'
  PROVE  StreamInv'
<1> DEFINE f == [feed EXCEPT !.unsent = FALSE, !.preview = NoPreview, !.stream = 0, !.kind = "none"]
<1>1. feed' = f /\ UNCHANGED <<conn, page, refresh>>
  BY DEF FeedLost
<1>2. feed \in FeedRecord /\ feed.streams \in Nat /\ feed.cursor \in Nat
  BY PageTypes DEF PageInv
<1>3. /\ f \in FeedRecord /\ f.cursor = feed.cursor /\ f.unsent = FALSE /\ f.preview = NoPreview
      /\ f.stream = 0 /\ f.streams = feed.streams /\ f.revision = feed.revision
  BY <1>2 DEF FeedRecord, NoPreview, Preview
<1> HIDE DEF f
<1>4. Renumbers(f)
  BY <1>2, <1>3 DEF Renumbers
<1>5. FeedCounted'
  BY <1>1, <1>2, <1>3 DEF StreamInv, FeedCounted
<1>6. Numbered(f, page, conn.queue) /\ Counted(f, page)
  BY <1>3, <1>4, RenumbersKeeps DEF StreamInv
<1>7. Numbered(feed, page, conn.queue)' /\ Counted(feed, page)' /\ InOrder(page, conn.queue)'
  BY <1>1, <1>6 DEF StreamInv
<1>8. Connected'
  BY <1>1 DEF StreamInv, Connected
<1>9. CaughtUp'
  BY <1>1 DEF CaughtUp
<1> QED
  BY <1>5, <1>7, <1>8, <1>9 DEF StreamInv

-----------------------------------------------------------------------------
(* What the page does.                                                     *)

\* The page sets refresh i going, or leaves the refreshes alone.
MayAsk(p) ==
  \A i \in Refreshes : \/ refresh'[i] = refresh[i]
                       \/ refresh[i] = Idle /\ refresh'[i].at = "asked" /\ refresh'[i].by = p

\* A page that asks is served from then on by process p.
LEMMA AsksStarts ==
  ASSUME PageInv, NEW p, NEW force, Asks(p, force)
  PROVE  MayAsk(p) /\ \E i \in Refreshes : refresh'[i].at = "asked" /\ refresh'[i].by = p
<1> DEFINE r == [Idle EXCEPT !.at = "asked", !.force = force, !.by = p]
<1>1. PICK i \in Refreshes : refresh[i] = Idle /\ refresh' = [refresh EXCEPT ![i] = r]
  BY DEF Asks
<1>2. refresh \in [Refreshes -> Answered(feed.cursor)]
  BY DEF PageInv
<1>3. r.at = "asked" /\ r.by = p
  BY DEF Idle
<1> HIDE DEF r
<1>4. refresh'[i] = r /\ \A j \in Refreshes \ {i} : refresh'[j] = refresh[j]
  BY <1>1, <1>2
<1> QED
  BY <1>1, <1>3, <1>4 DEF MayAsk

\* A page without a connection connects to a process that serves.
LEMMA ConnectKeepsStream ==
  ASSUME PageInv, StreamInv, NEW p \in Process, Serving(p), conn.by = Nobody, UNCHANGED <<feed, workload, proc>>,
         conn' = [conn EXCEPT !.by = p, !.queue = StreamOf(p)],
         page' = [page EXCEPT !.open = TRUE],
         \A i \in Refreshes : refresh[i].by \in {Nobody, p}, MayAsk(p)
  PROVE  StreamInv'
<1> DEFINE hello == Message("hello", feed.cursor, NoPreview)
           upsert == Message("upsert", 0, feed.preview)
           q == StreamOf(p)
<1>0. /\ feed.cursor \in Nat /\ feed.streams \in Nat /\ feed.stream \in Nat /\ feed.revision \in Nat /\ MaxStreams \in Nat
      /\ page.revisions \in [Streams -> Nat] /\ page \in PageRecord /\ Nobody \notin Process
      /\ conn = [by |-> conn.by, queue |-> conn.queue, drops |-> conn.drops]
  BY PageTypes, LiveAssumption, ServiceAssumption, ProcessAssumption DEF PageInv, IsPage
<1>1. /\ page'.open = TRUE /\ page'.preview = page.preview /\ page'.revisions = page.revisions
      /\ page'.instance = page.instance
  BY <1>0 DEF PageRecord
<1>2. conn'.by = p /\ conn'.queue = q
  BY <1>0
<1>3. page.preview = NoPreview /\ \A s \in Streams : page.revisions[s] = 0
  BY DEF StreamInv, Connected
<1>4. /\ hello.kind = "hello" /\ hello.cursor = feed.cursor
      /\ upsert.kind = "upsert" /\ upsert.preview = feed.preview
  BY DEF Message
<1> HIDE DEF hello, upsert
<1>5. \/ feed.preview = NoPreview /\ q = <<hello>>
      \/ /\ feed.preview # NoPreview /\ q \in Seq({hello, upsert})
         /\ Len(q) = 2 /\ q[1] = hello /\ q[2] = upsert
  <2>1. <<hello>> \o <<>> = <<hello>>
    OBVIOUS
  <2> DEFINE both == <<hello>> \o <<upsert>>
             S == {hello, upsert}
  <2>2. both \in Seq(S) /\ Len(both) = 2 /\ both[1] = hello /\ both[2] = upsert
    <3>1. <<hello>> \in Seq(S) /\ <<upsert>> \in Seq(S)
      OBVIOUS
    <3> QED
      BY <3>1
  <2> QED
    BY <2>1, <2>2 DEF StreamOf, hello, upsert
<1> HIDE DEF q
<1>6. /\ 1 \in DOMAIN q /\ q # <<>> /\ Head(q) = hello /\ q[1] = hello
      /\ \/ DOMAIN q = {1}
         \/ DOMAIN q = {1, 2} /\ feed.preview # NoPreview /\ q[2] = upsert
  BY <1>5
<1>7. Reads(hello) = NoPreview /\ Reads(upsert) = feed.preview /\ ~Carries(hello) /\ hello.kind # "clear"
  BY <1>4 DEF Reads, Carries
<1>8. Numbered(feed, page, q)
  <2>1. Rising(q)
    <3>1. ASSUME NEW j \in DOMAIN q, NEW k \in DOMAIN q, j < k, Carries(q[j]) PROVE FALSE
      BY <1>6, <1>7, <3>1
    <3> QED
      BY <3>1 DEF Rising
  <2>2. ASSUME feed.preview # NoPreview PROVE New(feed, page, feed.preview)
    <3>1. /\ feed.preview.stream = feed.stream /\ feed.preview.revision = feed.revision /\ feed.stream # 0
          /\ feed.revision # 0 /\ feed.stream <= feed.streams /\ feed.streams <= MaxStreams
      BY <2>2 DEF StreamInv, FeedCounted
    <3>2. feed.stream \in Streams /\ feed.stream \in 1 .. feed.streams
      BY <1>0, <3>1 DEF Streams
    <3> QED
      BY <1>0, <1>3, <3>1, <3>2 DEF New
  <2> QED
    BY <1>4, <1>6, <1>7, <2>1, <2>2 DEF Numbered
<1>9. InOrder(page, q)
  <2>1. Follows(page.preview, hello) /\ Follows(NoPreview, upsert) /\ upsert.kind # "hello"
    BY <1>3, <1>4 DEF Follows
  <2>2. After(page, q, 0) = page.preview /\ After(page, q, 1) = NoPreview
    BY <1>6, <1>7 DEF After
  <2>3. 1 - 1 = 0 /\ 2 - 1 = 1
    OBVIOUS
  <2> QED
    BY <1>6, <2>1, <2>2, <2>3 DEF InOrder
<1>10. After(page, q, Len(q)) = feed.preview
  <2>1. CASE feed.preview = NoPreview /\ q = <<hello>>
    <3>1. Len(q) = 1 /\ q[1] = hello
      BY <2>1
    <3> QED
      BY <1>7, <2>1, <3>1 DEF After
  <2>2. CASE Len(q) = 2 /\ q[2] = upsert
    BY <1>7, <2>2 DEF After
  <2> QED
    BY <1>5, <2>1, <2>2
<1>11. Numbered(feed, page, conn.queue)' /\ Counted(feed, page)' /\ InOrder(page, conn.queue)' /\ FeedCounted'
       /\ After(page, conn.queue, Len(conn.queue))' = feed'.preview
  BY <1>1, <1>2, <1>8, <1>9, <1>10 DEF StreamInv, Numbered, New, Counted, InOrder, After, FeedCounted, SessionOpen
<1>12. Connected'
  <2>1. Past(conn.by)'
    BY <1>2 DEF Past, Life, Serving
  <2>2. ASSUME NEW i \in Refreshes
        PROVE  /\ refresh'[i].by \in {Nobody, p}
               /\ refresh'[i].at # "idle" => refresh'[i].by # Nobody
               /\ refresh'[i].at = "idle" => refresh'[i] = Idle
    BY <1>0 DEF StreamInv, Connected, MayAsk
  <2>3. conn'.by # Nobody /\ conn'.queue # <<>> /\ Head(conn'.queue).kind = "hello"
    BY <1>0, <1>2, <1>4, <1>6
  <2> QED
    BY <1>1, <1>2, <2>1, <2>2, <2>3 DEF Connected
<1>13. CaughtUp'
  <2>1. Speaks(hello) /\ ~Speaks(upsert) /\ \A c \in 1 .. feed.cursor : Tells(hello, c)
    BY <1>0, <1>4 DEF Tells, Speaks
  <2>2. ASSUME NEW c \in 1 .. feed.cursor PROVE Coming(c)'
    BY <1>2, <1>6, <2>1 DEF Coming
  <2>3. Reaches(conn.queue)'
    BY <1>2, <1>6, <2>1 DEF Reaches
  <2> QED
    BY <1>11, <2>2, <2>3 DEF CaughtUp
<1> QED
  BY <1>11, <1>12, <1>13 DEF StreamInv

LEMMA ConnectsKeepStream ==
  ASSUME PageInv, StreamInv, NEW p \in Process, Connects(p)
  PROVE  StreamInv'
<1>0. Serving(p) /\ UNCHANGED <<workload, proc>>
  BY DEF Connects, LiveStep, lifecycleVars
<1>1. CASE OpenPage(p)
  <2>1. /\ ~page.open /\ UNCHANGED feed /\ page' = [page EXCEPT !.open = TRUE]
        /\ conn' = [conn EXCEPT !.by = p, !.queue = StreamOf(p)] /\ MayAsk(p)
    BY <1>1, AsksStarts DEF OpenPage
  <2>2. conn.by = Nobody /\ \A i \in Refreshes : refresh[i].by = Nobody
    BY <2>1 DEF StreamInv, Connected, Idle
  <2> QED
    BY <1>0, <2>1, <2>2, ConnectKeepsStream
<1>2. CASE Reconnect(p)
  <2>1. /\ page.open /\ conn.by = Nobody /\ UNCHANGED <<feed, page, refresh>>
        /\ conn' = [conn EXCEPT !.by = p, !.queue = StreamOf(p)] /\ \A i \in Refreshes : refresh[i].by \in {Nobody, p}
    BY <1>2 DEF Reconnect
  <2>2. page' = [page EXCEPT !.open = TRUE]
    <3>1. page \in PageRecord /\ page.open = TRUE
      BY <2>1 DEF PageInv, IsPage, PageRecord
    <3> QED
      BY <2>1, <3>1 DEF PageRecord
  <2>3. MayAsk(p)
    BY <2>1 DEF MayAsk
  <2> QED
    BY <1>0, <2>1, <2>2, <2>3, ConnectKeepsStream
<1> QED
  BY <1>1, <1>2 DEF Connects

\* The connection is lost, and with it what was sent and the previews.
LEMMA DropKeepsStream ==
  ASSUME PageInv, StreamInv, NEW gone \in BOOLEAN, Drop(gone), UNCHANGED <<workload, proc>>
  PROVE  StreamInv'
<1> DEFINE d == IF gone THEN conn.drops ELSE conn.drops + 1
           zeros == [s \in Streams |-> 0]
<1>1. conn' = [by |-> Nobody, queue |-> <<>>, drops |-> d] /\ UNCHANGED <<feed, refresh>>
  BY DEF Drop
<1>2. conn'.by = Nobody /\ conn'.queue = <<>> /\ DOMAIN conn'.queue = {}
  BY <1>1
<1>3. page' = [page EXCEPT !.preview = NoPreview, !.revisions = zeros] /\ page \in PageRecord
  BY DEF Drop, NoCaption, PageInv, IsPage
<1>4. \A s \in Streams : zeros[s] = 0
  OBVIOUS
<1> HIDE DEF zeros, d
<1>5. page'.preview = NoPreview /\ page'.revisions = zeros /\ page'.open = page.open
  BY <1>3 DEF PageRecord
<1>6. Numbered(feed, page, conn.queue)' /\ InOrder(page, conn.queue)'
  BY <1>2 DEF Numbered, Rising, InOrder
<1>7. FeedCounted'
  BY <1>1 DEF StreamInv, FeedCounted, SessionOpen
<1>8. Counted(feed, page)'
  <2>1. /\ feed.stream \in Nat /\ feed.revision \in Nat /\ feed.stream <= feed.streams /\ feed.streams <= MaxStreams
        /\ feed.streams \in Nat /\ MaxStreams \in Nat
    BY PageTypes, LiveAssumption DEF StreamInv, FeedCounted
  <2>2. feed.stream # 0 => feed.stream \in Streams
    BY <2>1 DEF Streams
  <2> QED
    BY <1>1, <1>4, <1>5, <2>1, <2>2 DEF Counted
<1>9. Connected'
  BY <1>1, <1>2, <1>4, <1>5 DEF StreamInv, Connected
<1>10. CaughtUp'
  BY <1>2 DEF CaughtUp
<1> QED
  BY <1>6, <1>7, <1>8, <1>9, <1>10 DEF StreamInv

\* A page reads the next message: it shows the preview the message leaves, has seen of the
\* streams at most what the message says, and knows the event the message tells of or asks.
LEMMA ReadKeepsStream ==
  ASSUME PageInv, StreamInv, UNCHANGED <<feed, workload, proc>>,
         conn.queue # <<>>, conn' = [conn EXCEPT !.queue = Tail(@)],
         page'.open = page.open, page'.instance = conn.by, page'.preview = Reads(Head(conn.queue)),
         page'.revisions \in [Streams -> Nat],
         \A s \in Streams :
           \/ page'.revisions[s] \in {0, page.revisions[s]}
           \/ /\ Carries(Head(conn.queue)) /\ s = Head(conn.queue).preview.stream
              /\ page'.revisions[s] = Head(conn.queue).preview.revision,
         page.applied \subseteq page'.applied, page'.back = page.back \/ Speaks(Head(conn.queue)),
         MayAsk(conn.by),
         \A c \in 1 .. feed.cursor :
           Tells(Head(conn.queue), c) => c \in page'.applied \/ \E i \in Refreshes : Awaits(refresh'[i], c)
  PROVE  StreamInv'
<1> DEFINE q == conn.queue
           r == Tail(q)
           h == Head(q)
           S == Messages(feed.cursor)
<1>0. /\ feed.cursor \in Nat /\ feed.streams \in Nat /\ feed.stream \in Nat /\ feed.revision \in Nat /\ MaxStreams \in Nat
      /\ page.revisions \in [Streams -> Nat] /\ q \in Seq(S) /\ q # <<>> /\ conn.by \in Process \cup {Nobody}
      /\ Numbered(feed, page, q) /\ Counted(feed, page) /\ InOrder(page, q) /\ FeedCounted
      /\ feed.stream <= feed.streams /\ feed.streams <= MaxStreams
  BY PageTypes, LiveAssumption DEF StreamInv, FeedCounted
<1> HIDE DEF S
<1>1. conn'.queue = r /\ conn'.by = conn.by
  <2>1. conn = [by |-> conn.by, queue |-> conn.queue, drops |-> conn.drops]
    BY PageTypes
  <2> QED
    BY <2>1
<1>2. conn.by # Nobody
  BY DEF StreamInv, Connected
<1>3. /\ r \in Seq(S) /\ h \in S /\ 1 \in DOMAIN q /\ h = q[1] /\ DOMAIN q = 1 .. Len(q) /\ Len(q) \in Nat
      /\ \A k \in DOMAIN r : k + 1 \in DOMAIN q /\ r[k] = q[k + 1]
      /\ DOMAIN r = 1 .. (Len(q) - 1)
  <2> HIDE DEF q
  <2> QED
    BY <1>0
<1>4. \A k \in DOMAIN r : r[k] \in S /\ r[k].preview \in Preview
  <2>1. \A k \in DOMAIN r : r[k] \in S
    BY <1>3
  <2> QED
    BY <2>1 DEF S, Messages
<1>5. InOrder(page', r) /\ After(page', r, Len(r)) = After(page, q, Len(q))
  <2>1. PICK pg2 : pg2 = page'
    OBVIOUS
  <2>2. pg2.preview = Reads(Head(q))
    BY <2>1
  <2> HIDE DEF q
  <2>3. InOrder(pg2, r) /\ After(pg2, r, Len(r)) = After(page, q, Len(q))
    BY <1>0, <2>2, TailInOrder
  <2> QED
    BY <2>1, <2>3
<1>6. /\ Numbered(feed, page, r)
      /\ Carries(h) => /\ New(feed, page, h.preview)
                       /\ \A k \in DOMAIN r : Carries(r[k]) /\ r[k].preview.stream = h.preview.stream
                                                => h.preview.revision < r[k].preview.revision
  BY <1>0, TailNumbered DEF S
<1>7. h.preview \in Preview
  BY <1>3 DEF S, Messages
<1> HIDE DEF q, r, h
<1>8. \A s \in Streams : \/ page'.revisions[s] \in {0, page.revisions[s]}
                         \/ Carries(h) /\ s = h.preview.stream /\ page'.revisions[s] = h.preview.revision
  BY DEF h, q
<1>9. Numbered(feed, page', r)
  <2>1. ASSUME NEW k \in DOMAIN r, Carries(r[k]) PROVE New(feed, page', r[k].preview)
    <3> DEFINE v == r[k].preview
    <3>1. New(feed, page, v) /\ v \in Preview
      BY <1>4, <1>6, <2>1 DEF Numbered
    <3>a. Carries(h) /\ v.stream = h.preview.stream => h.preview.revision < v.revision
      BY <1>6, <2>1
    <3> HIDE DEF v
    <3>2. v.stream \in Nat /\ v.revision \in Nat /\ v.stream \in Streams /\ v.revision > page.revisions[v.stream]
      BY <1>0, <3>1 DEF Preview, New, Streams
    <3>3. page.revisions[v.stream] \in Nat
      BY <1>0, <3>2
    <3>4. v.revision > page'.revisions[v.stream]
      <4>1. CASE page'.revisions[v.stream] \in {0, page.revisions[v.stream]}
        BY <3>2, <3>3, <4>1
      <4>2. CASE Carries(h) /\ v.stream = h.preview.stream /\ page'.revisions[v.stream] = h.preview.revision
        BY <1>7, <3>2, <3>a, <4>2 DEF Preview
      <4> QED
        BY <1>8, <3>2, <4>1, <4>2
    <3>5. New(feed, page', v)
      BY <3>1, <3>4 DEF New
    <3> QED
      BY <3>5 DEF v
  <2>2. Rising(r)
    BY <1>6 DEF Numbered
  <2> QED
    BY <2>1, <2>2 DEF Numbered
<1>10. Counted(feed, page')
  <2>1. ASSUME feed.stream # 0 PROVE page'.revisions[feed.stream] <= feed.revision
    <3>1. feed.stream \in Streams
      BY <1>0, <2>1 DEF Streams
    <3>2. page.revisions[feed.stream] <= feed.revision /\ page.revisions[feed.stream] \in Nat
      BY <1>0, <2>1, <3>1 DEF Counted
    <3>3. CASE page'.revisions[feed.stream] \in {0, page.revisions[feed.stream]}
      BY <1>0, <3>2, <3>3
    <3>4. CASE Carries(h) /\ feed.stream = h.preview.stream /\ page'.revisions[feed.stream] = h.preview.revision
      BY <1>6, <3>4 DEF New
    <3> QED
      BY <1>8, <3>1, <3>3, <3>4
  <2>2. ASSUME NEW s \in Streams, s > feed.streams PROVE page'.revisions[s] = 0
    <3>1. page.revisions[s] = 0
      BY <1>0, <2>2 DEF Counted
    <3>2. ~(Carries(h) /\ s = h.preview.stream)
      BY <1>0, <1>6, <2>2 DEF New, Streams
    <3> QED
      BY <1>8, <3>1, <3>2
  <2>3. page'.preview = NoPreview \/ page'.preview.stream \in 1 .. feed.streams
    BY <1>6 DEF Reads, New, Carries, h, q
  <2> QED
    BY <2>1, <2>2, <2>3 DEF Counted
<1>11. Connected'
  <2>1. Past(conn.by)'
    BY <1>1, <1>2 DEF StreamInv, Connected, Past, Life
  <2>2. page'.open = TRUE
    BY <1>2 DEF StreamInv, Connected, PageInv, IsPage, PageRecord
  <2>3. ASSUME NEW i \in Refreshes
        PROVE  /\ refresh'[i].by \in {Nobody, conn.by}
               /\ refresh'[i].at # "idle" => refresh'[i].by # Nobody
               /\ refresh'[i].at = "idle" => refresh'[i] = Idle
    BY <1>2 DEF StreamInv, Connected, MayAsk
  <2> QED
    BY <1>1, <1>2, <2>1, <2>2, <2>3 DEF Connected
<1>12. CaughtUp'
  <2>1. ASSUME Serving(conn.by)' PROVE Serving(conn.by)
    BY <1>1, <2>1 DEF Serving, Life
  <2>2. ASSUME NEW k \in DOMAIN q, NEW c \in 1 .. feed.cursor, Tells(q[k], c) PROVE Coming(c)'
    <3>1. CASE k = 1
      <4>1. Tells(Head(conn.queue), c)
        BY <1>3, <2>2, <3>1 DEF h, q
      <4> QED
        BY <4>1 DEF Coming
    <3>2. CASE k # 1
      <4>1. k - 1 \in DOMAIN r /\ (k - 1) + 1 = k
        BY <1>3, <2>2, <3>2
      <4>2. r[k - 1] = q[k]
        BY <1>3, <4>1
      <4> QED
        BY <1>1, <2>2, <4>1, <4>2 DEF Coming
    <3> QED
      BY <3>1, <3>2
  <2>3. ASSUME Serving(conn.by) PROVE After(page, conn.queue, Len(conn.queue))' = feed'.preview
    BY <1>1, <1>2, <1>5, <2>3 DEF StreamInv, CaughtUp, q
  <2>4. ASSUME Serving(conn.by), NEW c \in 1 .. feed.cursor PROVE Coming(c)'
    <3>1. Coming(c) /\ Reaches(q)
      BY <1>2, <2>4 DEF StreamInv, CaughtUp, q
    <3>2. CASE Untold(c)
      BY <3>2 DEF Coming, Untold
    <3>3. CASE \E k \in DOMAIN q : Tells(q[k], c)
      BY <2>2, <3>3
    <3>4. CASE Speaks(h)
      <4>1. Untold(c) \/ \E k \in DOMAIN q : 1 <= k /\ Tells(q[k], c)
        BY <1>3, <3>1, <3>4 DEF Reaches
      <4> QED
        BY <3>2, <3>3, <4>1
    <3>5. CASE ~Speaks(h) /\ (c \in page.applied \/ page.back)
      BY <3>5 DEF Coming, h, q
    <3>6. CASE \E i \in Refreshes : Awaits(refresh[i], c)
      <4>1. PICK i \in Refreshes : Awaits(refresh[i], c)
        BY <3>6
      <4>2. refresh[i] # Idle
        BY <4>1 DEF Idle, Awaits
      <4>3. refresh'[i] = refresh[i]
        BY <4>2 DEF MayAsk
      <4> QED
        BY <4>1, <4>3 DEF Coming
    <3> QED
      BY <3>1, <3>2, <3>3, <3>4, <3>5, <3>6 DEF Coming, q
  <2>5. ASSUME Serving(conn.by) PROVE Reaches(conn.queue)'
    <3>1. Reaches(q)
      BY <1>2, <2>5 DEF StreamInv, CaughtUp, q
    <3>2. ASSUME NEW k \in DOMAIN r, Speaks(r[k]), NEW c \in 1 .. feed.cursor, ~Untold(c)
          PROVE  \E j \in DOMAIN r : k <= j /\ Tells(r[j], c)
      <4>1. k \in Nat /\ k + 1 \in DOMAIN q /\ r[k] = q[k + 1]
        BY <1>3
      <4>2. PICK j \in DOMAIN q : k + 1 <= j /\ Tells(q[j], c)
        BY <3>1, <3>2, <4>1 DEF Reaches
      <4>3. j - 1 \in DOMAIN r /\ k <= j - 1 /\ (j - 1) + 1 = j
        BY <1>3, <4>1, <4>2
      <4>4. r[j - 1] = q[j]
        BY <1>3, <4>3
      <4> QED
        BY <4>2, <4>3, <4>4
    <3> QED
      BY <1>1, <3>2 DEF Reaches, Untold
  <2> QED
    BY <1>1, <2>1, <2>3, <2>4, <2>5 DEF CaughtUp
<1>13. FeedCounted'
  BY DEF StreamInv, FeedCounted, SessionOpen
<1> QED
  BY <1>1, <1>5, <1>9, <1>10, <1>11, <1>12, <1>13 DEF StreamInv

\* A page that hears of another process forgets the previews and nothing else.
LEMMA AdoptedParts ==
  ASSUME page \in PageRecord, NEW p, NEW a, a = Adopted(page, p)
  PROVE  /\ a.open = page.open /\ a.last = page.last /\ a.applied = page.applied /\ a.back = page.back
         /\ a.instance = p
         /\ a.revisions \in [Streams -> Nat] /\ \A s \in Streams : a.revisions[s] \in {0, page.revisions[s]}
         /\ \/ a.preview = page.preview /\ a.revisions = page.revisions
            \/ InstanceChanged(p) /\ a.preview = NoPreview
<1> DEFINE zeros == [s \in Streams |-> 0]
           blank == [page EXCEPT !.preview = NoPreview, !.revisions = zeros]
<1>1. zeros \in [Streams -> Nat] /\ \A s \in Streams : zeros[s] = 0
  OBVIOUS
<1>2. \/ InstanceChanged(p) /\ a = [blank EXCEPT !.instance = p]
      \/ ~InstanceChanged(p) /\ a = [page EXCEPT !.instance = p]
  BY DEF Adopted, NoCaption
<1> HIDE DEF zeros
<1>3. CASE InstanceChanged(p) /\ a = [blank EXCEPT !.instance = p]
  BY <1>1, <1>3 DEF PageRecord
<1>4. CASE a = [page EXCEPT !.instance = p]
  BY <1>4 DEF PageRecord
<1> QED
  BY <1>2, <1>3, <1>4

\* The first message fits what the page shows.
LEMMA FirstFollows ==
  ASSUME PageInv, StreamInv, NEW kind, Received(kind)
  PROVE  /\ conn.queue # <<>> /\ conn' = [conn EXCEPT !.queue = Tail(@)] /\ UNCHANGED feed
         /\ Head(conn.queue).kind \in kind /\ Head(conn.queue) \in Messages(feed.cursor)
         /\ Follows(page.preview, Head(conn.queue))
         /\ Carries(Head(conn.queue)) => New(feed, page, Head(conn.queue).preview)
         /\ Head(conn.queue).kind # "hello" => page.instance = conn.by
         /\ conn.by # Nobody
<1>1. conn.queue # <<>> /\ conn' = [conn EXCEPT !.queue = Tail(@)] /\ UNCHANGED feed /\ Head(conn.queue).kind \in kind
  BY DEF Received
<1>2. 1 \in DOMAIN conn.queue /\ Head(conn.queue) = conn.queue[1] /\ Head(conn.queue) \in Messages(feed.cursor)
  <2>1. conn.queue \in Seq(Messages(feed.cursor))
    BY PageTypes
  <2> DEFINE S == Messages(feed.cursor)
  <2> HIDE DEF S
  <2>2. conn.queue \in Seq(S)
    BY <2>1 DEF S
  <2>3. 1 \in DOMAIN conn.queue /\ Head(conn.queue) = conn.queue[1] /\ Head(conn.queue) \in S
    BY <1>1, <2>2
  <2> QED
    BY <2>3 DEF S
<1>3. After(page, conn.queue, 1 - 1) = page.preview
  BY DEF After
<1>4. Follows(page.preview, Head(conn.queue))
  BY <1>2, <1>3 DEF StreamInv, InOrder
<1>5. Carries(Head(conn.queue)) => New(feed, page, Head(conn.queue).preview)
  BY <1>2 DEF StreamInv, Numbered
<1> QED
  BY <1>1, <1>2, <1>4, <1>5 DEF StreamInv, Connected

\* The page hears which process it is connected to, and how many events that has.
LEMMA HelloKeepsStream ==
  ASSUME PageInv, StreamInv, ReceiveHello, UNCHANGED <<workload, proc>>
  PROVE  StreamInv'
<1> DEFINE h == Head(conn.queue)
           changed == InstanceChanged(conn.by)
<1>1. Received({"hello"}) /\ page' = [Adopted(page, conn.by) EXCEPT !.back = FALSE]
      /\ IF changed \/ h.cursor # page.last THEN Asks(conn.by, changed \/ h.cursor < page.last) ELSE UNCHANGED refresh
  BY DEF ReceiveHello, Asked
<1>2. /\ conn.queue # <<>> /\ conn' = [conn EXCEPT !.queue = Tail(@)] /\ UNCHANGED feed
      /\ h.kind = "hello" /\ h \in Messages(feed.cursor) /\ Follows(page.preview, h)
  BY <1>1, FirstFollows
<1>3. page \in PageRecord /\ page.last \in Nat /\ page.applied = 1 .. page.last /\ feed.cursor \in Nat
  BY PageTypes DEF PageInv, IsPage
<1>4. h.cursor \in Nat
  BY <1>2, <1>3 DEF Messages
<1>5. /\ page'.open = page.open /\ page'.applied = page.applied
      /\ page'.instance = conn.by /\ page'.revisions \in [Streams -> Nat]
      /\ \A s \in Streams : page'.revisions[s] \in {0, page.revisions[s]}
      /\ page'.preview = page.preview \/ page'.preview = NoPreview
  <2>1. PICK a : a = Adopted(page, conn.by)
    OBVIOUS
  <2>2. page' = [a EXCEPT !.back = FALSE]
    BY <1>1, <2>1
  <2>3. /\ page'.open = a.open /\ page'.applied = a.applied /\ page'.instance = a.instance
        /\ page'.revisions = a.revisions /\ page'.preview = a.preview
    BY <2>2
  <2>4. /\ a.open = page.open /\ a.applied = page.applied /\ a.instance = conn.by /\ a.revisions \in [Streams -> Nat]
        /\ \A s \in Streams : a.revisions[s] \in {0, page.revisions[s]}
        /\ a.preview = page.preview \/ a.preview = NoPreview
    BY <1>3, <2>1, AdoptedParts
  <2> QED
    BY <2>3, <2>4
<1>6. page'.preview = Reads(h)
  BY <1>2, <1>5 DEF Follows, Reads
<1>7. MayAsk(conn.by) /\ (changed \/ h.cursor # page.last => \E i \in Refreshes : refresh'[i].at = "asked")
  <2>1. CASE changed \/ h.cursor # page.last
    BY <1>1, <2>1, AsksStarts
  <2>2. CASE ~(changed \/ h.cursor # page.last)
    BY <1>1, <2>2 DEF MayAsk
  <2> QED
    BY <2>1, <2>2
<1>8. ASSUME NEW c \in 1 .. feed.cursor, Tells(h, c)
      PROVE  c \in page'.applied \/ \E i \in Refreshes : Awaits(refresh'[i], c)
  <2>1. CASE \E i \in Refreshes : refresh'[i].at = "asked"
    BY <2>1 DEF Awaits
  <2>2. CASE h.cursor = page.last
    <3>1. c \in 1 .. page.last
      BY <1>2, <1>3, <1>8, <2>2 DEF Tells
    <3> QED
      BY <1>3, <1>5, <3>1
  <2> QED
    BY <1>7, <2>1, <2>2
<1>9. page.applied \subseteq page'.applied /\ Speaks(h)
  BY <1>2, <1>5 DEF Speaks
<1> HIDE DEF h, changed
<1> QED
  BY <1>2, <1>5, <1>6, <1>7, <1>8, <1>9, ReadKeepsStream DEF h

\* The page hears of an event: it has it, it shows it, or it asks for the state.
LEMMA EventKeepsStream ==
  ASSUME PageInv, StreamInv, ReceiveEvent, UNCHANGED <<workload, proc>>
  PROVE  StreamInv'
<1> DEFINE h == Head(conn.queue)
           n == h.cursor
<1>1. /\ Received({"event"})
      /\ \/ n <= page.last /\ UNCHANGED <<page, refresh>>
         \/ n = page.last + 1 /\ UNCHANGED refresh /\ page' = Applied(n)
         \/ Asks(conn.by, FALSE) /\ page' = [page EXCEPT !.back = FALSE]
  BY DEF ReceiveEvent, Asked
<1>2. /\ conn.queue # <<>> /\ conn' = [conn EXCEPT !.queue = Tail(@)] /\ UNCHANGED feed
      /\ h.kind = "event" /\ h \in Messages(feed.cursor) /\ Follows(page.preview, h) /\ page.instance = conn.by
  BY <1>1, FirstFollows
<1>3. /\ page \in PageRecord /\ page.last \in Nat /\ page.applied = 1 .. page.last /\ feed.cursor \in Nat
      /\ page.revisions \in [Streams -> Nat]
  BY PageTypes DEF PageInv, IsPage
<1>4. n \in 0 .. feed.cursor /\ page.preview = NoPreview /\ Reads(h) = NoPreview /\ Speaks(h)
  BY <1>2, <1>3 DEF Messages, Follows, Reads, Speaks
<1>5. ASSUME NEW c \in 1 .. feed.cursor, Tells(h, c) PROVE c \in 1 .. n
  BY <1>3, <1>4, <1>5 DEF Tells
<1> HIDE DEF n, h
<1>6. CASE n <= page.last /\ UNCHANGED <<page, refresh>>
  <2>1. 1 .. n \subseteq page'.applied
    BY <1>3, <1>4, <1>6
  <2> QED
    BY <1>2, <1>3, <1>4, <1>5, <1>6, <2>1, ReadKeepsStream DEF MayAsk, h
<1>7. CASE Asks(conn.by, FALSE) /\ page' = [page EXCEPT !.back = FALSE]
  <2>1. /\ page'.open = page.open /\ page'.applied = page.applied /\ page'.instance = page.instance
        /\ page'.revisions = page.revisions /\ page'.preview = page.preview
    BY <1>3, <1>7 DEF PageRecord
  <2>2. MayAsk(conn.by) /\ \E i \in Refreshes : \A c : Awaits(refresh'[i], c)
    BY <1>7, AsksStarts DEF Awaits
  <2> QED
    BY <1>2, <1>3, <1>4, <2>1, <2>2, ReadKeepsStream DEF h
<1>8. CASE n = page.last + 1 /\ UNCHANGED refresh /\ page' = Applied(n)
  <2> DEFINE seen == page.applied \cup {n}
             zeros == [s \in Streams |-> 0]
             pg == [page EXCEPT !.applied = seen, !.last = n, !.back = FALSE]
  <2>1. page' = pg \/ page' = [pg EXCEPT !.preview = NoPreview, !.revisions = zeros]
    BY <1>8 DEF Applied, Shows, NoCaption
  <2>2. zeros \in [Streams -> Nat] /\ \A s \in Streams : zeros[s] = 0
    OBVIOUS
  <2>3. page.applied \subseteq seen /\ 1 .. n \subseteq seen
    BY <1>3, <1>8
  <2> HIDE DEF seen, zeros
  <2>4. /\ page'.open = page.open /\ page'.applied = seen /\ page'.instance = page.instance
        /\ page'.revisions \in {page.revisions, zeros} /\ page'.preview = NoPreview
    BY <1>3, <1>4, <2>1 DEF PageRecord
  <2>5. page'.revisions \in [Streams -> Nat] /\ \A s \in Streams : page'.revisions[s] \in {0, page.revisions[s]}
    BY <1>3, <2>2, <2>4
  <2>6. MayAsk(conn.by)
    BY <1>8 DEF MayAsk
  <2>7. ASSUME NEW c \in 1 .. feed.cursor, Tells(h, c) PROVE c \in page'.applied
    BY <1>5, <2>3, <2>4, <2>7
  <2> QED
    BY <1>2, <1>4, <2>3, <2>4, <2>5, <2>6, <2>7, ReadKeepsStream DEF h
<1> QED
  BY <1>1, <1>6, <1>7, <1>8

\* The page hears of a preview, which is newer than what it has seen of its stream.
LEMMA PreviewKeepsStream ==
  ASSUME PageInv, StreamInv, ReceivePreview, UNCHANGED <<workload, proc>>
  PROVE  StreamInv'
<1> DEFINE h == Head(conn.queue)
           v == h.preview
           revisions == [page.revisions EXCEPT ![v.stream] = v.revision]
           seen == [page EXCEPT !.revisions = revisions]
           left == IF page.preview.stream = v.stream THEN NoPreview ELSE page.preview
<1>1. Received({"upsert", "clear"}) /\ UNCHANGED refresh
  BY DEF ReceivePreview
<1>2. /\ conn.queue # <<>> /\ conn' = [conn EXCEPT !.queue = Tail(@)] /\ UNCHANGED feed
      /\ h.kind \in {"upsert", "clear"} /\ h \in Messages(feed.cursor) /\ Follows(page.preview, h)
      /\ page.instance = conn.by /\ New(feed, page, v)
  BY <1>1, FirstFollows DEF Carries
<1>3. /\ page \in PageRecord /\ page.revisions \in [Streams -> Nat] /\ feed.streams \in Nat /\ MaxStreams \in Nat
      /\ feed.streams <= MaxStreams /\ feed.cursor \in Nat
  BY PageTypes, LiveAssumption DEF PageInv, IsPage, StreamInv, FeedCounted
<1>4. v \in Preview
  BY <1>2 DEF Messages
<1>5. v.stream \in Streams /\ v.revision \in Nat /\ v.revision > page.revisions[v.stream]
  BY <1>2, <1>3, <1>4 DEF New, Streams, Preview
<1>6. \/ h.kind = "upsert" /\ page' = [seen EXCEPT !.preview = v]
      \/ h.kind = "clear" /\ page' = [seen EXCEPT !.preview = left]
  <2>1. [page EXCEPT !.revisions[v.stream] = v.revision] = seen
    BY <1>3 DEF PageRecord
  <2>2. seen.preview = page.preview
    BY <1>3 DEF PageRecord
  <2> QED
    BY <1>2, <1>5, <2>1, <2>2 DEF ReceivePreview
<1>7. left = NoPreview \/ h.kind # "clear"
  BY <1>2 DEF Follows
<1>8. /\ revisions \in [Streams -> Nat]
      /\ \A s \in Streams : revisions[s] = page.revisions[s] \/ (s = v.stream /\ revisions[s] = v.revision)
  BY <1>3, <1>5
<1> HIDE DEF h, v, revisions, left
<1>9. /\ page'.open = page.open /\ page'.applied = page.applied /\ page'.back = page.back
      /\ page'.instance = page.instance /\ page'.revisions = revisions
      /\ page'.preview = IF h.kind = "upsert" THEN v ELSE left
  BY <1>3, <1>6 DEF PageRecord
<1>10. page'.preview = Reads(h)
  BY <1>2, <1>7, <1>9 DEF Reads, v
<1>11. \A s \in Streams : \/ page'.revisions[s] \in {0, page.revisions[s]}
                          \/ Carries(h) /\ s = h.preview.stream /\ page'.revisions[s] = h.preview.revision
  BY <1>2, <1>8, <1>9 DEF v, Carries
<1>12. MayAsk(conn.by) /\ \A c : ~Tells(h, c)
  BY <1>1, <1>2 DEF MayAsk, Tells, Speaks
<1> QED
  BY <1>2, <1>3, <1>8, <1>9, <1>10, <1>11, <1>12, ReadKeepsStream DEF h

\* A page takes the answer to a refresh: it shows what the answer counts, or was taken back.
LEMMA AppliedKeepsStream ==
  ASSUME PageInv, StreamInv, RefreshApplied, UNCHANGED <<workload, proc>>
  PROVE  StreamInv'
<1>1. PICK i \in Refreshes :
        /\ refresh[i].at = "answered" /\ refresh' = [refresh EXCEPT ![i] = Idle]
        /\ page' = IF refresh[i].force \/ InstanceChanged(refresh[i].by) \/ refresh[i].cursor >= page.last
                   THEN Shows(Adopted(page, refresh[i].by), 1 .. refresh[i].cursor, refresh[i].cursor,
                              page.back \/ refresh[i].cursor < page.last)
                   ELSE Adopted(page, refresh[i].by)
  BY DEF RefreshApplied
<1> DEFINE r == refresh[i]
           n == r.cursor
           p == r.by
           q == conn.queue
<1>2. PICK a : a = Adopted(page, p)
  OBVIOUS
<1>3. /\ page \in PageRecord /\ page.last \in Nat /\ page.applied = 1 .. page.last /\ feed.cursor \in Nat
      /\ page.back \in BOOLEAN /\ page.revisions \in [Streams -> Nat]
      /\ feed.stream \in Nat /\ feed.streams \in Nat /\ feed.revision \in Nat /\ MaxStreams \in Nat
      /\ feed.stream <= feed.streams /\ feed.streams <= MaxStreams
      /\ refresh \in [Refreshes -> Answered(feed.cursor)] /\ UNCHANGED <<feed, conn>>
  BY PageTypes, LiveAssumption DEF PageInv, IsPage, StreamInv, FeedCounted, RefreshApplied
<1>4. n \in 0 .. feed.cursor /\ p # Nobody
  <2>1. r \in Answered(feed.cursor)
    BY <1>3
  <2>2. r.at # "idle"
    BY <1>1
  <2> QED
    BY <2>1, <2>2 DEF Answered, StreamInv, Connected
<1>5. /\ a.open = page.open /\ a.last = page.last /\ a.applied = page.applied /\ a.back = page.back
      /\ a.instance = p /\ a.revisions \in [Streams -> Nat] /\ \A s \in Streams : a.revisions[s] \in {0, page.revisions[s]}
      /\ \/ a.preview = page.preview
         \/ InstanceChanged(p) /\ a.preview = NoPreview
  BY <1>2, <1>3, AdoptedParts
<1>6. /\ page'.open = a.open /\ page'.instance = a.instance /\ page'.preview = a.preview /\ page'.revisions = a.revisions
      /\ \/ page'.applied = 1 .. n /\ page'.back = (page.back \/ n < page.last)
         \/ page'.applied = page.applied /\ page'.back = page.back /\ n < page.last
  <2> DEFINE seen == 1 .. n
             back == page.back \/ n < page.last
             b == [a EXCEPT !.applied = seen, !.last = n, !.back = back]
  <2>1. page' = b \/ (page' = a /\ n < page.last)
    BY <1>1, <1>2, <1>3, <1>4 DEF Shows
  <2>2. DOMAIN a = {"open", "instance", "last", "applied", "back", "preview", "revisions"}
    <3>1. DOMAIN page = {"open", "instance", "last", "applied", "back", "preview", "revisions"}
      BY <1>3 DEF PageRecord
    <3>2. DOMAIN NoCaption(page) = DOMAIN page
      BY DEF NoCaption
    <3> QED
      BY <1>2, <3>1, <3>2 DEF Adopted
  <2>3. CASE page' = b
    <3> HIDE DEF seen, back
    <3>1. /\ b.open = a.open /\ b.instance = a.instance /\ b.preview = a.preview /\ b.revisions = a.revisions
          /\ b.applied = seen /\ b.back = back
      BY <2>2
    <3> QED
      BY <2>3, <3>1 DEF seen, back
  <2>4. CASE page' = a /\ n < page.last
    BY <1>5, <2>4
  <2> QED
    BY <2>1, <2>3, <2>4
<1> HIDE DEF n, p, q
<1>7. (page.back => page'.back) /\ \A c \in Nat : c \in page.applied \/ c \in 1 .. n => c \in page'.applied \/ page'.back
  <2>1. CASE page'.applied = 1 .. n /\ page'.back = (page.back \/ n < page.last)
    <3>1. n < page.last \/ 1 .. page.last \subseteq 1 .. n
      BY <1>3, <1>4
    <3> QED
      BY <1>3, <2>1, <3>1, Zenon
  <2>2. CASE page'.applied = page.applied /\ page'.back = page.back /\ n < page.last
    <3>1. 1 .. n \subseteq 1 .. page.last
      BY <1>3, <1>4, <2>2
    <3> QED
      BY <1>3, <2>2, <3>1, Zenon
  <2> QED
    BY <1>6, <2>1, <2>2
<1>8. conn.by # Nobody => p = conn.by
  BY <1>4 DEF StreamInv, Connected, p
<1>9. page'.preview = page.preview
  <2>1. CASE conn.by = Nobody
    BY <1>5, <1>6, <2>1 DEF StreamInv, Connected
  <2>2. CASE conn.by # Nobody /\ InstanceChanged(p)
    <3>1. q # <<>> /\ Head(q).kind = "hello"
      BY <1>8, <2>2 DEF StreamInv, Connected, InstanceChanged, q
    <3>2. 1 \in DOMAIN q /\ Head(q) = q[1]
      <4> DEFINE S == Messages(feed.cursor)
      <4>1. q \in Seq(S)
        BY PageTypes DEF q
      <4> HIDE DEF S
      <4> QED
        BY <3>1, <4>1
    <3>3. After(page, q, 1 - 1) = page.preview
      BY DEF After
    <3>4. page.preview = NoPreview
      BY <3>1, <3>2, <3>3 DEF StreamInv, InOrder, Follows, q
    <3> QED
      BY <1>5, <1>6, <3>4
  <2>3. CASE ~InstanceChanged(p)
    BY <1>5, <1>6, <2>3
  <2> QED
    BY <2>1, <2>2, <2>3
<1>10. InOrder(page, q)' /\ After(page, q, Len(q))' = After(page, q, Len(q))
  <2>1. \A k \in DOMAIN q \cup {Len(q)} : After(page', q, k) = After(page, q, k)
    BY <1>9 DEF After
  <2>2. \A k \in DOMAIN q : After(page', q, k - 1) = After(page, q, k - 1)
    BY <1>9 DEF After
  <2>3. InOrder(page', q)
    BY <2>2 DEF StreamInv, InOrder, q
  <2>4. q' = q
    BY <1>3 DEF q
  <2> QED
    BY <2>1, <2>3, <2>4
<1>11. Numbered(feed, page', q)
  <2>1. ASSUME NEW k \in DOMAIN q, Carries(q[k]) PROVE New(feed, page', q[k].preview)
    <3>1. New(feed, page, q[k].preview) /\ q[k].preview \in Preview
      BY <2>1, PageTypes DEF StreamInv, Numbered, q
    <3>2. q[k].preview.stream \in Streams /\ q[k].preview.revision \in Nat
      BY <1>3, <3>1 DEF New, Streams, Preview
    <3>3. page'.revisions[q[k].preview.stream] \in {0, page.revisions[q[k].preview.stream]}
      BY <1>5, <1>6, <3>2
    <3>4. page.revisions[q[k].preview.stream] \in Nat
      BY <1>3, <3>2
    <3> QED
      BY <3>1, <3>2, <3>3, <3>4 DEF New
  <2> QED
    BY <2>1 DEF StreamInv, Numbered, q
<1>12. Counted(feed, page')
  <2>1. ASSUME NEW s \in Streams, NEW b \in Nat, page.revisions[s] <= b PROVE page'.revisions[s] <= b
    BY <1>3, <1>5, <1>6, <2>1
  <2>2. feed.stream # 0 => feed.stream \in Streams
    BY <1>3 DEF Streams
  <2>3. \A s \in Streams : page.revisions[s] = 0 => page'.revisions[s] = 0
    BY <1>5, <1>6
  <2>4. feed.stream # 0 => page'.revisions[feed.stream] <= feed.revision
    BY <1>3, <2>1, <2>2 DEF StreamInv, Counted
  <2> QED
    BY <1>9, <2>3, <2>4 DEF StreamInv, Counted
<1>13. Connected'
  <2>1. ASSUME NEW j \in Refreshes
        PROVE  /\ refresh'[j] = refresh[j] \/ refresh'[j] = Idle
    BY <1>1, <1>3
  <2>2. Idle.at = "idle" /\ Idle.by = Nobody
    BY DEF Idle
  <2>3. conn'.by = Nobody => page'.preview = NoPreview /\ \A s \in Streams : page'.revisions[s] = 0
    BY <1>3, <1>5, <1>6, <1>9 DEF StreamInv, Connected
  <2>4. Past(conn.by)' <=> Past(conn.by)
    BY <1>3 DEF Past, Life
  <2>5. conn'.by # Nobody => page'.instance = conn'.by /\ page'.open = page.open
    BY <1>3, <1>5, <1>6, <1>8
  <2>6. page'.open = page.open
    BY <1>5, <1>6
  <2> QED
    BY <1>3, <2>1, <2>2, <2>3, <2>4, <2>5, <2>6 DEF StreamInv, Connected
<1>14. CaughtUp'
  <2>1. ASSUME conn'.by # Nobody, Serving(conn.by)' PROVE conn.by # Nobody /\ Serving(conn.by)
    BY <1>3, <2>1 DEF Serving, Life
  <2>2. ASSUME conn.by # Nobody, Serving(conn.by), NEW c \in 1 .. feed.cursor PROVE Coming(c)'
    <3>1. Coming(c)
      BY <2>2 DEF StreamInv, CaughtUp
    <3>2. ASSUME NEW j \in Refreshes, Awaits(refresh[j], c) PROVE Coming(c)'
      <4>1. CASE j = i
        <5>1. c \in 1 .. n
          BY <1>1, <1>3, <1>4, <3>2, <4>1 DEF Awaits, n
        <5> QED
          BY <1>7, <5>1 DEF Coming
      <4>2. CASE j # i
        <5>1. refresh'[j] = refresh[j]
          BY <1>1, <1>3, <4>2
        <5> QED
          BY <3>2, <5>1 DEF Coming
      <4> QED
        BY <4>1, <4>2
    <3>3. CASE c \in page.applied \/ page.back
      BY <1>7, <3>3 DEF Coming
    <3>4. CASE Untold(c) \/ \E k \in DOMAIN conn.queue : Tells(conn.queue[k], c)
      BY <1>3, <3>4 DEF Coming, Untold
    <3> QED
      BY <3>1, <3>2, <3>3, <3>4 DEF Coming
  <2>3. conn.by # Nobody /\ Serving(conn.by) => Reaches(conn.queue)' /\ After(page, conn.queue, Len(conn.queue))' = feed'.preview
    BY <1>3, <1>10 DEF StreamInv, CaughtUp, Reaches, Untold, q
  <2> QED
    BY <1>3, <2>1, <2>2, <2>3 DEF CaughtUp
<1> QED
  BY <1>3, <1>10, <1>11, <1>12, <1>13, <1>14 DEF StreamInv, FeedCounted, SessionOpen, q

\* The service answers a refresh, or a refresh fails because its process is gone.
LEMMA AnswersKeepStream ==
  ASSUME PageInv, StreamInv, NEW p \in Process, RefreshAnswered(p) \/ RefreshFails(NotServing), UNCHANGED <<workload, proc>>
  PROVE  StreamInv'
<1>0. UNCHANGED <<feed, conn, page>> /\ refresh \in [Refreshes -> Answered(feed.cursor)] /\ feed.cursor \in Nat
      /\ Nobody \notin Process
  BY PageTypes, ServiceAssumption, ProcessAssumption DEF RefreshAnswered, RefreshFails, PageInv
<1>1. PICK i \in Refreshes :
        \/ /\ refresh[i].at = "asked"
           /\ refresh' = [refresh EXCEPT ![i] = [refresh[i] EXCEPT !.at = "answered", !.cursor = feed.cursor]]
        \/ refresh[i].by \in NotServing /\ refresh' = [refresh EXCEPT ![i] = Idle]
  <2>1. ASSUME NEW i \in Refreshes
        PROVE  [refresh EXCEPT ![i].at = "answered", ![i].cursor = feed.cursor]
                 = [refresh EXCEPT ![i] = [refresh[i] EXCEPT !.at = "answered", !.cursor = feed.cursor]]
    BY <1>0
  <2> QED
    BY <2>1 DEF RefreshAnswered, RefreshFails
<1>2. \A j \in Refreshes \ {i} : refresh'[j] = refresh[j]
  BY <1>0, <1>1
<1>3. CASE /\ refresh[i].at = "asked"
           /\ refresh' = [refresh EXCEPT ![i] = [refresh[i] EXCEPT !.at = "answered", !.cursor = feed.cursor]]
  <2>1. refresh'[i].at = "answered" /\ refresh'[i].cursor = feed.cursor /\ refresh'[i].by = refresh[i].by
    <3>1. refresh[i] \in Answered(feed.cursor)
      BY <1>0
    <3> QED
      BY <1>0, <1>3, <3>1 DEF Answered
  <2>2. page.open
    BY <1>3 DEF StreamInv, Connected, Idle
  <2>3. refresh[i].by # Nobody /\ (conn.by # Nobody => refresh[i].by = conn.by)
    BY <1>3 DEF StreamInv, Connected
  <2>4. Past(conn.by)' <=> Past(conn.by)
    BY <1>0 DEF Past, Life
  <2>5. Connected'
    BY <1>0, <1>2, <2>1, <2>2, <2>3, <2>4 DEF StreamInv, Connected
  <2>6. ASSUME NEW c \in 1 .. feed.cursor, Coming(c) PROVE Coming(c)'
    <3>1. c <= feed.cursor
      BY <1>0
    <3>2. \A j \in Refreshes : Awaits(refresh[j], c) => Awaits(refresh'[j], c)
      BY <1>2, <2>1, <3>1 DEF Awaits
    <3> QED
      BY <1>0, <2>6, <3>2 DEF Coming, Untold
  <2>7. CaughtUp'
    BY <1>0, <2>6 DEF StreamInv, CaughtUp, Reaches, Untold, Serving, Life
  <2> QED
    BY <1>0, <2>5, <2>7 DEF StreamInv, FeedCounted, SessionOpen
<1>4. CASE refresh[i].by \in NotServing /\ refresh' = [refresh EXCEPT ![i] = Idle]
  <2>1. refresh'[i] = Idle /\ Idle.by = Nobody /\ Idle.at = "idle"
    BY <1>0, <1>4 DEF Idle
  <2>2. Past(conn.by)' <=> Past(conn.by)
    BY <1>0 DEF Past, Life
  <2>3. Connected'
    BY <1>0, <1>2, <2>1, <2>2 DEF StreamInv, Connected
  <2>4. conn.by = Nobody \/ ~Serving(conn.by)
    BY <1>0, <1>4 DEF StreamInv, Connected, NotServing
  <2>5. CaughtUp'
    BY <1>0, <2>4 DEF CaughtUp, Serving, Life
  <2> QED
    BY <1>0, <2>3, <2>5 DEF StreamInv, FeedCounted, SessionOpen
<1> QED
  BY <1>1, <1>3, <1>4

-----------------------------------------------------------------------------
(* The invariant is inductive.                                             *)

\* What leaves the page and the service's log alone, and starts no process again.
LEMMA SideStep ==
  ASSUME PageInv, StreamInv, UNCHANGED <<liveVars, workload>>,
         \A q \in Process : Past(q) => Past(q)' /\ (Serving(q)' => Serving(q))
  PROVE  StreamInv'
<1>1. UNCHANGED <<feed, conn, page, refresh>> /\ conn.by \in Process \cup {Nobody}
  BY PageTypes DEF liveVars
<1>2. conn.by # Nobody => Past(conn.by) /\ Past(conn.by)' /\ (Serving(conn.by)' => Serving(conn.by))
  <2>1. SUFFICES ASSUME conn.by # Nobody PROVE Past(conn.by) /\ Past(conn.by)' /\ (Serving(conn.by)' => Serving(conn.by))
    OBVIOUS
  <2>2. PICK q \in Process : q = conn.by
    BY <1>1, <2>1
  <2>3. Past(q) /\ Past(q)' /\ (Serving(q)' => Serving(q))
    BY <2>1, <2>2 DEF StreamInv, Connected
  <2> QED
    BY <1>1, <2>2, <2>3 DEF Past, Serving, Life
<1>3. Connected'
  BY <1>1, <1>2 DEF StreamInv, Connected
<1>4. CaughtUp'
  BY <1>1, <1>2 DEF StreamInv, CaughtUp, Coming, Reaches, Untold
<1> QED
  BY <1>1, <1>3, <1>4 DEF StreamInv, FeedCounted, SessionOpen

LEMMA LifeKeepsStream ==
  ASSUME LockInv, PageInv, StreamInv, NEW p \in Process, LifeStep(p)
  PROVE  StreamInv'
<1>1. \A q \in Process : Past(q) => Past(q)' /\ (Serving(q)' => Serving(q))
  BY LifeForward
<1>2. CASE UNCHANGED <<liveVars, workload>>
  BY <1>1, <1>2, SideStep
<1>3. ASSUME FeedLost, UNCHANGED workload, NEW r, Set(p, r), r.life \in {"closed", "dead"}, Life(p) \in Owning
      PROVE  StreamInv'
  <2>1. ASSUME conn.by # Nobody PROVE Past(conn.by)' /\ ~Serving(conn.by)'
    <3>1. PICK q \in Process : q = conn.by
      BY <2>1, PageTypes
    <3>2. Past(q)
      BY <2>1, <3>1 DEF StreamInv, Connected
    <3>3. Past(q)' /\ ~Serving(q)'
      BY <1>1, <1>3, <3>2, OwnerEnds
    <3>4. UNCHANGED conn
      BY <1>3 DEF FeedLost
    <3> QED
      BY <3>1, <3>3, <3>4 DEF Past, Serving, Life
  <2> QED
    BY <1>3, <2>1, LostKeepsStream
<1>4. CASE (InitFails(p) \/ Closed(p)) /\ FeedLost /\ UNCHANGED workload
  <2>1. proc[p] \in ProcRecord /\ Life(p) = proc[p].life
    BY RecordOf
  <2>2. Set(p, [proc[p] EXCEPT !.life = "closed", !.stage = "none"]) /\ Life(p) \in Owning
    BY <1>4 DEF InitFails, Closed, Released, Unlocked, Passes, Awaited, Owning
  <2>3. [proc[p] EXCEPT !.life = "closed", !.stage = "none"].life = "closed"
    BY <2>1 DEF ProcRecord
  <2> QED
    BY <1>3, <1>4, <2>2, <2>3
<1>5. CASE Dies(p) /\ FeedLost /\ Life(p) # "locking"
  <2>1. Set(p, [NewProcess EXCEPT !.life = "dead"]) /\ Life(p) \in Owning /\ UNCHANGED workload
    BY <1>5 DEF Dies, Crash, Owning
  <2>2. [NewProcess EXCEPT !.life = "dead"].life = "dead"
    BY DEF NewProcess
  <2> QED
    BY <1>3, <1>5, <2>1, <2>2
<1>6. CASE Starts(p) \/ Drained(p) \/ Settles(p) \/ Ready(p)
  BY <1>2, <1>6 DEF Starts, Drained, Settles, Ready, Idles
<1>7. CASE Locks(p)
  BY <1>2, <1>4, <1>7 DEF Locks, Idles
<1>8. CASE Dies(p)
  BY <1>2, <1>5, <1>8 DEF Dies
<1>9. CASE Closed(p)
  BY <1>4, <1>9 DEF Closed
<1> QED
  BY <1>6, <1>7, <1>8, <1>9 DEF LifeStep

LEMMA StreamStep ==
  ASSUME LockInv, PageInv, StreamInv, [Next]_vars
  PROVE  StreamInv'
<1>1. ASSUME UNCHANGED <<liveVars, workload>>, \A q \in Process : Life(q)' = Life(q) PROVE StreamInv'
  BY <1>1, SideStep DEF Past, Serving
<1>2. CASE UNCHANGED vars
  BY <1>1, <1>2 DEF vars, lifecycleVars, Life
<1>3. ASSUME NEW p \in Process, LifeStep(p) PROVE StreamInv'
  BY <1>3, LifeKeepsStream
<1>4. ASSUME NEW p \in Process, Capture(p) PROVE StreamInv'
  <2>1. WorkStep(p) /\ UNCHANGED <<liveVars, workload>>
    BY <1>4 DEF Capture, CaptureBegins, Recorded, Written, Stopped, Finishes, Idles, WorkStep
  <2> QED
    BY <1>1, <2>1, WorkStays
<1>5. ASSUME NEW p \in Process, MemosRequest(p) \/ MemosAnswer(p) \/ Appends(p) PROVE StreamInv'
  BY <1>1, <1>5 DEF MemosRequest, MemosAnswer, Appends, ToolStep, lifecycleVars, Life
<1>6. ASSUME NEW p \in Process, Feeds(p) PROVE StreamInv'
  BY <1>6, FeedsKeepStream
<1>7. ASSUME NEW p \in Process, Broadcasts(p) PROVE StreamInv'
  BY <1>7, BroadcastKeepsStream DEF Broadcasts, LiveStep, lifecycleVars, Owning
<1>8. ASSUME NEW p \in Process, Connects(p) PROVE StreamInv'
  BY <1>8, ConnectsKeepStream
<1>9. ASSUME NEW p \in Process, Answers(p) PROVE StreamInv'
  BY <1>9, AnswersKeepStream DEF Answers, LiveStep, lifecycleVars
<1>10. CASE Operates
  BY <1>1, <1>10 DEF Operates, ToolStep, lifecycleVars, Life
<1>11. CASE Receives
  BY <1>11, HelloKeepsStream, EventKeepsStream, PreviewKeepsStream DEF Receives, LiveStep, lifecycleVars
<1>12. CASE Applies
  BY <1>12, AppliedKeepsStream DEF Applies, LiveStep, lifecycleVars
<1>13. CASE Drops
  BY <1>13, DropKeepsStream DEF Drops, LiveStep, lifecycleVars
<1>14. CASE Disconnects
  <2>1. UNCHANGED <<workload, proc>> /\ (Drop(TRUE) \/ RefreshFails(NotServing))
    BY <1>14 DEF Disconnects, LiveStep, lifecycleVars
  <2>2. CASE Drop(TRUE)
    BY <2>1, <2>2, DropKeepsStream
  <2>3. CASE RefreshFails(NotServing)
    <3>1. PICK i \in Refreshes : refresh[i].by \in NotServing
      BY <2>3 DEF RefreshFails
    <3>2. PICK p \in Process : TRUE
      BY <3>1 DEF NotServing
    <3> QED
      BY <2>1, <2>3, <3>2, AnswersKeepStream
  <2> QED
    BY <2>1, <2>2, <2>3
<1> QED
  BY <1>2, <1>3, <1>4, <1>5, <1>6, <1>7, <1>8, <1>9, <1>10, <1>11, <1>12, <1>13, <1>14 DEF Next

LEMMA StreamHolds == Spec => [](LockInv /\ PageInv /\ StreamInv)
<1>1. Init => LockInv /\ PageInv /\ StreamInv
  BY ProcessesInit, PageStart, StreamStart
<1>2. LockInv /\ PageInv /\ StreamInv /\ [Next]_vars => (LockInv /\ PageInv /\ StreamInv)'
  BY LockStepOrNone, PageStepOrNone, StreamStep
<1> QED
  BY <1>1, <1>2, PTL DEF Spec

\* A page that has read all it was sent shows the preview the service keeps and, unless a
\* forced refresh has just taken it back, every event, whatever was dropped, reordered or
\* restarted on the way
\* (App.tsx, applyCaptionPreview, applySequentialLiteEvent, adoptServerInstance).
THEOREM PageAlwaysCurrent == Spec => []PageIsCurrent
<1>1. LockInv /\ PageInv /\ StreamInv => PageIsCurrent
  <2> SUFFICES ASSUME LockInv, PageInv, StreamInv PROVE PageIsCurrent
    OBVIOUS
  <2>1. PreviewIsCurrent
    <3>1. SUFFICES ASSUME conn.by # Nobody, Serving(conn.by), conn.queue = <<>> PROVE page.preview = feed.preview
      BY DEF PreviewIsCurrent
    <3>2. After(page, conn.queue, Len(conn.queue)) = feed.preview
      BY <3>1 DEF StreamInv, CaughtUp
    <3>3. Len(conn.queue) = 0
      BY <3>1
    <3> QED
      BY <3>2, <3>3 DEF After
  <2>2. EventsAreCurrent
    <3>1. SUFFICES ASSUME conn.by # Nobody, Serving(conn.by), conn.queue = <<>>, ~feed.unsent, ~page.back,
                          \A i \in Refreshes : refresh[i] = Idle
                   PROVE  page.applied = 1 .. feed.cursor
      BY DEF EventsAreCurrent
    <3>2. DOMAIN conn.queue = {}
      BY <3>1
    <3>3. \A i \in Refreshes, c \in 1 .. feed.cursor : ~Awaits(refresh[i], c)
      BY <3>1 DEF Awaits, Idle
    <3>4. \A c \in 1 .. feed.cursor : c \in page.applied
      BY <3>1, <3>2, <3>3 DEF StreamInv, CaughtUp, Coming, Untold
    <3>5. page.applied = 1 .. page.last /\ page.last <= feed.cursor /\ page.last \in Nat /\ feed.cursor \in Nat
      BY PageTypes
    <3> QED
      BY <3>4, <3>5
  <2> QED
    BY <2>1, <2>2 DEF PageIsCurrent
<1> QED
  BY <1>1, StreamHolds, PTL

-----------------------------------------------------------------------------
(* Types: the publications.                                                *)

\* An attempt has created no file that its session does not have.
Within(r) == r.created \subseteq 1 .. r.parts

AttemptsBounded ==
  /\ memory.ledger \in [Session -> 0 .. MaxAttempts]
  /\ \A a \in Attempt : Within(publish[a])

\* Only a roll back has to be told what the attempt has created.
LEMMA StandsWithin ==
  ASSUME NEW a, NEW r \in AttemptRecord, NEW inst, Stands(a, r, inst), r.at \notin {"rollback", "failed"}
  PROVE  Within(r)
<1>1. CASE r.at \in {"unused", "limit", "audio", "lost"}
  BY <1>1 DEF Stands, Within
<1>2. CASE r.at = "files"
  <2>1. PICK n \in Nat : n < r.parts /\ r.created = 1 .. n
    BY <1>2 DEF Stands
  <2>2. r.parts \in Nat
    BY DEF AttemptRecord
  <2> QED
    BY <2>1, <2>2 DEF Within
<1>3. CASE r.at \in Made
  BY <1>3 DEF Stands, Within
<1> QED
  BY <1>1, <1>2, <1>3 DEF AttemptRecord

\* What an attempt has created is the same when it fails.
LEMMA FailureKeepsCreated ==
  ASSUME Attempts, NEW a \in Attempt, NEW closing \in BOOLEAN, PublishStep(a, closing),
         publish'[a].at \in {"rollback", "failed"}
  PROVE  publish'[a].created = publish[a].created /\ publish'[a].parts = publish[a].parts
<1> DEFINE R == publish[a]
<1>0. R \in AttemptRecord
  BY DEF Attempts
<1>1. ASSUME NEW r, publish' = [publish EXCEPT ![a] = r] PROVE publish'[a] = r
  BY <1>1 DEF Attempts
<1>2. ASSUME NEW cl \in BOOLEAN, Failed(a, cl)
      PROVE  publish'[a].created = R.created /\ publish'[a].parts = R.parts
  <2>1. PICK x : publish' = [publish EXCEPT ![a] = [R EXCEPT !.at = "rollback", !.expired = x]]
    BY <1>2 DEF Failed, Put
  <2> DEFINE r == [R EXCEPT !.at = "rollback", !.expired = x]
  <2>2. r.created = R.created /\ r.parts = R.parts
    BY <1>0 DEF AttemptRecord
  <2>3. publish'[a] = r
    BY <1>1, <2>1
  <2> QED
    BY <2>2, <2>3
<1>3. ASSUME NEW r, publish' = [publish EXCEPT ![a] = r], r.at \notin {"rollback", "failed"}
      PROVE  FALSE
  BY <1>1, <1>3
<1>4. CASE LimitKnown(a)
  <2> DEFINE known == IF memory.limit # None THEN memory.limit ELSE R.to
             r == [R EXCEPT !.at = "audio", !.limit = known]
  <2>1. publish' = [publish EXCEPT ![a] = r]
    BY <1>4 DEF LimitKnown, Put
  <2> HIDE DEF known
  <2>2. r.at = "audio"
    BY <1>0 DEF AttemptRecord
  <2> QED
    BY <1>3, <2>1, <2>2
<1>5. CASE FilesBuilt(a)
  <2> DEFINE r == [R EXCEPT !.at = "files", !.parts = PartsUnder[R.limit]]
  <2>1. publish' = [publish EXCEPT ![a] = r]
    BY <1>5 DEF FilesBuilt, Put
  <2>2. r.at = "files"
    BY <1>0 DEF AttemptRecord
  <2> QED
    BY <1>3, <2>1, <2>2
<1>6. CASE PreparationFails(a)
  <2>1. publish' = [publish EXCEPT ![a] = Over(a, "failed")]
    BY <1>6 DEF PreparationFails, Fails, Ends, Put
  <2> QED
    BY <1>1, <2>1, OverRecord
<1>7. CASE CreateFile(a, closing)
  <2>1. ASSUME NEW part, publish' = [publish EXCEPT ![a] = [R EXCEPT !.created = @ \cup {part},
                                       !.at = IF part = R.parts THEN "memo" ELSE "files"]]
        PROVE  FALSE
    <3> DEFINE x == IF part = R.parts THEN "memo" ELSE "files"
               r == [R EXCEPT !.created = @ \cup {part}, !.at = x]
    <3>1. x \in {"memo", "files"} /\ publish' = [publish EXCEPT ![a] = r]
      BY <2>1
    <3> HIDE DEF x
    <3>2. r.at = x
      BY <1>0 DEF AttemptRecord
    <3> QED
      BY <1>3, <3>1, <3>2
  <2> QED
    BY <1>2, <1>7, <2>1 DEF CreateFile, Put
<1>8. CASE CreateMemo(a, closing)
  <2> DEFINE r == [R EXCEPT !.memo = TRUE, !.at = "wire"]
  <2>1. Failed(a, closing) \/ publish' = [publish EXCEPT ![a] = r]
    BY <1>8 DEF CreateMemo, Put
  <2>2. r.at = "wire"
    BY <1>0 DEF AttemptRecord
  <2> QED
    BY <1>2, <1>3, <2>1, <2>2
<1>9. CASE SetAttachments(a, closing)
  <2> DEFINE r == [R EXCEPT !.at = "record"]
  <2>1. Failed(a, closing) \/ publish' = [publish EXCEPT ![a] = r]
    BY <1>9 DEF SetAttachments, Put
  <2>2. r.at = "record"
    BY <1>0 DEF AttemptRecord
  <2> QED
    BY <1>2, <1>3, <2>1, <2>2
<1>10. CASE RollsBack(a, closing)
  <2> DEFINE q == Over(a, "failed")
  <2>1. q \in AttemptRecord /\ q.created = R.created /\ q.parts = R.parts
    BY OverRecord
  <2>2. ASSUME NEW c, Put(a, [q EXCEPT !.clean = c])
        PROVE  publish'[a].created = R.created /\ publish'[a].parts = R.parts
    <3> HIDE DEF q
    <3>1. publish'[a] = [q EXCEPT !.clean = c]
      BY <1>1, <2>2 DEF Put
    <3> QED
      BY <2>1, <3>1 DEF AttemptRecord
  <2>3. ASSUME NEW c, NEW d, Put(a, [q EXCEPT !.clean = c, !.refused = d])
        PROVE  publish'[a].created = R.created /\ publish'[a].parts = R.parts
    <3> HIDE DEF q
    <3>1. publish'[a] = [q EXCEPT !.clean = c, !.refused = d]
      BY <1>1, <2>3 DEF Put
    <3> QED
      BY <2>1, <3>1 DEF AttemptRecord
  <2>4. (\E c : Put(a, [q EXCEPT !.clean = c])) \/ (\E c, d : Put(a, [q EXCEPT !.clean = c, !.refused = d]))
    <3> HIDE DEF Put
    <3> QED
      BY <1>10 DEF RollsBack
  <2> QED
    BY <2>2, <2>3, <2>4
<1>11. CASE Record(a)
  <2> DEFINE r == [R EXCEPT !.at = "recording"]
  <2>1. publish' = [publish EXCEPT ![a] = r]
    BY <1>11 DEF Record, Put
  <2>2. r.at = "recording"
    BY <1>0 DEF AttemptRecord
  <2> QED
    BY <1>3, <2>1, <2>2
<1>12. CASE LedgerChanges(a)
  <2> DEFINE r == [R EXCEPT !.at = "writing"]
  <2>1. publish' = [publish EXCEPT ![a] = r]
    BY <1>12 DEF LedgerChanges, Put
  <2>2. r.at = "writing"
    BY <1>0 DEF AttemptRecord
  <2> QED
    BY <1>3, <2>1, <2>2
<1>13. CASE LedgerWritten(a)
  <2>1. PICK written \in {TRUE, FALSE} :
          publish' = [publish EXCEPT ![a] = Over(a, IF written THEN "published" ELSE "unrecorded")]
    BY <1>13 DEF LedgerWritten, Put
  <2> DEFINE at == IF written THEN "published" ELSE "unrecorded"
  <2>2. at \in {"published", "unrecorded"} /\ publish' = [publish EXCEPT ![a] = Over(a, at)]
    BY <2>1
  <2> HIDE DEF at
  <2>3. Over(a, at).at = at
    BY <2>2, OverRecord
  <2> QED
    BY <1>3, <2>2, <2>3
<1> QED
  BY <1>4, <1>5, <1>6, <1>7, <1>8, <1>9, <1>10, <1>11, <1>12, <1>13 DEF PublishStep

LEMMA BoundedStart == Init => AttemptsBounded
<1> SUFFICES ASSUME Init PROVE AttemptsBounded
  OBVIOUS
<1>1. memory.ledger = [s \in Session |-> 0] /\ publish = [a \in Attempt |-> Unused]
  BY DEF Init, MemosInit
<1>2. \A a \in Attempt : Within(publish[a])
  BY <1>1 DEF Within, Unused
<1> QED
  BY <1>1, <1>2, MemosAssumption DEF AttemptsBounded

\* A step of one attempt.
LEMMA PublishKeepsBounds ==
  ASSUME MemosInv, MemosInv', AttemptsBounded, NEW a \in Attempt, NEW closing \in BOOLEAN,
         PublishStep(a, closing)
  PROVE  AttemptsBounded'
<1>0. Attempts /\ MemosTyped /\ Attempts' /\ AttemptsInv /\ AttemptsInv'
  BY DEF MemosInv, AttemptsInv, LedgerInv
<1>1. memory'.ledger \in [Session -> 0 .. MaxAttempts]
  <2>1. CASE LedgerChanges(a)
    <3>1. memory' = [memory EXCEPT !.ledger = LedgerWith(a)]
      BY <2>1 DEF LedgerChanges
    <3>2. LedgerWith(a) \in [Session -> 0 .. MaxAttempts]
      <4>1. a \in 0 .. MaxAttempts
        BY MemosAssumption DEF Attempt
      <4> QED
        BY <4>1 DEF LedgerWith, AttemptsBounded
    <3>3. memory'.ledger = LedgerWith(a)
      BY <1>0, <3>1 DEF MemosTyped
    <3> QED
      BY <3>2, <3>3
  <2>2. CASE Record(a)
    <3>1. memory' = [memory EXCEPT !.queue = Append(@, a)]
      BY <2>2 DEF Record
    <3>2. memory'.ledger = memory.ledger
      BY <1>0, <3>1 DEF MemosTyped
    <3> QED
      BY <3>2 DEF AttemptsBounded
  <2>3. CASE LedgerWritten(a)
    <3>1. memory' = [memory EXCEPT !.inFlight = @ \ {publish[a].session}, !.queue = Tail(@)]
      BY <2>3 DEF LedgerWritten
    <3>2. memory'.ledger = memory.ledger
      BY <1>0, <3>1 DEF MemosTyped
    <3> QED
      BY <3>2 DEF AttemptsBounded
  <2>4. CASE ~Record(a) /\ ~LedgerChanges(a) /\ ~LedgerWritten(a)
    BY <1>0, <2>4, Writers DEF AttemptsBounded
  <2> QED
    BY <2>1, <2>2, <2>3, <2>4
<1>2. \E r : Turns(a, r)
  BY <1>0, AttemptTurns
<1>3. ASSUME NEW b \in Attempt, b # a PROVE publish'[b] = publish[b]
  BY <1>0, <1>2, <1>3 DEF Turns, Attempts
<1>4. Within(publish'[a])
  <2>1. CASE publish'[a].at \in {"rollback", "failed"}
    BY <1>0, <2>1, FailureKeepsCreated DEF AttemptsBounded, Within
  <2>2. CASE publish'[a].at \notin {"rollback", "failed"}
    <3>1. publish'[a] \in AttemptRecord /\ Stands(a, publish'[a], instance')
      BY <1>0 DEF Attempts, AttemptsInv
    <3> QED
      BY <2>2, <3>1, StandsWithin
  <2> QED
    BY <2>1, <2>2
<1> QED
  BY <1>1, <1>3, <1>4 DEF AttemptsBounded

LEMMA BoundedStep ==
  ASSUME LockInv, MemosInv, AttemptsBounded, [Next]_vars
  PROVE  AttemptsBounded'
<1>0. MemosTyped /\ MemosInv' /\ Attempts
  BY MemosStep DEF MemosInv, LedgerInv, AttemptsInv
<1>1. CASE UNCHANGED <<memory, publish>>
  BY <1>1 DEF AttemptsBounded
<1>2. CASE UNCHANGED vars
  BY <1>1, <1>2 DEF vars, memosVars
<1>3. ASSUME NEW p \in Process, LifeStep(p) PROVE AttemptsBounded'
  <2>1. CASE Ready(p)
    <3>1. UNCHANGED publish /\ memory'.ledger = disk.ledger
      BY <2>1 DEF Ready, MemosLoaded
    <3>2. disk.ledger \in [Session -> 0 .. MaxAttempts]
      BY MemosAssumption DEF MemosInv, LedgerInv, MemosTyped, DiskIsFiled, Filed, Attempt
    <3> QED
      BY <3>1, <3>2 DEF AttemptsBounded
  <2>2. CASE MemosLost
    <3>1. memory'.ledger = memory.ledger
      <4>1. memory' = [memory EXCEPT !.inFlight = {}, !.queue = <<>>, !.test = None]
        BY <2>2 DEF MemosLost
      <4> QED
        BY <1>0, <4>1 DEF MemosTyped
    <3>2. ASSUME NEW a \in Attempt PROVE Within(publish'[a])
      <4>1. publish'[a] = publish[a] \/ publish'[a] = [Unused EXCEPT !.at = "lost"]
        BY <2>2 DEF MemosLost
      <4>2. [Unused EXCEPT !.at = "lost"].created = {}
        BY DEF Unused
      <4> QED
        BY <4>1, <4>2 DEF AttemptsBounded, Within
    <3> QED
      BY <3>1, <3>2 DEF AttemptsBounded
  <2>3. CASE UNCHANGED memosVars
    BY <1>1, <2>3 DEF memosVars
  <2> QED
    BY <1>1, <1>3, <2>1, <2>2, <2>3
      DEF LifeStep, Starts, Locks, Dies, Drained, Settles, Closed, Idles, memosVars
<1>4. ASSUME NEW p \in Process, Capture(p) PROVE AttemptsBounded'
  <2>1. UNCHANGED memosVars
    BY <1>4 DEF Capture, CaptureBegins, Recorded, Written, Stopped, Finishes, Idles
  <2> QED
    BY <1>1, <2>1 DEF memosVars
<1>5. ASSUME NEW p \in Process, MemosRequest(p) PROVE AttemptsBounded'
  <2>1. CASE \E srv \in Server : UpdateSettings(srv)
    <3>1. UNCHANGED publish /\ memory'.ledger = memory.ledger
      BY <1>0, <2>1 DEF UpdateSettings, MemosTyped
    <3> QED
      BY <3>1 DEF AttemptsBounded
  <2>2. CASE TestConnection
    <3>1. UNCHANGED publish /\ memory'.ledger = memory.ledger
      BY <1>0, <2>2 DEF TestConnection, MemosTyped
    <3> QED
      BY <3>1 DEF AttemptsBounded
  <2>3. ASSUME NEW a \in Attempt, NEW s \in Session, BeginPublish(a, s, p) PROVE AttemptsBounded'
    <3> DEFINE r == [Unused EXCEPT !.at = "limit", !.session = s, !.to = memory.settings, !.by = p]
    <3>1. publish' = [publish EXCEPT ![a] = r] /\ memory' = [memory EXCEPT !.inFlight = @ \cup {s}]
      BY <2>3 DEF BeginPublish, Put
    <3>2. r.created = {}
      BY DEF Unused
    <3>3. memory'.ledger = memory.ledger
      BY <1>0, <3>1 DEF MemosTyped
    <3> HIDE DEF r
    <3>4. \A b \in Attempt : publish'[b] = r \/ publish'[b] = publish[b]
      BY <1>0, <3>1 DEF Attempts
    <3> QED
      BY <3>2, <3>3, <3>4 DEF AttemptsBounded, Within
  <2> QED
    BY <1>5, <2>1, <2>2, <2>3 DEF MemosRequest
<1>6. ASSUME NEW p \in Process, MemosAnswer(p) PROVE AttemptsBounded'
  <2>1. CASE ConnectionTested
    <3>1. UNCHANGED publish /\ memory'.ledger = memory.ledger
      BY <1>0, <2>1 DEF ConnectionTested, MemosTyped
    <3> QED
      BY <3>1 DEF AttemptsBounded
  <2>2. ASSUME NEW a \in Attempt, PublishStep(a, Life(p) = "closing") PROVE AttemptsBounded'
    <3> DEFINE closing == Life(p) = "closing"
    <3>1. closing \in BOOLEAN /\ PublishStep(a, closing)
      BY <2>2
    <3> HIDE DEF closing
    <3> QED
      BY <1>0, <3>1, PublishKeepsBounds
  <2> QED
    BY <1>6, <2>1, <2>2 DEF MemosAnswer
<1>7. ASSUME NEW p \in Process,
             Feeds(p) \/ Broadcasts(p) \/ Connects(p) \/ Answers(p) \/ Appends(p)
      PROVE  AttemptsBounded'
  <2>1. UNCHANGED memosVars
    BY <1>7 DEF Feeds, Broadcasts, Connects, Answers, Appends, LiveStep, ToolStep
  <2> QED
    BY <1>1, <2>1 DEF memosVars
<1>8. CASE Receives \/ Applies \/ Drops \/ Disconnects \/ Operates
  <2>1. UNCHANGED memosVars
    BY <1>8 DEF Receives, Applies, Drops, Disconnects, Operates, LiveStep, ToolStep
  <2> QED
    BY <1>1, <2>1 DEF memosVars
<1> QED
  BY <1>2, <1>3, <1>4, <1>5, <1>6, <1>7, <1>8 DEF Next

-----------------------------------------------------------------------------
(* Types: the tools.                                                       *)

RootBounded ==
  /\ Len(root.events) <= MaxLines /\ tool.runs \in Nat /\ tool.runs <= MaxRuns
  /\ target.at \in {"empty", "partial", "restored"}

LEMMA RootBoundedStart == Init => RootBounded
<1> SUFFICES ASSUME Init PROVE RootBounded
  OBVIOUS
<1>1. PICK n \in 0 .. OldLines : root.events = All(n, "legacy")
  BY DEF Init, ToolsInit
<1>2. n \in Nat /\ n <= MaxLines /\ MaxRuns \in Nat
  BY ToolsAssumption
<1>3. Len(All(n, "legacy")) = n
  BY <1>2 DEF All
<1>4. tool.runs = 0 /\ target.at = "empty"
  BY DEF Init, ToolsInit, NoTool
<1> QED
  BY <1>1, <1>2, <1>3, <1>4 DEF RootBounded

\* A migrated file has as many lines as before.
LEMMA MigratedLength ==
  ASSUME NEW lines \in Seq(Line)
  PROVE  Migrated(lines) \in Seq(Line) /\ Len(Migrated(lines)) = Len(lines)
BY DEF Migrated, Line

LEMMA RootBoundedStep ==
  ASSUME ToolsInv, BackupInv, RootBounded, [Next]_vars
  PROVE  RootBounded'
<1>0. Shaped /\ RootInv
  BY DEF ToolsInv
<1>1. CASE UNCHANGED toolVars
  BY <1>1 DEF RootBounded, toolVars
<1>2. CASE UNCHANGED vars
  BY <1>1, <1>2 DEF vars
<1>3. ASSUME NEW p \in Process, LifeStep(p) PROVE RootBounded'
  <2>1. CASE RootOpened \/ RootTaken \/ RootLeft
    <3>1. UNCHANGED target /\ root'.events = root.events /\ tool'.runs = tool.runs
      BY <1>0, <2>1 DEF RootOpened, RootTaken, RootLeft, Shaped
    <3> QED
      BY <3>1 DEF RootBounded
  <2> QED
    BY <1>1, <1>3, <2>1
      DEF LifeStep, Starts, Locks, Ready, Dies, Drained, Settles, Closed, Idles, toolVars
<1>4. ASSUME NEW p \in Process,
             Capture(p) \/ MemosRequest(p) \/ MemosAnswer(p) \/ Feeds(p) \/ Broadcasts(p) \/ Connects(p) \/ Answers(p)
      PROVE  RootBounded'
  <2>1. UNCHANGED toolVars
    BY <1>4 DEF Capture, CaptureBegins, Recorded, Written, Stopped, Finishes, Idles,
                MemosRequest, MemosAnswer, Feeds, Broadcasts, Connects, Answers, LiveStep
  <2> QED
    BY <1>1, <2>1
<1>5. ASSUME NEW p \in Process, Appends(p) PROVE RootBounded'
  <2>1. CASE LineAppended
    <3>1. root'.events = Append(root.events, "migrated") /\ Len(root.events) < MaxLines /\ UNCHANGED <<target, tool>>
      BY <1>0, <2>1 DEF LineAppended, Shaped
    <3>2. Len(Append(root.events, "migrated")) = Len(root.events) + 1 /\ Len(root.events) \in Nat
      BY <1>0 DEF Shaped, Line
    <3> QED
      BY <3>1, <3>2, ToolsAssumption DEF RootBounded
  <2>2. CASE ItemAppended
    <3>1. root'.events = root.events /\ UNCHANGED <<target, tool>>
      BY <1>0, <2>2 DEF ItemAppended, Shaped
    <3> QED
      BY <3>1 DEF RootBounded
  <2> QED
    BY <1>5, <2>1, <2>2 DEF Appends
<1>6. CASE Receives \/ Applies \/ Drops \/ Disconnects
  <2>1. UNCHANGED toolVars
    BY <1>6 DEF Receives, Applies, Drops, Disconnects, LiveStep
  <2> QED
    BY <1>1, <2>1
<1>7. CASE Operates
  <2>1. ASSUME NEW at, Goes(at), UNCHANGED <<root, target>> PROVE RootBounded'
    BY <1>0, <2>1 DEF Goes, Shaped, RootBounded
  <2>2. ASSUME Leaves, root'.events = root.events, UNCHANGED target PROVE RootBounded'
    BY <2>2 DEF Leaves, NoTool, RootBounded
  <2>3. ASSUME tool.runs < MaxRuns, tool'.runs = tool.runs + 1, UNCHANGED root,
               target'.at \in {"empty", "partial", "restored"}
        PROVE  RootBounded'
    BY <2>3, ToolsAssumption DEF RootBounded
  <2>4. ASSUME NEW at, RunBegins(at) PROVE tool.runs < MaxRuns /\ tool'.runs = tool.runs + 1
    BY <1>0, <2>4 DEF RunBegins, Shaped
  <2>5. CASE ToolDies
    BY <2>2, <2>5 DEF ToolDies
  <2>6. CASE MigrationStep
    <3>1. CASE MigrationBegins
      BY <2>3, <2>4, <3>1 DEF MigrationBegins, RootBounded
    <3>2. CASE KeepEvents
      <4>1. tool'.runs = tool.runs /\ UNCHANGED <<root, target>>
        BY <1>0, <3>2 DEF KeepEvents, Shaped
      <4> QED
        BY <4>1 DEF RootBounded
    <3>3. CASE KeepOutbox
      BY <2>1, <3>3 DEF KeepOutbox
    <3>4. CASE RenameEvents
      <4>1. /\ root'.events = Migrated(tool.read.events) /\ tool'.runs = tool.runs /\ UNCHANGED target
            /\ tool.at = "rename events"
        BY <1>0, <3>4 DEF RenameEvents, Goes, Shaped
      <4>2. tool.read.events = root.events
        <5>1. tool.read = Files(root)
          BY <1>0, <4>1 DEF RootInv
        <5> QED
          BY <5>1 DEF Files
      <4>3. Len(Migrated(root.events)) = Len(root.events)
        BY <1>0, MigratedLength DEF Shaped
      <4> QED
        BY <4>1, <4>2, <4>3 DEF RootBounded
    <3>5. CASE RenameOutbox
      <4>1. root'.events = root.events
        BY <1>0, <3>5 DEF RenameOutbox, Shaped
      <4> QED
        BY <2>2, <3>5, <4>1 DEF RenameOutbox
    <3> QED
      BY <2>6, <3>1, <3>2, <3>3, <3>4, <3>5 DEF MigrationStep
  <2>7. CASE \E held \in BOOLEAN : BackupStep(held)
    <3>1. ASSUME NEW held, BackupBegins(held) PROVE RootBounded'
      <4>1. tool.runs < MaxRuns /\ tool'.runs = tool.runs + 1 /\ UNCHANGED <<root, target>>
        BY <1>0, <3>1 DEF BackupBegins, Shaped
      <4> QED
        BY <2>3, <4>1 DEF RootBounded
    <3>2. CASE ManifestBegins
      BY <2>1, <3>2 DEF ManifestBegins
    <3>3. CASE ManifestWritten
      BY <2>2, <3>3 DEF ManifestWritten
    <3>4. ASSUME NEW f, NEW at, NEW next, BackupReads(f, at, next) PROVE RootBounded'
      <4>1. tool'.runs = tool.runs /\ UNCHANGED <<root, target>>
        BY <1>0, <3>4 DEF BackupReads, Shaped
      <4> QED
        BY <4>1 DEF RootBounded
    <3>5. ASSUME NEW f, NEW at, NEW next, BackupWrites(f, at, next) PROVE RootBounded'
      BY <2>1, <3>5 DEF BackupWrites
    <3>6. CASE RestoreBegins
      <4>1. target'.at = "partial" /\ UNCHANGED root
        BY <3>6 DEF RestoreBegins, BackupInv
      <4> QED
        BY <2>3, <2>4, <3>6, <4>1 DEF RestoreBegins
    <3>7. CASE RestoreEvents
      <4>1. target'.at = target.at /\ tool'.runs = tool.runs /\ UNCHANGED root
        BY <1>0, <3>7 DEF RestoreEvents, Goes, Shaped, BackupInv
      <4> QED
        BY <4>1 DEF RootBounded
    <3>8. CASE RestoreOutbox
      <4>1. target'.at = "restored" /\ tool'.runs = tool.runs /\ UNCHANGED root
        BY <1>0, <3>8 DEF RestoreOutbox, Leaves, NoTool, BackupInv
      <4> QED
        BY <4>1 DEF RootBounded
    <3> QED
      BY <2>7, <3>1, <3>2, <3>3, <3>4, <3>5, <3>6, <3>7, <3>8 DEF BackupStep
  <2> DEFINE held == endpoint # NoProcess
  <2>8. held \in BOOLEAN /\ (MigrationStep \/ BackupStep(held) \/ ToolDies)
    BY <1>7 DEF Operates
  <2> HIDE DEF held
  <2> QED
    BY <2>5, <2>6, <2>7, <2>8
<1> QED
  BY <1>2, <1>3, <1>4, <1>5, <1>6, <1>7 DEF Next

-----------------------------------------------------------------------------
(* What the variables hold.                                                *)

\* Processes, publications, feed, page and tools stay within their types and bounds
\* (LiteServerApp, memosPublisher.ts, App.tsx, dataBackup.ts, migrateCaptureMode.ts).
THEOREM TypesAlwaysOK == Spec => []TypeOK
<1> DEFINE Bounded == AttemptsBounded /\ RootBounded
<1>1. Init => Bounded
  BY BoundedStart, RootBoundedStart
<1>2. LockInv /\ MemosInv /\ ToolsInv /\ BackupInv /\ Bounded /\ [Next]_vars => Bounded'
  BY BoundedStep, RootBoundedStep
<1>3. LockInv /\ MemosInv /\ PageInv /\ StreamInv /\ ToolsInv /\ Bounded => TypeOK
  <2> SUFFICES ASSUME LockInv, MemosInv, PageInv, StreamInv, ToolsInv, Bounded PROVE TypeOK
    OBVIOUS
  <2>1. LifecycleTypeOK
    BY DEF LockInv, Typed, ProcRecord, LifecycleTypeOK, Stages
  <2>2. MemosTypeOK
    <3>1. disk.ledger \in [Session -> 0 .. MaxAttempts]
      BY MemosAssumption DEF MemosInv, LedgerInv, MemosTyped, DiskIsFiled, Filed, Attempt
    <3>2. memory.settings \in Server \cup {None} /\ memory.limit \in Server \cup {None}
      BY DEF MemosInv, LedgerInv, MemosTyped
    <3>3. instance.memos \subseteq Attempt
      BY DEF MemosInv, AttemptsInv, InstanceTyped
    <3> QED
      BY <3>1, <3>2, <3>3 DEF AttemptsBounded, Within, MemosTypeOK
  <2>3. LiveTypeOK
    <3>1. feed.cursor \in 0 .. MaxCursor /\ feed.stream \in 0 .. MaxStreams
      BY LiveAssumption DEF PageInv, FeedRecord, StreamInv, FeedCounted
    <3>2. page.last \in 0 .. MaxCursor
      BY LiveAssumption DEF PageInv, FeedRecord, IsPage, PageRecord, StreamInv, FeedCounted
    <3>3. page.preview.stream \in 0 .. MaxStreams
      BY LiveAssumption DEF PageInv, FeedRecord, StreamInv, FeedCounted, Counted, NoPreview
    <3>4. \A i \in Refreshes : refresh[i].at \in {"idle", "asked", "answered"}
      BY DEF PageInv, Answered
    <3> QED
      BY <3>1, <3>2, <3>3, <3>4 DEF LiveTypeOK
  <2>4. ToolsTypeOK
    BY DEF ToolsInv, RootInv, RootBounded, ToolsTypeOK
  <2> QED
    BY <2>1, <2>2, <2>3, <2>4 DEF TypeOK
<1> HIDE DEF Bounded
<1>4. Init => LockInv /\ ToolsInv /\ BackupInv
  BY ProcessesInit, ToolsStart, BackupStart
<1>5. LockInv /\ ToolsInv /\ BackupInv /\ [Next]_vars => (LockInv /\ ToolsInv /\ BackupInv)'
  BY LockStepOrNone, ToolsStep, BackupStepOrNone
<1> QED
  BY <1>1, <1>2, <1>3, <1>4, <1>5, LockAndPublications, StreamHolds, PTL DEF Spec

-----------------------------------------------------------------------------
(* A close is never stuck.                                                 *)

\* What waits in the queue of the ledger waits once, and is still under way.
InTurn ==
  /\ \A i \in DOMAIN memory.queue : publish[memory.queue[i]].at \in {"recording", "writing"}
  /\ \A i, j \in DOMAIN memory.queue : memory.queue[i] = memory.queue[j] => i = j

\* What a close waits for belongs to the workload that answers it.
OnlyWork ==
  /\ workload # "memos" => Publishing = {} /\ memory.test = None
  /\ root.owed => workload = "tools"

LEMMA TurnsStart == Init => InTurn /\ OnlyWork
<1> SUFFICES ASSUME Init PROVE InTurn /\ OnlyWork
  OBVIOUS
<1>1. memory.queue = <<>> /\ memory.test = None /\ \A a \in Attempt : publish[a].at = "unused"
  BY DEF Init, MemosInit, Unused
<1>2. ~root.owed
  BY DEF Init, ToolsInit
<1> QED
  BY <1>1, <1>2 DEF InTurn, OnlyWork, Publishing, Active, Ended

\* A step of a publication: it joins the queue once, and leaves it as the head.
LEMMA PublishKeepsTurns ==
  ASSUME MemosInv, InTurn, NEW a \in Attempt, NEW closing \in BOOLEAN, PublishStep(a, closing)
  PROVE  InTurn'
<1> DEFINE q == memory.queue
<1>0. MemosTyped /\ Attempts /\ AttemptsInv /\ q \in Seq(Attempt)
  BY DEF MemosInv, AttemptsInv, LedgerInv, MemosTyped
<1>1. PICK r : Turns(a, r)
  BY <1>0, AttemptTurns
<1>2. publish'[a] = r /\ \A b \in Attempt \ {a} : publish'[b] = publish[b]
  BY <1>0, <1>1 DEF Turns, Attempts
<1>3. \A i \in DOMAIN q : q[i] \in Attempt
  BY <1>0
<1>4. CASE ~Record(a) /\ ~LedgerChanges(a) /\ ~LedgerWritten(a)
  <2>1. memory'.queue = q /\ publish[a].at \notin {"recording", "writing"}
    BY <1>0, <1>4, Writers
  <2>2. \A i \in DOMAIN q : q[i] # a
    BY <2>1 DEF InTurn
  <2> QED
    BY <1>2, <1>3, <2>1, <2>2 DEF InTurn
<1>5. CASE Record(a)
  <2>1. memory' = [memory EXCEPT !.queue = Append(q, a)] /\ publish[a].at = "record"
        /\ publish' = [publish EXCEPT ![a] = [publish[a] EXCEPT !.at = "recording"]]
    BY <1>5 DEF Record, At, Put
  <2>2. memory'.queue = Append(q, a)
    BY <1>0, <2>1 DEF MemosTyped
  <2>3. publish'[a].at = "recording"
    BY <1>0, <2>1 DEF Attempts, AttemptRecord
  <2>4. \A i \in DOMAIN q : q[i] # a
    BY <2>1 DEF InTurn
  <2> DEFINE longer == Append(q, a)
             n == Len(q)
  <2>5. n \in Nat /\ DOMAIN q = 1 .. n /\ DOMAIN longer = 1 .. (n + 1) /\ longer[n + 1] = a
        /\ \A i \in 1 .. n : longer[i] = q[i]
    BY <1>0
  <2> HIDE DEF longer, n, q
  <2>6. ASSUME NEW i \in DOMAIN longer PROVE publish'[longer[i]].at \in {"recording", "writing"}
    <3>1. CASE i = n + 1
      BY <2>3, <2>5, <3>1
    <3>2. CASE i \in 1 .. n
      BY <1>2, <1>3, <2>4, <2>5, <3>2 DEF InTurn, q
    <3> QED
      BY <2>5, <3>1, <3>2
  <2>7. ASSUME NEW i \in DOMAIN longer, NEW j \in DOMAIN longer, longer[i] = longer[j] PROVE i = j
    <3>1. CASE i \in 1 .. n /\ j \in 1 .. n
      BY <2>5, <2>7, <3>1 DEF InTurn, q
    <3>2. CASE i = n + 1 \/ j = n + 1
      BY <2>4, <2>5, <2>7, <3>2
    <3> QED
      BY <2>5, <3>1, <3>2
  <2>8. memory'.queue = longer
    BY <2>2 DEF longer
  <2> QED
    BY <2>6, <2>7, <2>8 DEF InTurn
<1>6. CASE LedgerChanges(a)
  <2>1. memory' = [memory EXCEPT !.ledger = LedgerWith(a)]
        /\ publish' = [publish EXCEPT ![a] = [publish[a] EXCEPT !.at = "writing"]]
    BY <1>6 DEF LedgerChanges, Put
  <2>2. memory'.queue = q
    BY <1>0, <2>1 DEF MemosTyped
  <2>3. publish'[a].at = "writing"
    BY <1>0, <2>1 DEF Attempts, AttemptRecord
  <2> QED
    BY <1>2, <1>3, <2>2, <2>3 DEF InTurn
<1>7. CASE LedgerWritten(a)
  <2>1. memory' = [memory EXCEPT !.inFlight = @ \ {publish[a].session}, !.queue = Tail(@)] /\ publish[a].at = "writing"
    BY <1>7 DEF LedgerWritten, At
  <2>2. memory'.queue = Tail(q)
    BY <1>0, <2>1 DEF MemosTyped
  <2>3. Queued(a)
    BY DEF MemosInv, LedgerInv
  <2>4. q # <<>> /\ a = Head(q)
    BY <2>1, <2>3 DEF Queued
  <2> DEFINE rest == Tail(q)
             n == Len(q)
  <2>5. n \in Nat /\ DOMAIN q = 1 .. n /\ n # 0 /\ q[1] = a /\ DOMAIN rest = 1 .. (n - 1)
        /\ \A i \in 1 .. (n - 1) : rest[i] = q[i + 1]
    BY <1>0, <2>4
  <2> HIDE DEF rest, n, q
  <2>6. ASSUME NEW i \in DOMAIN rest PROVE publish'[rest[i]].at \in {"recording", "writing"}
    <3>1. i + 1 \in DOMAIN q /\ i + 1 # 1 /\ 1 \in DOMAIN q /\ rest[i] = q[i + 1]
      BY <2>5
    <3>2. q[i + 1] # a
      BY <2>5, <3>1 DEF InTurn, q
    <3> QED
      BY <1>2, <1>3, <3>1, <3>2 DEF InTurn, q
  <2>7. ASSUME NEW i \in DOMAIN rest, NEW j \in DOMAIN rest, rest[i] = rest[j] PROVE i = j
    <3>1. i + 1 \in DOMAIN q /\ j + 1 \in DOMAIN q /\ q[i + 1] = q[j + 1]
      BY <2>5, <2>7
    <3>2. i + 1 = j + 1
      BY <3>1 DEF InTurn, q
    <3> QED
      BY <2>5, <3>2
  <2>8. memory'.queue = rest
    BY <2>2 DEF rest
  <2> QED
    BY <2>6, <2>7, <2>8 DEF InTurn
<1> QED
  BY <1>4, <1>5, <1>6, <1>7

LEMMA TurnsStep ==
  ASSUME MemosInv, InTurn, [Next]_vars
  PROVE  InTurn'
<1>0. MemosTyped /\ Attempts /\ \A i \in DOMAIN memory.queue : memory.queue[i] \in Attempt
  BY DEF MemosInv, AttemptsInv, LedgerInv, MemosTyped
<1>1. ASSUME UNCHANGED <<memory, publish>> PROVE InTurn'
  BY <1>1 DEF InTurn
<1>2. ASSUME memory'.queue = memory.queue, UNCHANGED publish PROVE InTurn'
  BY <1>2 DEF InTurn
<1>3. CASE UNCHANGED vars
  BY <1>1, <1>3 DEF vars, memosVars
<1>4. ASSUME NEW p \in Process, LifeStep(p) PROVE InTurn'
  <2>1. CASE MemosLoaded \/ MemosLost
    <3> DEFINE nothing == <<>>
    <3>1. CASE MemosLoaded
      BY <3>1 DEF MemosLoaded, InTurn
    <3>2. CASE MemosLost
      <4>1. memory' = [memory EXCEPT !.inFlight = {}, !.queue = nothing, !.test = None]
        BY <3>2 DEF MemosLost
      <4> HIDE DEF nothing
      <4>2. memory'.queue = nothing
        BY <1>0, <4>1 DEF MemosTyped
      <4> QED
        BY <4>2 DEF InTurn, nothing
    <3> QED
      BY <2>1, <3>1, <3>2
  <2>2. CASE UNCHANGED memosVars
    BY <1>1, <2>2 DEF memosVars
  <2> QED
    BY <1>1, <1>4, <2>1, <2>2
      DEF LifeStep, Starts, Locks, Ready, Dies, Drained, Settles, Closed, Idles, memosVars
<1>5. ASSUME NEW p \in Process, Capture(p) PROVE InTurn'
  <2>1. UNCHANGED memosVars
    BY <1>5 DEF Capture, CaptureBegins, Recorded, Written, Stopped, Finishes, Idles
  <2> QED
    BY <1>1, <2>1 DEF memosVars
<1>6. ASSUME NEW p \in Process, MemosRequest(p) PROVE InTurn'
  <2>1. CASE (\E srv \in Server : UpdateSettings(srv)) \/ TestConnection
    <3>1. UNCHANGED publish /\ memory'.queue = memory.queue
      BY <1>0, <2>1 DEF UpdateSettings, TestConnection, MemosTyped
    <3> QED
      BY <1>2, <3>1
  <2>2. ASSUME NEW a \in Attempt, NEW s \in Session, BeginPublish(a, s, p) PROVE InTurn'
    <3>1. publish[a].at = "unused" /\ memory' = [memory EXCEPT !.inFlight = @ \cup {s}]
          /\ \E r : publish' = [publish EXCEPT ![a] = r]
      BY <2>2 DEF BeginPublish, At, Put
    <3>2. memory'.queue = memory.queue /\ \A b \in Attempt \ {a} : publish'[b] = publish[b]
      BY <1>0, <3>1 DEF MemosTyped, Attempts
    <3>3. \A i \in DOMAIN memory.queue : memory.queue[i] # a
      BY <3>1 DEF InTurn
    <3> QED
      BY <1>0, <3>2, <3>3 DEF InTurn
  <2> QED
    BY <1>6, <2>1, <2>2 DEF MemosRequest
<1>7. ASSUME NEW p \in Process, MemosAnswer(p) PROVE InTurn'
  <2>1. CASE ConnectionTested
    <3>1. UNCHANGED publish /\ memory'.queue = memory.queue
      BY <1>0, <2>1 DEF ConnectionTested, MemosTyped
    <3> QED
      BY <1>2, <3>1
  <2>2. ASSUME NEW a \in Attempt, PublishStep(a, Life(p) = "closing") PROVE InTurn'
    <3> DEFINE closing == Life(p) = "closing"
    <3>1. closing \in BOOLEAN /\ PublishStep(a, closing)
      BY <2>2
    <3> HIDE DEF closing
    <3> QED
      BY <3>1, PublishKeepsTurns
  <2> QED
    BY <1>7, <2>1, <2>2 DEF MemosAnswer
<1>8. ASSUME NEW p \in Process,
             Feeds(p) \/ Broadcasts(p) \/ Connects(p) \/ Answers(p) \/ Appends(p)
      PROVE  InTurn'
  <2>1. UNCHANGED memosVars
    BY <1>8 DEF Feeds, Broadcasts, Connects, Answers, Appends, LiveStep, ToolStep
  <2> QED
    BY <1>1, <2>1 DEF memosVars
<1>9. CASE Receives \/ Applies \/ Drops \/ Disconnects \/ Operates
  <2>1. UNCHANGED memosVars
    BY <1>9 DEF Receives, Applies, Drops, Disconnects, Operates, LiveStep, ToolStep
  <2> QED
    BY <1>1, <2>1 DEF memosVars
<1> QED
  BY <1>3, <1>4, <1>5, <1>6, <1>7, <1>8, <1>9 DEF Next

LEMMA OnlyWorkStep ==
  ASSUME MemosTyped, Attempts, Shaped, OnlyWork, [Next]_vars
  PROVE  OnlyWork'
<1>1. ASSUME UNCHANGED <<memosVars, toolVars, workload>> PROVE OnlyWork'
  BY <1>1 DEF memosVars, toolVars, OnlyWork, Publishing, Active
<1>2. CASE UNCHANGED vars
  BY <1>1, <1>2 DEF vars
<1>3. ASSUME NEW p \in Process, LifeStep(p) PROVE OnlyWork'
  <2>1. CASE Ready(p)
    <3>1. memory'.test = None /\ UNCHANGED <<publish, workload>>
      BY <2>1 DEF Ready, MemosLoaded
    <3>2. root'.owed = root.owed
      BY <2>1 DEF Ready, RootOpened, Shaped
    <3> QED
      BY <3>1, <3>2 DEF OnlyWork, Publishing, Active
  <2>2. CASE MemosLost /\ RootLeft /\ UNCHANGED workload
    <3>1. memory'.test = None
      BY <2>2 DEF MemosLost, MemosTyped
    <3>2. ~root'.owed
      BY <2>2 DEF RootLeft, Shaped
    <3>3. ASSUME NEW a \in Attempt PROVE publish'[a].at \in Ended
      <4>1. publish'[a] = IF Active(a) THEN [Unused EXCEPT !.at = "lost"] ELSE publish[a]
        BY <2>2 DEF MemosLost
      <4>2. [Unused EXCEPT !.at = "lost"].at = "lost"
        BY DEF Unused
      <4> QED
        BY <4>1, <4>2 DEF Active, Ended
    <3> QED
      BY <3>1, <3>2, <3>3 DEF OnlyWork, Publishing, Active
  <2>3. CASE RootTaken /\ UNCHANGED <<memosVars, workload>>
    BY <2>3 DEF RootTaken, memosVars, OnlyWork, Publishing, Active
  <2>4. CASE UNCHANGED <<memory, publish, root, workload>>
    BY <2>4 DEF OnlyWork, Publishing, Active
  <2> QED
    BY <1>3, <2>1, <2>2, <2>3, <2>4
      DEF LifeStep, Starts, Locks, Dies, Drained, Settles, Closed, Idles, memosVars, toolVars
<1>4. ASSUME NEW p \in Process, Capture(p) PROVE OnlyWork'
  BY <1>1, <1>4 DEF Capture, CaptureBegins, Recorded, Written, Stopped, Finishes, Idles
<1>5. ASSUME NEW p \in Process, MemosRequest(p) \/ MemosAnswer(p) PROVE OnlyWork'
  <2>1. workload = "memos" /\ UNCHANGED <<toolVars, workload>>
    BY <1>5 DEF MemosRequest, MemosAnswer
  <2> QED
    BY <2>1 DEF toolVars, OnlyWork
<1>6. ASSUME NEW p \in Process, Feeds(p) \/ Broadcasts(p) \/ Connects(p) \/ Answers(p) PROVE OnlyWork'
  BY <1>1, <1>6 DEF Feeds, Broadcasts, Connects, Answers, LiveStep
<1>7. ASSUME (\E p \in Process : Appends(p)) \/ Operates PROVE OnlyWork'
  <2>1. workload = "tools" /\ UNCHANGED <<memosVars, workload>>
    BY <1>7 DEF Appends, Operates, ToolStep
  <2> QED
    BY <2>1 DEF memosVars, OnlyWork, Publishing, Active
<1>8. CASE Receives \/ Applies \/ Drops \/ Disconnects
  BY <1>1, <1>8 DEF Receives, Applies, Drops, Disconnects, LiveStep
<1> QED
  BY <1>2, <1>3, <1>4, <1>5, <1>6, <1>7, <1>8 DEF Next

\* While something is published the process that does it may go on: its publication,
\* or the one whose turn it is to write the ledger.
LEMMA PublicationGoesOn ==
  ASSUME LockInv, MemosInv, InTurn, OnlyWork, NEW p \in Process, Life(p) = "closing", Publishing # {}
  PROVE  MemosMayAnswer(p)
<1>1. workload = "memos"
  BY DEF OnlyWork
<1>2. ASSUME NEW b \in Publishing PROVE publish[b].by = p
  <2>1. publish[b].by \in Process /\ Life(publish[b].by) \in Owning
    BY DEF Publishing, Active, MemosInv, LedgerInv, PublishersServe, Admitting, Owning
  <2> QED
    BY <2>1 DEF LockInv, OwnersHold, Owning
<1>3. PICK a \in Publishing : TRUE
  OBVIOUS
<1>4. CASE publish[a].at # "recording"
  BY <1>1, <1>2, <1>4 DEF MemosMayAnswer, At
<1>5. CASE publish[a].at = "recording"
  <2>1. a \in Attempt /\ memory.queue \in Seq(Attempt)
    BY DEF Publishing, MemosInv, LedgerInv, MemosTyped
  <2>2. PICK i \in DOMAIN memory.queue : memory.queue[i] = a
    BY <1>5, <2>1 DEF MemosInv, LedgerInv, Queued
  <2> DEFINE b == Head(memory.queue)
  <2>3. 1 \in DOMAIN memory.queue /\ b = memory.queue[1] /\ b \in Attempt
    BY <2>1, <2>2
  <2>4. b \in Publishing
    BY <2>3 DEF InTurn, Publishing, Active, Ended
  <2> QED
    BY <1>1, <1>2, <2>4 DEF MemosMayAnswer, Turn
<1> QED
  BY <1>4, <1>5

\* A close that nothing it waits for can move has nothing left to wait for: the stages
\* of closeReadyApp, the queue of the ledger and the work they wait for never form a
\* cycle, whatever fails.
THEOREM CloseNeverStuck == Spec => []CloseIsNeverStuck
<1>1. LockInv /\ MemosInv /\ StreamInv /\ InTurn /\ OnlyWork => CloseIsNeverStuck
  <2> SUFFICES ASSUME LockInv, MemosInv, StreamInv, InTurn, OnlyWork, NEW p \in Process, Life(p) = "closing",
                      ~MemosMayAnswer(p), ~EventMaySettle, proc[p].writer = "none", ~MayStop(p),
                      ~MayBeRecorded(p), ~\E k \in WorkKind : MayEnd(p, k)
               PROVE  StageMayEnd(p)
    BY DEF CloseIsNeverStuck
  <2>1. proc[p] \in ProcRecord /\ Orderly(proc[p]) /\ Life(p) = proc[p].life
    BY RecordOf
  <2>2. /\ ~Busy(p, "request") /\ ~Busy(p, "transition") /\ ~Busy(p, "stop")
        /\ ~Busy(p, "translation") /\ ~Busy(p, "sync") /\ ~Busy(p, "exit")
    BY DEF MayEnd, MayBeRecorded, WorkKind
  <2>3. proc[p].stage = "adapters" => ~Busy(p, "runtime")
    BY DEF MayStop, Awaited
  <2>4. StageOver(p, proc[p].stage)
    BY <2>2, <2>3 DEF StageOver
  <2>5. NothingPublished
    BY PublicationGoesOn DEF NothingPublished, MemosMayAnswer, OnlyWork
  <2>6. EventsSettled
    BY DEF EventMaySettle, EventsSettled, StreamInv, FeedCounted, OnlyWork
  <2> QED
    BY <2>4, <2>5, <2>6 DEF StageMayEnd
<1>2. Init => InTurn /\ OnlyWork
  BY TurnsStart
<1>3. LockInv /\ MemosInv /\ ToolsInv /\ InTurn /\ OnlyWork /\ [Next]_vars => (InTurn /\ OnlyWork)'
  BY TurnsStep, OnlyWorkStep DEF MemosInv, LedgerInv, AttemptsInv, ToolsInv
<1> QED
  BY <1>1, <1>2, <1>3, LockAndPublications, StreamHolds, ToolsHold, PTL DEF Spec

=============================================================================
