------------------------ MODULE UploadQueue_proofs ------------------------
(***************************************************************************)
(* Proofs about UploadQueue, for every set of pages, any number of chunks, *)
(* attempts and faults: its types, that a persisted chunk is a job or is   *)
(* stored, that the record of a recording outlives the session, that the   *)
(* uploads of a recording do not overtake, and, if one page records, that  *)
(* a tail declared durable is complete.                                    *)
(***************************************************************************)
EXTENDS UploadQueue, SequenceTheorems, TLAPS

ServerType ==
  [phase : {"open", "stopping", "ended"},
   disp : {"none", "not-recording", "durable", "loss-confirmed"},
   stored : SUBSET Chunk]

\* What a page knows of its job, of the record it will write and of the end of
\* the session agrees with the service sv.
Agrees(pg, sv) ==
  /\ pg.drain \in {"sent", "delete", "count"} => pg.job \in Chunk /\ pg.tries < MaxAttempts
  /\ pg.drain = "delete" => pg.job \in sv.stored
  /\ pg.ui = "final-put" => pg.copy.phase \in {"tail_durable", "loss_confirmed"}
  /\ pg.ui = "delete" => sv.phase = "ended"
  /\ pg.ack # "none" => sv.phase = "ended"

Agreement == \A p \in Page : Agrees(page[p], server)

\* The inductive invariant.
IInv == TypeOK /\ Agreement

\* Its part about the pages.
Kept == page \in [Page -> PageState] /\ Agreement

\* The service forgets no chunk and does not reopen the session.
ServerGrows ==
  /\ server' \in ServerType
  /\ server.stored \subseteq server'.stored
  /\ server.phase = "ended" => server'.phase = "ended"

LEMMA ServerIdle == TypeOK /\ UNCHANGED server => ServerGrows
BY DEF TypeOK, ServerGrows, ServerType

-----------------------------------------------------------------------------
(* A step of one page.                                                     *)

\* What becomes of page p is well typed and agrees with the service, whose
\* growth disturbs no other page.
LEMMA PageStep ==
  ASSUME IInv, ServerGrows, NEW p \in Page, NEW r \in PageState, Agrees(r, server'),
         page' = [page EXCEPT ![p] = r]
  PROVE Kept'
<1>1. page' \in [Page -> PageState] BY DEF IInv, TypeOK
<1>2. ASSUME NEW q \in Page PROVE Agrees(page'[q], server')
  <2>1. CASE q = p BY <2>1 DEF IInv, TypeOK
  <2>2. CASE q # p
    <3>1. page'[q] = page[q] BY <2>2 DEF IInv, TypeOK
    <3>2. Agrees(page[q], server) BY DEF IInv, Agreement
    <3> QED BY <3>1, <3>2 DEF Agrees, ServerGrows
  <2> QED BY <2>1, <2>2
<1> QED BY <1>1, <1>2 DEF Agreement, Kept

LEMMA PagesIdle ==
  ASSUME IInv, ServerGrows, UNCHANGED page
  PROVE Kept'
BY DEF IInv, TypeOK, Agreement, Agrees, ServerGrows, Kept

\* Starting a wanted drain keeps a page well typed and in agreement.
LEMMA DrainIfWantedKeeps ==
  ASSUME NEW pg \in PageState, NEW sv \in ServerType, Agrees(pg, sv)
  PROVE DrainIfWanted(pg) \in PageState /\ Agrees(DrainIfWanted(pg), sv)
<1> DEFINE ui == IF pg.ui = "final-drain" THEN "final-wait" ELSE pg.ui
<1> DEFINE retry == IF pg.retry /\ pg.reset = {} THEN FALSE ELSE pg.retry
<1> DEFINE ack == IF pg.ack = "drain" THEN "wait" ELSE pg.ack
<1> DEFINE r == [pg EXCEPT !.drain = "list", !.ui = ui, !.retry = retry, !.ack = ack]
<1>0. ui \in UiState /\ retry \in BOOLEAN /\ ack \in {"none", "drain", "wait", "check", "delete"}
  BY DEF PageState, UiState
<1>3. DrainIfWanted(pg) \in {pg, r} BY DEF DrainIfWanted
<1>4. r \in PageState
  <2> HIDE DEF ui, retry, ack
  <2> QED BY <1>0 DEF PageState
<1>1. DrainIfWanted(pg) \in PageState BY <1>3, <1>4
<1>2. Agrees(DrainIfWanted(pg), sv) BY DEF DrainIfWanted, PageState, Agrees
<1> QED BY <1>1, <1>2

LEMMA RetriedKeeps ==
  ASSUME NEW pg \in PageState, NEW sv \in ServerType, Agrees(pg, sv), jobs \subseteq Chunk
  PROVE Retried(pg) \in PageState /\ Agrees(Retried(pg), sv)
<1> DEFINE r == [pg EXCEPT !.retry = TRUE, !.reset = @ \cup ToReset]
<1>1. r \in PageState BY DEF PageState, ToReset
<1>2. Agrees(r, sv) BY DEF PageState, Agrees
<1> QED BY <1>1, <1>2, DrainIfWantedKeeps DEF Retried

\* The end of a drain keeps them so.
LEMMA DrainEndsKeeps ==
  ASSUME IInv, ServerGrows, NEW p \in Page, NEW thrown \in BOOLEAN, DrainEnds(p, thrown)
  PROVE Kept'
<1> DEFINE pg == page[p]
<1> DEFINE woken == [pg EXCEPT
        !.drain = "idle", !.job = <<>>, !.tries = 0,
        !.ui = CASE thrown /\ @ \in {"final-drain", "final-wait"} -> "idle"
                 [] ~thrown /\ @ = "final-wait" -> "final-check"
                 [] OTHER -> @,
        !.copy = IF thrown /\ pg.ui \in {"final-drain", "final-wait"} THEN NoRecord ELSE @,
        !.retry = IF thrown /\ pg.reset = {} THEN FALSE ELSE @,
        !.ack = CASE thrown /\ @ \in {"drain", "wait"} -> "none"
                  [] ~thrown /\ @ = "wait" -> "check"
                  [] OTHER -> @]
<1>1. pg \in PageState /\ Agrees(pg, server) BY DEF IInv, TypeOK, Agreement
<1>2. MaxAttempts \in Nat BY UploadAssumption
<1>3. woken \in PageState
  <2> DEFINE ui == CASE thrown /\ pg.ui \in {"final-drain", "final-wait"} -> "idle"
                     [] ~thrown /\ pg.ui = "final-wait" -> "final-check"
                     [] OTHER -> pg.ui
  <2> DEFINE copy == IF thrown /\ pg.ui \in {"final-drain", "final-wait"} THEN NoRecord ELSE pg.copy
  <2> DEFINE retry == IF thrown /\ pg.reset = {} THEN FALSE ELSE pg.retry
  <2> DEFINE ack == CASE thrown /\ pg.ack \in {"drain", "wait"} -> "none"
                      [] ~thrown /\ pg.ack = "wait" -> "check"
                      [] OTHER -> pg.ack
  <2>1. ui \in UiState BY <1>1 DEF PageState, UiState
  <2>2. copy \in Record BY <1>1 DEF PageState, Record, NoRecord
  <2>3. retry \in BOOLEAN BY <1>1 DEF PageState
  <2>4. ack \in {"none", "drain", "wait", "check", "delete"} BY <1>1 DEF PageState
  <2>5. woken = [pg EXCEPT !.drain = "idle", !.job = <<>>, !.tries = 0,
                           !.ui = ui, !.copy = copy, !.retry = retry, !.ack = ack]
    OBVIOUS
  <2>6. 0 \in 0..MaxAttempts /\ <<>> \in Chunk \cup {<<>>} BY <1>2
  <2> HIDE DEF pg, ui, copy, retry, ack, woken
  <2> QED BY <1>1, <1>2, <2>1, <2>2, <2>3, <2>4, <2>5, <2>6 DEF PageState
<1>4. Agrees(woken, server') BY <1>1, <1>2 DEF PageState, Agrees, ServerGrows
<1>5. DrainIfWanted(woken) \in PageState /\ Agrees(DrainIfWanted(woken), server')
  BY <1>3, <1>4, DrainIfWantedKeeps DEF ServerGrows
<1>6. page' = [page EXCEPT ![p] = DrainIfWanted(woken)] BY DEF DrainEnds
<1> HIDE DEF woken
<1> QED BY <1>5, <1>6, PageStep

\* An operation goes on at ui with the record copy, where ui owes nothing to
\* Agreement.
LEMMA MoveKeeps ==
  ASSUME IInv, ServerGrows, NEW p \in Page, NEW ui \in UiState \ {"final-put", "delete"},
         NEW copy \in Record, page' = [page EXCEPT ![p].ui = ui, ![p].copy = copy]
  PROVE Kept'
<1> DEFINE r == [page[p] EXCEPT !.ui = ui, !.copy = copy]
<1>1. page[p] \in PageState /\ Agrees(page[p], server) BY DEF IInv, TypeOK, Agreement
<1>2. r \in PageState BY <1>1 DEF PageState
<1>3. Agrees(r, server') BY <1>1 DEF PageState, Agrees, ServerGrows
<1>4. page' = [page EXCEPT ![p] = r] BY DEF IInv, TypeOK
<1> HIDE DEF r
<1> QED BY <1>2, <1>3, <1>4, PageStep

-----------------------------------------------------------------------------
(* The service.                                                            *)

LEMMA ServedGrows ==
  ASSUME IInv, NEW c \in Chunk, Served(c)
  PROVE ServerGrows
BY DEF IInv, TypeOK, Served, ServerGrows, ServerType

LEMMA EndsGrows ==
  ASSUME IInv, NEW disp \in {"none", "not-recording", "durable", "loss-confirmed"},
         NEW phase \in {"stopping", "ended"}, Ends(disp, phase)
  PROVE ServerGrows
<1>1. server \in ServerType BY DEF IInv, TypeOK, ServerType
<1> QED BY <1>1 DEF Ends, ServerGrows, ServerType

LEMMA DispositionType ==
  ASSUME NEW r \in Record
  PROVE Disposition(r) \in {"none", "not-recording", "durable", "loss-confirmed"}
BY DEF Disposition, Record

LEMMA ServerStep == IInv /\ [Next]_vars => ServerGrows
<1> SUFFICES ASSUME IInv, [Next]_vars PROVE ServerGrows
  OBVIOUS
<1>1. ASSUME UNCHANGED server PROVE ServerGrows BY <1>1, ServerIdle DEF IInv
<1>2. ASSUME NEW p \in Page, Serve(p) PROVE ServerGrows
  <2>1. Agrees(page[p], server) BY DEF IInv, Agreement
  <2> QED BY <1>2, <2>1, ServedGrows DEF Serve, Draining, Agrees
<1>3. ASSUME NEW c \in Chunk, ServeLate(c) PROVE ServerGrows
  BY <1>3, ServedGrows DEF ServeLate
<1>4. ASSUME NEW p \in Page, EndSucceeds(p) \/ EndFails(p) PROVE ServerGrows
  <2>1. page[p].copy \in Record BY DEF IInv, TypeOK, PageState
  <2> QED BY <1>1, <1>4, <2>1, DispositionType, EndsGrows DEF EndSucceeds, EndFails
<1>5. CASE OthersEnd BY <1>5, EndsGrows DEF OthersEnd
<1>6. ASSUME NEW p \in Page, Loading(p) PROVE UNCHANGED server
  BY <1>6 DEF Loading, Load, InitializeReads, InitializePuts, Unload, RecordWriteFails, OtherWriteFails, Only, world
<1>7. ASSUME NEW p \in Page, Recording(p) PROVE UNCHANGED server
  BY <1>7 DEF Recording, Begin, BeginPuts, Deliver, WriteReads, WritePuts, WriteFails, RecorderDies,
     UnexpectedReads, UnexpectedPuts, Only, world
<1>8. ASSUME NEW p \in Page, Stopping(p) PROVE UNCHANGED server
  BY <1>8 DEF Stopping, Stop, StopPuts, Flush, FlushFails, TailReads, TailPuts, UncertainPuts,
     StopFailedReads, StopFailedPuts, Only, world
<1>9. ASSUME NEW p \in Page, Uploading(p), ~Serve(p) PROVE UNCHANGED server
  BY <1>9 DEF Uploading, DrainLists, UploadFails, DeleteJob, CountFailure, DrainWriteFails, Retry, RetryPuts, Only, world
<1>10. ASSUME NEW p \in Page, Ending(p), ~EndSucceeds(p), ~EndFails(p) PROVE UNCHANGED server
  BY <1>10 DEF Ending, Confirm, ConfirmPuts, End, FinalChecks, FinalPuts, DeleteRecord, HearEnded, AckChecks,
     AckDeletes, Only, world
<1> QED BY <1>1, <1>2, <1>3, <1>4, <1>5, <1>6, <1>7, <1>8, <1>9, <1>10 DEF Next, vars

-----------------------------------------------------------------------------
(* The pages.                                                              *)

\* A new chunk joins the queue of writes of a well-typed page.
LEMMA DeliveredKeeps ==
  ASSUME IInv, ServerGrows, NEW p \in Page, NEW pg \in PageState, Agrees(pg, server'), Delivered(p, pg)
  PROVE Kept'
<1> DEFINE w == [n |-> pg.next, at |-> "read"]
<1> DEFINE r == [pg EXCEPT !.next = @ + 1, !.writes = Append(@, w)]
<1>1. CASE page' = [page EXCEPT ![p] = pg] BY <1>1, PageStep
<1>2. CASE pg.next <= MaxChunks /\ page' = [page EXCEPT ![p] = r]
  <2>0. MaxChunks \in Nat BY UploadAssumption
  <2>1. pg.next + 1 \in 1..(MaxChunks + 1) /\ w \in Write BY <1>2, <2>0 DEF PageState, Write
  <2>2. Append(pg.writes, w) \in Seq(Write) BY <2>1, AppendProperties DEF PageState
  <2>3. r \in PageState
    <3> HIDE DEF w
    <3> QED BY <2>1, <2>2 DEF PageState
  <2>4. Agrees(r, server') BY DEF PageState, Agrees
  <2> HIDE DEF r
  <2> QED BY <1>2, <2>3, <2>4, PageStep
<1> QED BY <1>1, <1>2 DEF Delivered

LEMMA LoadingKeeps ==
  ASSUME IInv, ServerGrows, NEW p \in Page, Loading(p)
  PROVE Kept'
<1> DEFINE pg == page[p]
<1>0. pg \in PageState /\ Agrees(pg, server) BY DEF IInv, TypeOK, Agreement
<1>a. page \in [Page -> PageState] /\ record \in Record /\ MaxAttempts \in Nat
  BY UploadAssumption DEF IInv, TypeOK
<1>b. <<>> \in Seq(Write) /\ {} \in SUBSET Chunk OBVIOUS
<1>c. NoRecord \in Record BY DEF NoRecord, Record
<1>1. CASE Load(p) \/ Unload(p)
  <2> DEFINE q == [Blank EXCEPT !.next = pg.next]
  <2> DEFINE r == [Blank EXCEPT !.up = TRUE, !.ui = "initialize", !.next = pg.next]
  <2>1. Blank \in PageState
    <3>1. 1 \in 1..(MaxChunks + 1) /\ 0 \in 0..MaxAttempts /\ <<>> \in Chunk \cup {<<>>} BY UploadAssumption
    <3> QED BY <3>1, <1>b, <1>c DEF Blank, PageState, UiState
  <2>2. q \in PageState /\ r \in PageState BY <1>0, <2>1 DEF PageState, UiState
  <2>3. Agrees(Blank, server') BY DEF Agrees, Blank
  <2>4. Agrees(q, server') /\ Agrees(r, server') BY <2>1, <2>3 DEF Agrees, PageState
  <2>5. page' = [page EXCEPT ![p] = q] \/ page' = [page EXCEPT ![p] = r] BY <1>1 DEF Load, Unload
  <2> HIDE DEF q, r
  <2> QED BY <2>2, <2>4, <2>5, PageStep
<1>2. ASSUME page' = Initialized(p) PROVE Kept'
  <2> DEFINE d == IF jobs = {} THEN "idle" ELSE "list"
  <2> DEFINE r == [pg EXCEPT !.ui = "idle", !.copy = NoRecord, !.drain = d]
  <2>1. r \in PageState BY <1>0, <1>c DEF PageState, UiState
  <2>2. Agrees(r, server') BY <1>0 DEF PageState, Agrees, ServerGrows
  <2>3. page' = [page EXCEPT ![p] = r] BY <1>2, <1>a DEF Initialized
  <2> HIDE DEF r
  <2> QED BY <2>1, <2>2, <2>3, PageStep
<1>3. CASE InitializeReads(p)
  <2>1. CASE Read(p, "initialize-put") BY <2>1, <1>a, MoveKeeps DEF Read, UiState
  <2> QED BY <1>2, <1>3, <2>1 DEF InitializeReads
<1>4. CASE InitializePuts(p) BY <1>2, <1>4 DEF InitializePuts
<1>5. CASE RecordWriteFails(p)
  <2>1. Rejected(pg.ui) \in UiState \ {"final-put", "delete"} BY <1>0, <1>5 DEF RecordWriteFails, Rejected, PageState, UiState
  <2>2. pg.copy \in Record BY <1>0 DEF PageState
  <2>3. (IF Rejected(pg.ui) = "idle" THEN NoRecord ELSE pg.copy) \in Record BY <1>c, <2>2
  <2>4. page' = [page EXCEPT ![p].ui = Rejected(pg.ui), ![p].copy = IF Rejected(pg.ui) = "idle" THEN NoRecord ELSE pg.copy]
    BY <1>5, <1>a DEF RecordWriteFails, Goto
  <2> QED BY <2>1, <2>3, <2>4, MoveKeeps
<1>6. CASE OtherWriteFails(p)
  <2> DEFINE r == [pg EXCEPT !.retry = FALSE, !.reset = {}]
  <2> DEFINE q == [pg EXCEPT !.ack = "none"]
  <2>1. r \in PageState /\ q \in PageState BY <1>0 DEF PageState
  <2>2. Agrees(r, server') /\ Agrees(q, server') BY <1>0 DEF PageState, Agrees, ServerGrows
  <2>3. page' = [page EXCEPT ![p] = r] \/ page' = [page EXCEPT ![p] = q] BY <1>6, <1>a DEF OtherWriteFails
  <2> HIDE DEF r, q
  <2> QED BY <2>1, <2>2, <2>3, PageStep
<1> QED BY <1>1, <1>3, <1>4, <1>5, <1>6 DEF Loading

LEMMA RecordingKeeps ==
  ASSUME IInv, ServerGrows, NEW p \in Page, Recording(p)
  PROVE Kept'
<1> DEFINE pg == page[p]
<1>0. pg \in PageState /\ Agrees(pg, server) BY DEF IInv, TypeOK, Agreement
<1>a. page \in [Page -> PageState] /\ record \in Record /\ jobs \subseteq Chunk /\ server' \in ServerType
  BY DEF IInv, TypeOK, ServerGrows
<1>b. Agrees(pg, server') BY <1>0 DEF Agrees, ServerGrows
<1>c. NoRecord \in Record BY DEF NoRecord, Record
<1>1. CASE Begin(p)
  <2> DEFINE r == [pg EXCEPT !.ui = "begin-put", !.failed = FALSE]
  <2>1. r \in PageState /\ Agrees(r, server')
    <3>1. r \in PageState BY <1>0, <1>b DEF PageState, UiState
    <3>2. Agrees(r, server') BY <1>0, <1>b DEF PageState, Agrees
    <3> QED BY <3>1, <3>2
  <2>2. page' = [page EXCEPT ![p] = r] BY <1>1, <1>a DEF Begin
  <2> HIDE DEF r
  <2> QED BY <2>1, <2>2, PageStep
<1>2. CASE BeginPuts(p)
  <2> DEFINE r == [pg EXCEPT !.ui = "idle", !.recorder = "on"]
  <2>1. r \in PageState /\ Agrees(r, server')
    <3>1. r \in PageState BY <1>0, <1>b DEF PageState, UiState
    <3>2. Agrees(r, server') BY <1>0, <1>b DEF PageState, Agrees
    <3> QED BY <3>1, <3>2
  <2>2. page' = [page EXCEPT ![p] = r] BY <1>2, <1>a DEF BeginPuts
  <2> HIDE DEF r
  <2> QED BY <2>1, <2>2, PageStep
<1>3. CASE Deliver(p) BY <1>0, <1>b, <1>3, DeliveredKeeps DEF Deliver
<1>4. CASE WriteReads(p)
  <2> DEFINE put == [pg.writes EXCEPT ![1] = [@ EXCEPT !.at = "put"]]
  <2> DEFINE r == [pg EXCEPT !.writes = put]
  <2> DEFINE q == [pg EXCEPT !.writes = Tail(@), !.failed = TRUE]
  <2>1. pg.writes \in Seq(Write) /\ pg.writes # <<>> BY <1>0, <1>4 DEF PageState, WriteReads
  <2>2. 1 \in 1..Len(pg.writes) BY <2>1
  <2>3. pg.writes[1] \in Write BY <2>1, <2>2, ElementOfSeq
  <2>4. [pg.writes[1] EXCEPT !.at = "put"] \in Write BY <2>3 DEF Write
  <2>5. put \in Seq(Write) BY <2>1, <2>2, <2>4, ExceptSeq
  <2>6. Tail(pg.writes) \in Seq(Write) BY <2>1
  <2>7. r \in PageState /\ Agrees(r, server')
    <3> HIDE DEF put
    <3> QED BY <1>0, <1>b, <2>5 DEF PageState, Agrees
  <2>8. q \in PageState /\ Agrees(q, server') BY <1>0, <1>b, <2>6 DEF PageState, Agrees
  <2>9. page' = [page EXCEPT ![p] = r] \/ page' = [page EXCEPT ![p] = q] BY <1>4, <1>a DEF WriteReads
  <2> HIDE DEF q, r
  <2> QED BY <2>7, <2>8, <2>9, PageStep
<1>5. CASE WritePuts(p)
  <2> DEFINE d == IF pg.drain = "idle" THEN "list" ELSE pg.drain
  <2> DEFINE r == [pg EXCEPT !.writes = Tail(@), !.drain = d]
  <2>1. pg.writes \in Seq(Write) /\ pg.writes # <<>> BY <1>0, <1>5 DEF PageState, WritePuts
  <2>2. Tail(pg.writes) \in Seq(Write) BY <2>1
  <2>3. r \in PageState /\ Agrees(r, server') BY <1>0, <1>b, <2>2 DEF PageState, Agrees
  <2>4. page' = [page EXCEPT ![p] = r] BY <1>5, <1>a DEF WritePuts
  <2> HIDE DEF r
  <2> QED BY <2>3, <2>4, PageStep
<1>6. CASE WriteFails(p)
  <2> DEFINE r == [pg EXCEPT !.writes = Tail(@), !.failed = TRUE]
  <2>1. pg.writes \in Seq(Write) /\ pg.writes # <<>> BY <1>0, <1>6 DEF PageState, WriteFails
  <2>2. Tail(pg.writes) \in Seq(Write) BY <2>1
  <2>3. r \in PageState /\ Agrees(r, server') BY <1>0, <1>b, <2>2 DEF PageState, Agrees
  <2>4. page' = [page EXCEPT ![p] = r] BY <1>6, <1>a DEF WriteFails
  <2> HIDE DEF r
  <2> QED BY <2>3, <2>4, PageStep
<1>7. CASE RecorderDies(p)
  <2> DEFINE ui == IF pg.ui = "idle" THEN "unexpected" ELSE pg.ui
  <2> DEFINE r == [pg EXCEPT !.recorder = "off", !.ui = ui]
  <2>1. r \in PageState /\ Agrees(r, server')
    <3>1. r \in PageState BY <1>0, <1>b, <1>7 DEF RecorderDies, PageState, UiState
    <3>2. Agrees(r, server') BY <1>0, <1>b, <1>7 DEF RecorderDies, PageState, Agrees
    <3> QED BY <3>1, <3>2
  <2>2. Delivered(p, r) BY <1>7 DEF RecorderDies
  <2> HIDE DEF r
  <2> QED BY <2>1, <2>2, DeliveredKeeps
<1>8. CASE UnexpectedReads(p)
  <2> DEFINE r == [pg EXCEPT !.ui = "idle"]
  <2>1. r \in PageState /\ Agrees(r, server')
    <3>1. r \in PageState BY <1>0, <1>b DEF PageState, UiState
    <3>2. Agrees(r, server') BY <1>0, <1>b DEF PageState, Agrees
    <3> QED BY <3>1, <3>2
  <2>2. Read(p, "unexpected-put") \/ page' = [page EXCEPT ![p] = Retried(r)] BY <1>8, <1>a DEF UnexpectedReads
  <2>3. CASE Read(p, "unexpected-put") BY <2>3, <1>a, MoveKeeps DEF Read, UiState
  <2> HIDE DEF r
  <2>4. Retried(r) \in PageState /\ Agrees(Retried(r), server') BY <2>1, <1>a, RetriedKeeps
  <2> QED BY <2>2, <2>3, <2>4, PageStep
<1>9. CASE UnexpectedPuts(p)
  <2> DEFINE r == [pg EXCEPT !.ui = "idle", !.copy = NoRecord]
  <2>1. r \in PageState /\ Agrees(r, server')
    <3>1. r \in PageState BY <1>0, <1>b, <1>c DEF PageState, UiState
    <3>2. Agrees(r, server') BY <1>0, <1>b, <1>c DEF PageState, Agrees
    <3> QED BY <3>1, <3>2
  <2>2. page' = [page EXCEPT ![p] = Retried(r)] BY <1>9, <1>a DEF UnexpectedPuts
  <2> HIDE DEF r
  <2>3. Retried(r) \in PageState /\ Agrees(Retried(r), server') BY <2>1, <1>a, RetriedKeeps
  <2> QED BY <2>2, <2>3, PageStep
<1> QED BY <1>1, <1>2, <1>3, <1>4, <1>5, <1>6, <1>7, <1>8, <1>9 DEF Recording

LEMMA StoppingKeeps ==
  ASSUME IInv, ServerGrows, NEW p \in Page, Stopping(p)
  PROVE Kept'
<1> DEFINE pg == page[p]
<1>0. pg \in PageState /\ Agrees(pg, server) BY DEF IInv, TypeOK, Agreement
<1>a. page \in [Page -> PageState] /\ record \in Record /\ jobs \subseteq Chunk /\ server' \in ServerType
  BY DEF IInv, TypeOK, ServerGrows
<1>b. Agrees(pg, server') BY <1>0 DEF Agrees, ServerGrows
<1>c. NoRecord \in Record BY DEF NoRecord, Record
<1>1. ASSUME NEW ui \in {"stop-failed", "uncertain-put", "stop-put", "tail-put"}, Read(p, ui) PROVE Kept'
  BY <1>1, <1>a, MoveKeeps DEF Read, UiState
<1>2. ASSUME NEW phase, NEW ui \in {"flush", "stop-failed", "idle"}, Put(p, phase, ui) PROVE Kept'
  BY <1>2, <1>c, MoveKeeps DEF Put, UiState
<1>3. CASE Stop(p) BY <1>1, <1>3 DEF Stop
<1>4. CASE StopPuts(p) BY <1>2, <1>4 DEF StopPuts
<1>5. CASE Flush(p) \/ FlushFails(p)
  <2> DEFINE q == [pg EXCEPT !.recorder = "off", !.ui = "tail"]
  <2> DEFINE r == [pg EXCEPT !.recorder = "off", !.ui = "stop-failed"]
  <2>1. q \in PageState /\ Agrees(q, server')
    <3>1. q \in PageState BY <1>0, <1>b DEF PageState, UiState
    <3>2. Agrees(q, server') BY <1>0, <1>b DEF PageState, Agrees
    <3> QED BY <3>1, <3>2
  <2>2. r \in PageState /\ Agrees(r, server')
    <3>1. r \in PageState BY <1>0, <1>b DEF PageState, UiState
    <3>2. Agrees(r, server') BY <1>0, <1>b DEF PageState, Agrees
    <3> QED BY <3>1, <3>2
  <2>3. Delivered(p, q) \/ Delivered(p, r) BY <1>5 DEF Flush, FlushFails
  <2> HIDE DEF q, r
  <2> QED BY <2>1, <2>2, <2>3, DeliveredKeeps
<1>6. CASE TailReads(p) BY <1>1, <1>6 DEF TailReads
<1>7. CASE TailPuts(p)
  <2> DEFINE r == [pg EXCEPT !.ui = "idle", !.copy = NoRecord]
  <2>1. r \in PageState /\ Agrees(r, server')
    <3>1. r \in PageState BY <1>0, <1>b, <1>c DEF PageState, UiState
    <3>2. Agrees(r, server') BY <1>0, <1>b, <1>c DEF PageState, Agrees
    <3> QED BY <3>1, <3>2
  <2>2. page' = [page EXCEPT ![p] = Retried(r)] BY <1>7, <1>a DEF TailPuts
  <2> HIDE DEF r
  <2>3. Retried(r) \in PageState /\ Agrees(Retried(r), server') BY <2>1, <1>a, RetriedKeeps
  <2> QED BY <2>2, <2>3, PageStep
<1>8. CASE UncertainPuts(p) \/ StopFailedPuts(p) BY <1>2, <1>8 DEF UncertainPuts, StopFailedPuts
<1>9. CASE StopFailedReads(p)
  <2> DEFINE ui == IF record.phase \in {"recording", "stop_requested"} THEN "stop-failed-put" ELSE "idle"
  <2> DEFINE copy == IF record.phase \in {"recording", "stop_requested"} THEN record ELSE NoRecord
  <2> DEFINE r == [pg EXCEPT !.ui = ui, !.copy = copy, !.recorder = "off"]
  <2>1. ui \in {"stop-failed-put", "idle"} /\ copy \in Record BY <1>a, <1>c
  <2>2. page' = [page EXCEPT ![p] = r] BY <1>9, <1>a DEF StopFailedReads
  <2> HIDE DEF ui, copy
  <2>3. r \in PageState /\ Agrees(r, server')
    <3>1. r \in PageState BY <1>0, <1>b, <2>1 DEF PageState, UiState
    <3>2. Agrees(r, server') BY <1>0, <1>b, <2>1 DEF PageState, Agrees
    <3> QED BY <3>1, <3>2
  <2> HIDE DEF r
  <2> QED BY <2>2, <2>3, PageStep
<1> QED BY <1>3, <1>4, <1>5, <1>6, <1>7, <1>8, <1>9 DEF Stopping

LEMMA UploadingKeeps ==
  ASSUME IInv, ServerGrows, NEW p \in Page, Uploading(p)
  PROVE Kept'
<1> DEFINE pg == page[p]
<1>0. pg \in PageState /\ Agrees(pg, server) BY DEF IInv, TypeOK, Agreement
<1>a. page \in [Page -> PageState] /\ record \in Record /\ jobs \subseteq Chunk /\ server' \in ServerType
  BY DEF IInv, TypeOK, ServerGrows
<1>b. Agrees(pg, server') BY <1>0 DEF Agrees, ServerGrows
<1>c. MaxAttempts \in Nat /\ attempts \in [Chunk -> 0..MaxAttempts] BY UploadAssumption DEF IInv, TypeOK
<1>1. CASE DrainLists(p)
  <2>1. CASE DrainEnds(p, FALSE) \/ DrainEnds(p, TRUE) BY <2>1, DrainEndsKeeps
  <2>2. ASSUME NEW c \in jobs, attempts[c] < MaxAttempts,
               page' = [page EXCEPT ![p].drain = "sent", ![p].job = c, ![p].tries = attempts[c]]
        PROVE Kept'
    <3> DEFINE r == [pg EXCEPT !.drain = "sent", !.job = c, !.tries = attempts[c]]
    <3>1. c \in Chunk /\ attempts[c] \in 0..MaxAttempts BY <1>a, <1>c
    <3>2. r \in PageState BY <1>0, <3>1 DEF PageState
    <3>3. Agrees(r, server') BY <1>0, <1>b, <2>2, <3>1 DEF PageState, Agrees
    <3>4. page' = [page EXCEPT ![p] = r] BY <2>2, <1>a
    <3> HIDE DEF r
    <3> QED BY <3>2, <3>3, <3>4, PageStep
  <2>3. ASSUME NEW c \in jobs, ~IsBlocked(c) PROVE attempts[c] < MaxAttempts
    <3>1. attempts[c] \in 0..MaxAttempts BY <1>a, <1>c
    <3> QED BY <1>c, <2>3, <3>1 DEF IsBlocked
  <2> QED BY <1>1, <2>1, <2>2, <2>3 DEF DrainLists, NextJob, FirstJobs
<1>2. CASE Serve(p)
  <2> DEFINE d == IF Takes(pg.job) THEN "delete" ELSE "count"
  <2> DEFINE r == [pg EXCEPT !.drain = d]
  <2>1. page' = [page EXCEPT ![p] = r] BY <1>2, <1>a DEF Serve
  <2>2. d \in {"delete", "count"} OBVIOUS
  <2>3. pg.drain = "sent" /\ (d = "delete" => pg.job \in server'.stored)
    BY <1>2, <1>0 DEF Serve, Draining, Served, IInv, TypeOK
  <2> HIDE DEF d
  <2>4. r \in PageState BY <1>0, <2>2 DEF PageState
  <2>5. Agrees(r, server') BY <1>0, <1>b, <2>2, <2>3 DEF PageState, Agrees
  <2> HIDE DEF r
  <2> QED BY <2>1, <2>4, <2>5, PageStep
<1>3. CASE UploadFails(p)
  <2> DEFINE r == [pg EXCEPT !.drain = "count"]
  <2>1. r \in PageState BY <1>0 DEF PageState
  <2>2. Agrees(r, server') BY <1>0, <1>b, <1>3 DEF PageState, Agrees, UploadFails, Draining
  <2>3. page' = [page EXCEPT ![p] = r] BY <1>3, <1>a DEF UploadFails
  <2> HIDE DEF r
  <2> QED BY <2>1, <2>2, <2>3, PageStep
<1>4. ASSUME page' = [page EXCEPT ![p].drain = "list", ![p].job = <<>>, ![p].tries = 0] PROVE Kept'
  <2> DEFINE r == [pg EXCEPT !.drain = "list", !.job = <<>>, !.tries = 0]
  <2>1. <<>> \in Chunk \cup {<<>>} /\ 0 \in 0..MaxAttempts BY <1>c
  <2>2. r \in PageState BY <1>0, <2>1 DEF PageState
  <2>3. Agrees(r, server') BY <1>0, <1>b DEF PageState, Agrees
  <2>4. page' = [page EXCEPT ![p] = r] BY <1>4, <1>a
  <2> HIDE DEF r
  <2> QED BY <2>2, <2>3, <2>4, PageStep
<1>5. CASE DeleteJob(p) BY <1>4, <1>5 DEF DeleteJob
<1>6. CASE CountFailure(p) BY <1>4, <1>6, DrainEndsKeeps DEF CountFailure
<1>7. CASE DrainWriteFails(p)
  <2> DEFINE r == [pg EXCEPT !.drain = "count"]
  <2>1. CASE DrainEnds(p, TRUE) BY <2>1, DrainEndsKeeps
  <2>2. CASE pg.drain = "delete" /\ page' = [page EXCEPT ![p] = r]
    <3>1. r \in PageState BY <1>0 DEF PageState
    <3>2. Agrees(r, server') BY <1>0, <1>b, <2>2 DEF PageState, Agrees
    <3> HIDE DEF r
    <3> QED BY <2>2, <3>1, <3>2, PageStep
  <2> QED BY <1>7, <1>a, <2>1, <2>2 DEF DrainWriteFails, Draining
<1>8. CASE Retry(p)
  <2>1. Retried(pg) \in PageState /\ Agrees(Retried(pg), server') BY <1>0, <1>a, <1>b, RetriedKeeps
  <2> QED BY <1>8, <2>1, PageStep DEF Retry
<1>9. ASSUME NEW c \in Chunk, RetryPuts(p, c) PROVE Kept'
  <2> DEFINE r == [pg EXCEPT !.reset = @ \ {c}]
  <2>1. r \in PageState BY <1>0 DEF PageState
  <2>2. Agrees(r, server') BY <1>0, <1>b DEF PageState, Agrees
  <2>3. page' = [page EXCEPT ![p] = DrainIfWanted(r)] BY <1>9 DEF RetryPuts
  <2> HIDE DEF r
  <2>4. DrainIfWanted(r) \in PageState /\ Agrees(DrainIfWanted(r), server') BY <1>a, <2>1, <2>2, DrainIfWantedKeeps
  <2> QED BY <2>3, <2>4, PageStep
<1> QED BY <1>1, <1>2, <1>3, <1>5, <1>6, <1>7, <1>8, <1>9 DEF Uploading

LEMMA EndingKeeps ==
  ASSUME IInv, ServerGrows, NEW p \in Page, Ending(p)
  PROVE Kept'
<1> DEFINE pg == page[p]
<1>0. pg \in PageState /\ Agrees(pg, server) BY DEF IInv, TypeOK, Agreement
<1>a. page \in [Page -> PageState] /\ record \in Record /\ jobs \subseteq Chunk /\ server' \in ServerType
  BY DEF IInv, TypeOK, ServerGrows
<1>b. Agrees(pg, server') BY <1>0 DEF Agrees, ServerGrows
<1>c. NoRecord \in Record BY DEF NoRecord, Record
<1>d. pg.copy \in Record BY <1>0 DEF PageState
<1>1. CASE Confirm(p) BY <1>1, <1>a, MoveKeeps DEF Confirm, Read, UiState
<1>2. CASE ConfirmPuts(p)
  <2> DEFINE r == [pg EXCEPT !.ui = "final", !.copy = NoRecord, !.failed = FALSE]
  <2>1. r \in PageState BY <1>0, <1>c DEF PageState, UiState
  <2>2. Agrees(r, server') BY <1>0, <1>b DEF PageState, Agrees
  <2>3. page' = [page EXCEPT ![p] = r] BY <1>2, <1>a DEF ConfirmPuts
  <2> HIDE DEF r
  <2> QED BY <2>1, <2>2, <2>3, PageStep
<1>3. CASE End(p)
  <2> DEFINE r == [pg EXCEPT !.ui = "final-drain", !.copy = record]
  <2>1. CASE Read(p, "idle") BY <2>1, <1>c, MoveKeeps DEF Read, UiState
  <2>2. r \in PageState BY <1>0, <1>a DEF PageState, UiState
  <2>3. Agrees(r, server') BY <1>0, <1>b DEF PageState, Agrees
  <2>4. Read(p, "idle") \/ page' = [page EXCEPT ![p] = DrainIfWanted(r)] BY <1>3 DEF End
  <2> HIDE DEF r
  <2>5. DrainIfWanted(r) \in PageState /\ Agrees(DrainIfWanted(r), server') BY <1>a, <2>2, <2>3, DrainIfWantedKeeps
  <2> QED BY <2>1, <2>4, <2>5, PageStep
<1>4. CASE FinalChecks(p)
  <2>1. CASE jobs # {} BY <1>4, <2>1, <1>c, MoveKeeps DEF FinalChecks, Goto, UiState
  <2>2. CASE jobs = {} /\ pg.copy.phase \in {"tail_durable", "loss_confirmed"}
    <3> DEFINE r == [pg EXCEPT !.ui = "final-put", !.copy = pg.copy]
    <3>4. Goto(p, "final-put") BY <1>4, <2>2 DEF FinalChecks
    <3>5. page' = [page EXCEPT ![p].ui = "final-put", ![p].copy = pg.copy] BY <3>4, <1>a DEF Goto
    <3>1. page' = [page EXCEPT ![p] = r] BY <3>5, <1>a
    <3>2. r \in PageState BY <1>0, <1>d DEF PageState, UiState
    <3>3. Agrees(r, server') BY <1>0, <1>b, <2>2 DEF PageState, Agrees
    <3> HIDE DEF r
    <3> QED BY <3>1, <3>2, <3>3, PageStep
  <2>3. CASE jobs = {} /\ pg.copy.phase \notin {"tail_durable", "loss_confirmed"}
    <3>1. page' = [page EXCEPT ![p].ui = "ending", ![p].copy = pg.copy] BY <1>4, <2>3, <1>a DEF FinalChecks, Goto
    <3> QED BY <3>1, <1>d, MoveKeeps DEF UiState
  <2> QED BY <2>1, <2>2, <2>3
<1>5. CASE FinalPuts(p)
  <2>1. page' = [page EXCEPT ![p].ui = "ending", ![p].copy = pg.copy] BY <1>5, <1>a DEF FinalPuts, Goto
  <2> QED BY <2>1, <1>d, MoveKeeps DEF UiState
<1>6. CASE EndSucceeds(p)
  <2> DEFINE ui == IF pg.copy.phase = "none" THEN "idle" ELSE "delete"
  <2> DEFINE r == [pg EXCEPT !.ui = ui, !.copy = NoRecord, !.closed = TRUE]
  <2>1. server'.phase = "ended" BY <1>6 DEF EndSucceeds, Ends, IInv, TypeOK
  <2>2. ui \in {"idle", "delete"} OBVIOUS
  <2>3. page' = [page EXCEPT ![p] = r] BY <1>6, <1>a DEF EndSucceeds
  <2> HIDE DEF ui
  <2>4. r \in PageState BY <1>0, <1>c, <2>2 DEF PageState, UiState
  <2>5. Agrees(r, server') BY <1>0, <1>b, <2>1, <2>2 DEF PageState, Agrees
  <2> HIDE DEF r
  <2> QED BY <2>3, <2>4, <2>5, PageStep
<1>7. CASE EndFails(p) BY <1>7, <1>c, MoveKeeps DEF EndFails, Goto, UiState
<1>8. CASE DeleteRecord(p)
  <2> DEFINE r == [pg EXCEPT !.ui = "idle", !.failed = FALSE]
  <2>1. r \in PageState BY <1>0 DEF PageState, UiState
  <2>2. Agrees(r, server') BY <1>0, <1>b DEF PageState, Agrees
  <2>3. page' = [page EXCEPT ![p] = r] BY <1>8, <1>a DEF DeleteRecord
  <2> HIDE DEF r
  <2> QED BY <2>1, <2>2, <2>3, PageStep
<1>9. CASE HearEnded(p)
  <2> DEFINE r == [pg EXCEPT !.closed = TRUE, !.ack = "drain"]
  <2>1. r \in PageState BY <1>0 DEF PageState
  <2>2. server'.phase = "ended" BY <1>9 DEF HearEnded, SessionHasEnded, ServerGrows
  <2>3. Agrees(r, server') BY <1>0, <1>b, <2>2 DEF PageState, Agrees
  <2>4. page' = [page EXCEPT ![p] = DrainIfWanted(r)] BY <1>9 DEF HearEnded
  <2> HIDE DEF r
  <2>5. DrainIfWanted(r) \in PageState /\ Agrees(DrainIfWanted(r), server') BY <1>a, <2>1, <2>3, DrainIfWantedKeeps
  <2> QED BY <2>4, <2>5, PageStep
<1>10. CASE AckChecks(p)
  <2> DEFINE ack == IF jobs = {} /\ record.phase # "none" THEN "delete" ELSE "none"
  <2> DEFINE r == [pg EXCEPT !.ack = ack]
  <2>1. ack \in {"delete", "none"} OBVIOUS
  <2>2. page' = [page EXCEPT ![p] = r] BY <1>10, <1>a DEF AckChecks
  <2>3. pg.ack = "check" BY <1>10 DEF AckChecks
  <2> HIDE DEF ack
  <2>4. r \in PageState BY <1>0, <2>1 DEF PageState
  <2>5. Agrees(r, server') BY <1>0, <1>b, <2>1, <2>3 DEF PageState, Agrees
  <2> HIDE DEF r
  <2> QED BY <2>2, <2>4, <2>5, PageStep
<1>11. CASE AckDeletes(p)
  <2> DEFINE r == [pg EXCEPT !.ack = "none", !.failed = FALSE]
  <2>1. r \in PageState BY <1>0 DEF PageState
  <2>2. Agrees(r, server') BY <1>0, <1>b DEF PageState, Agrees
  <2>3. page' = [page EXCEPT ![p] = r] BY <1>11, <1>a DEF AckDeletes
  <2> HIDE DEF r
  <2> QED BY <2>1, <2>2, <2>3, PageStep
<1> QED BY <1>1, <1>2, <1>3, <1>4, <1>5, <1>6, <1>7, <1>8, <1>9, <1>10, <1>11 DEF Ending

LEMMA PagesStep == IInv /\ [Next]_vars => Kept'
<1> SUFFICES ASSUME IInv, [Next]_vars PROVE Kept'
  OBVIOUS
<1>0. ServerGrows BY ServerStep
<1>1. ASSUME NEW c \in Chunk, ServeLate(c) PROVE Kept'
  BY <1>0, <1>1, PagesIdle DEF ServeLate
<1>2. CASE OthersEnd BY <1>0, <1>2, PagesIdle DEF OthersEnd
<1>3. CASE UNCHANGED vars BY <1>0, <1>3, PagesIdle DEF vars
<1> QED BY <1>0, <1>1, <1>2, <1>3, LoadingKeeps, RecordingKeeps, StoppingKeeps, UploadingKeeps, EndingKeeps DEF Next

-----------------------------------------------------------------------------
(* The store.                                                              *)

\* The record holds a phase and a disposition after any write of it.
LEMMA RecordStep == IInv /\ [Next]_vars => record' \in Record
<1> SUFFICES ASSUME IInv, [Next]_vars PROVE record' \in Record
  OBVIOUS
<1>a. record \in Record /\ NoRecord \in Record BY DEF IInv, TypeOK, NoRecord, Record
<1>b. ASSUME NEW p \in Page PROVE page[p].copy \in Record /\ Agrees(page[p], server)
  BY DEF IInv, TypeOK, PageState, Agreement
<1>1. ASSUME UNCHANGED record PROVE record' \in Record BY <1>1, <1>a
<1>2. ASSUME NEW r \in Record,
             NEW phase \in {"recording", "stop_requested", "flush_uncertain", "tail_durable", "loss_confirmed"},
             record' = [r EXCEPT !.phase = phase]
      PROVE record' \in Record
  BY <1>2 DEF Record
<1>3. ASSUME NEW p \in Page, FinalPuts(p) PROVE record' \in Record
  <2>1. page[p].copy \in Record /\ page[p].copy.phase \in {"tail_durable", "loss_confirmed"}
    BY <1>3, <1>b DEF FinalPuts, At, Agrees
  <2>2. Disposition(page[p].copy) \in {"durable", "loss-confirmed"} BY <2>1 DEF Disposition
  <2> QED BY <1>3, <2>2 DEF FinalPuts, Record
<1>4. ASSUME NEW p \in Page, Loading(p) PROVE record' \in Record
  <2>1. CASE InitializePuts(p) BY <1>2, <1>b, <2>1 DEF InitializePuts
  <2> QED BY <1>1, <1>4, <2>1 DEF Loading, Load, InitializeReads, Unload, RecordWriteFails, OtherWriteFails, Only, store
<1>5. ASSUME NEW p \in Page, Recording(p) PROVE record' \in Record
  <2>1. CASE BeginPuts(p) BY <1>2, <1>a, <2>1 DEF BeginPuts
  <2>2. CASE UnexpectedPuts(p) BY <1>2, <1>b, <2>2 DEF UnexpectedPuts
  <2> QED BY <1>1, <1>5, <2>1, <2>2 DEF Recording, Begin, Deliver, WriteReads, WritePuts, WriteFails, RecorderDies,
       UnexpectedReads, Only, store
<1>6. ASSUME NEW p \in Page, Stopping(p) PROVE record' \in Record
  <2>1. CASE StopPuts(p) \/ UncertainPuts(p) \/ StopFailedPuts(p)
    BY <1>2, <1>b, <2>1 DEF StopPuts, UncertainPuts, StopFailedPuts, Put
  <2>2. CASE TailPuts(p) BY <1>2, <1>b, <2>2 DEF TailPuts
  <2> QED BY <1>1, <1>6, <2>1, <2>2 DEF Stopping, Stop, Flush, FlushFails, TailReads, StopFailedReads, Only, store
<1>7. ASSUME NEW p \in Page, Uploading(p) PROVE record' \in Record
  BY <1>1, <1>7 DEF Uploading, DrainLists, Serve, UploadFails, DeleteJob, CountFailure, DrainWriteFails, Retry,
     RetryPuts, Only, store
<1>8. ASSUME NEW p \in Page, Ending(p) PROVE record' \in Record
  <2>1. CASE ConfirmPuts(p) BY <1>2, <1>b, <2>1 DEF ConfirmPuts
  <2>2. CASE FinalPuts(p) BY <1>3, <2>2
  <2>3. CASE DeleteRecord(p) \/ AckDeletes(p) BY <1>a, <2>3 DEF DeleteRecord, AckDeletes
  <2> QED BY <1>1, <1>8, <2>1, <2>2, <2>3 DEF Ending, Confirm, End, FinalChecks, EndSucceeds, EndFails, HearEnded,
       AckChecks, Only, store
<1>9. ASSUME NEW c \in Chunk, ServeLate(c) PROVE record' \in Record BY <1>1, <1>9 DEF ServeLate, store
<1> QED BY <1>1, <1>4, <1>5, <1>6, <1>7, <1>8, <1>9 DEF Next, OthersEnd, store, vars

\* A chunk leaves the jobs only after the service has stored it, and no job is
\* tried more than maxAttempts times.
LEMMA JobsStep ==
  IInv /\ [Next]_vars =>
    /\ jobs' \subseteq Chunk /\ attempts' \in [Chunk -> 0..MaxAttempts]
    /\ jobs \subseteq jobs' \cup server'.stored
<1> DEFINE Goal == /\ jobs' \subseteq Chunk /\ attempts' \in [Chunk -> 0..MaxAttempts]
                   /\ jobs \subseteq jobs' \cup server'.stored
<1> SUFFICES ASSUME IInv, [Next]_vars PROVE Goal
  OBVIOUS
<1>a. jobs \subseteq Chunk /\ attempts \in [Chunk -> 0..MaxAttempts] /\ MaxAttempts \in Nat
  BY UploadAssumption DEF IInv, TypeOK
<1>b. ASSUME NEW p \in Page PROVE page[p] \in PageState /\ Agrees(page[p], server)
  BY DEF IInv, TypeOK, Agreement
<1>1. ASSUME UNCHANGED <<jobs, attempts>> PROVE Goal BY <1>1, <1>a
<1>2. ASSUME NEW c \in Chunk, NEW n \in 0..MaxAttempts, jobs' = jobs \cup {c}, attempts' = [attempts EXCEPT ![c] = n]
      PROVE Goal
  BY <1>2, <1>a
<1>3. ASSUME NEW p \in Page, Loading(p) PROVE Goal
  BY <1>1, <1>3 DEF Loading, Load, InitializeReads, InitializePuts, Unload, RecordWriteFails, OtherWriteFails, Only, store
<1>4. ASSUME NEW p \in Page, Recording(p) PROVE Goal
  <2>1. CASE WritePuts(p)
    <3>1. page[p].writes \in Seq(Write) /\ page[p].writes # <<>> BY <1>b, <2>1 DEF PageState, WritePuts
    <3>2. Head(page[p].writes) \in Write BY <3>1, HeadTailProperties
    <3>3. <<p, Head(page[p].writes).n>> \in Chunk BY <3>2 DEF Write, Chunk
    <3>4. 0 \in 0..MaxAttempts BY <1>a
    <3> DEFINE c == <<p, Head(page[p].writes).n>>
    <3>5. jobs' = jobs \cup {c} /\ attempts' = [attempts EXCEPT ![c] = 0] BY <2>1 DEF WritePuts
    <3> HIDE DEF c, Goal
    <3> QED BY <1>2, <3>3, <3>4, <3>5 DEF c
  <2> QED BY <1>1, <1>4, <2>1 DEF Recording, Begin, BeginPuts, Deliver, WriteReads, WriteFails, RecorderDies,
       UnexpectedReads, UnexpectedPuts, Only, store
<1>5. ASSUME NEW p \in Page, Stopping(p) PROVE Goal
  BY <1>1, <1>5 DEF Stopping, Stop, StopPuts, Flush, FlushFails, TailReads, TailPuts, UncertainPuts,
     StopFailedReads, StopFailedPuts, Only, store
<1>6. ASSUME NEW p \in Page, Uploading(p) PROVE Goal
  <2>1. CASE DeleteJob(p)
    <3>1. page[p].job \in Chunk /\ page[p].job \in server.stored
      BY <1>b, <2>1 DEF DeleteJob, AfterAnswer, Draining, Agrees
    <3> QED BY <1>a, <2>1, <3>1 DEF DeleteJob, world
  <2>2. CASE CountFailure(p)
    <3>1. page[p].job \in Chunk /\ page[p].tries < MaxAttempts /\ page[p].tries \in 0..MaxAttempts
      BY <1>b, <2>2 DEF CountFailure, Draining, Agrees, PageState
    <3>2. page[p].tries + 1 \in 0..MaxAttempts BY <1>a, <3>1
    <3> QED BY <1>2, <2>2, <3>1, <3>2 DEF CountFailure
  <2>3. ASSUME NEW c \in Chunk, RetryPuts(p, c) PROVE Goal
    BY <1>2, <1>a, <2>3 DEF RetryPuts
  <2> QED BY <1>1, <1>6, <2>1, <2>2, <2>3 DEF Uploading, DrainLists, Serve, UploadFails, DrainWriteFails, Retry, Only, store
<1>7. ASSUME NEW p \in Page, Ending(p) PROVE Goal
  BY <1>1, <1>7 DEF Ending, Confirm, ConfirmPuts, End, FinalChecks, FinalPuts, EndSucceeds, EndFails, DeleteRecord,
     HearEnded, AckChecks, AckDeletes, Only, store
<1>8. ASSUME NEW c \in Chunk, ServeLate(c) PROVE Goal BY <1>1, <1>8 DEF ServeLate, store
<1>9. CASE OthersEnd \/ UNCHANGED vars BY <1>1, <1>9 DEF OthersEnd, store, vars
<1> QED BY <1>3, <1>4, <1>5, <1>6, <1>7, <1>8, <1>9 DEF Next

-----------------------------------------------------------------------------
(* The rest, and the theorems.                                             *)

LEMMA HeardStep ==
  IInv /\ [Next]_vars =>
    late' \subseteq Chunk /\ taken' \subseteq Chunk /\ lost' \in BOOLEAN /\ failures' \in 0..MaxFailures
<1> DEFINE Goal == late' \subseteq Chunk /\ taken' \subseteq Chunk /\ lost' \in BOOLEAN /\ failures' \in 0..MaxFailures
<1> SUFFICES ASSUME IInv, [Next]_vars PROVE Goal
  OBVIOUS
<1>a. late \subseteq Chunk /\ taken \subseteq Chunk /\ lost \in BOOLEAN /\ failures \in 0..MaxFailures /\ MaxFailures \in Nat
  BY UploadAssumption DEF IInv, TypeOK
<1>b. ASSUME NEW p \in Page PROVE page[p] \in PageState /\ Agrees(page[p], server)
  BY DEF IInv, TypeOK, Agreement
<1>c. ASSUME NEW fault, Inject(fault) PROVE failures' \in 0..MaxFailures BY <1>a, <1>c DEF Inject
<1>1. ASSUME UNCHANGED <<late, taken, lost>>, failures' \in 0..MaxFailures PROVE Goal BY <1>1, <1>a
<1>2. ASSUME NEW p \in Page, NEW pg, pg.next = page[p].next, Delivered(p, pg) PROVE taken' \subseteq Chunk
  <2>1. page[p].next \in 1..(MaxChunks + 1) /\ MaxChunks \in Nat BY <1>b, UploadAssumption DEF PageState
  <2>2. CASE UNCHANGED taken BY <1>a, <2>2
  <2>3. CASE pg.next <= MaxChunks /\ taken' = taken \cup {<<p, pg.next>>}
    <3>1. <<p, pg.next>> \in Chunk BY <1>2, <2>1, <2>3 DEF Chunk
    <3> QED BY <1>a, <2>3, <3>1
  <2> QED BY <1>2, <2>2, <2>3 DEF Delivered
<1>3. ASSUME NEW p \in Page, Loading(p) PROVE Goal
  <2>1. CASE Unload(p)
    <3>1. (page[p].recorder = "on") \in BOOLEAN OBVIOUS
    <3>2. lost' \in BOOLEAN BY <2>1, <1>a, <3>1 DEF Unload
    <3>3. late' \subseteq Chunk BY <1>a, <1>b, <2>1 DEF Unload, Agrees
    <3> QED BY <1>a, <1>c, <2>1, <3>2, <3>3 DEF Unload
  <2> QED BY <1>1, <1>3, <1>a, <1>c, <2>1 DEF Loading, Load, InitializeReads, InitializePuts, RecordWriteFails,
       OtherWriteFails, Only, world, heard
<1>4. ASSUME NEW p \in Page, Recording(p) PROVE Goal
  <2>1. CASE Deliver(p) BY <1>2, <1>a, <2>1 DEF Deliver, world
  <2>2. CASE RecorderDies(p)
    <3> DEFINE r == [page[p] EXCEPT !.recorder = "off", !.ui = IF @ = "idle" THEN "unexpected" ELSE @]
    <3>1. r.next = page[p].next BY <1>b DEF PageState
    <3>2. Delivered(p, r) BY <2>2 DEF RecorderDies
    <3> HIDE DEF r
    <3> QED BY <1>2, <1>a, <2>2, <3>1, <3>2 DEF RecorderDies, world
  <2> QED BY <1>1, <1>4, <1>a, <1>c, <2>1, <2>2 DEF Recording, Begin, BeginPuts, WriteReads, WritePuts, WriteFails,
       UnexpectedReads, UnexpectedPuts, Only, world, heard
<1>5. ASSUME NEW p \in Page, Stopping(p) PROVE Goal
  <2>1. CASE Flush(p) \/ FlushFails(p)
    <3> DEFINE q == [page[p] EXCEPT !.recorder = "off", !.ui = "tail"]
    <3> DEFINE r == [page[p] EXCEPT !.recorder = "off", !.ui = "stop-failed"]
    <3>1. q.next = page[p].next /\ r.next = page[p].next BY <1>b DEF PageState
    <3>2. Delivered(p, q) \/ Delivered(p, r) BY <2>1 DEF Flush, FlushFails
    <3>3. taken' \subseteq Chunk
      <4> HIDE DEF q, r
      <4> QED BY <1>2, <3>1, <3>2
    <3>4. UNCHANGED late /\ lost' \in BOOLEAN /\ failures' \in 0..MaxFailures
      BY <2>1, <1>a, <1>c DEF Flush, FlushFails, world
    <3> QED BY <1>a, <3>3, <3>4
  <2>2. CASE StopFailedReads(p)
    <3>1. (page[p].recorder = "on") \in BOOLEAN OBVIOUS
    <3>2. lost' \in BOOLEAN BY <2>2, <1>a, <3>1 DEF StopFailedReads
    <3> QED BY <1>a, <2>2, <3>2 DEF StopFailedReads, world
  <2> QED BY <1>1, <1>5, <1>a, <2>1, <2>2 DEF Stopping, Stop, StopPuts, TailReads, TailPuts, UncertainPuts,
       StopFailedPuts, Only, world, heard
<1>6. ASSUME NEW p \in Page, Uploading(p) PROVE Goal
  <2>1. CASE UploadFails(p)
    <3>1. page[p].job \in Chunk BY <1>b, <2>1 DEF UploadFails, Draining, Agrees
    <3> QED BY <1>a, <1>c, <2>1, <3>1 DEF UploadFails, heard
  <2> QED BY <1>1, <1>6, <1>a, <1>c, <2>1 DEF Uploading, DrainLists, Serve, DeleteJob, CountFailure, DrainWriteFails,
       Retry, RetryPuts, Only, world, heard
<1>7. ASSUME NEW p \in Page, Ending(p) PROVE Goal
  BY <1>1, <1>7, <1>a, <1>c DEF Ending, Confirm, ConfirmPuts, End, FinalChecks, FinalPuts, EndSucceeds, EndFails,
     DeleteRecord, HearEnded, AckChecks, AckDeletes, Only, world, heard
<1>8. ASSUME NEW c \in Chunk, ServeLate(c) PROVE Goal BY <1>8, <1>a DEF ServeLate, heard
<1>9. CASE OthersEnd \/ UNCHANGED vars BY <1>1, <1>9, <1>a, <1>c DEF OthersEnd, heard, vars
<1> QED BY <1>3, <1>4, <1>5, <1>6, <1>7, <1>8, <1>9 DEF Next

LEMMA Initially == Init => IInv
<1> SUFFICES ASSUME Init PROVE IInv
  OBVIOUS
<1>1. 1 \in 1..(MaxChunks + 1) /\ 0 \in 0..MaxAttempts /\ 0 \in 0..MaxFailures /\ <<>> \in Chunk \cup {<<>>}
  BY UploadAssumption
<1>2. NoRecord \in Record BY DEF NoRecord, Record
<1>3. <<>> \in Seq(Write) /\ {} \in SUBSET Chunk OBVIOUS
<1>4. Blank \in PageState BY <1>1, <1>2, <1>3 DEF Blank, PageState, UiState
<1>5. TypeOK
  <2>1. page \in [Page -> PageState] BY <1>4 DEF Init
  <2>2. attempts \in [Chunk -> 0..MaxAttempts] BY <1>1 DEF Init
  <2> QED BY <1>1, <1>2, <2>1, <2>2 DEF Init, TypeOK
<1>6. Agreement BY DEF Agreement, Agrees, Init, Blank
<1> QED BY <1>5, <1>6 DEF IInv

LEMMA Step == IInv /\ [Next]_vars => IInv'
<1> SUFFICES ASSUME IInv, [Next]_vars PROVE IInv'
  OBVIOUS
<1>1. Kept' BY PagesStep
<1>2. server' \in ServerType BY ServerStep DEF ServerGrows
<1>3. TypeOK' BY <1>1, <1>2, RecordStep, JobsStep, HeardStep DEF TypeOK, Kept, ServerType
<1> QED BY <1>1, <1>3 DEF IInv, Kept

LEMMA Invariant == Spec => []IInv
BY Initially, Step, PTL DEF Spec

\* The store, the pages and the service hold values of their types: no upload
\* is tried more often than maxAttempts.
THEOREM TypeCorrect == Spec => []TypeOK
<1>1. IInv => TypeOK BY DEF IInv
<1> QED BY <1>1, Invariant, PTL

\* Every chunk that has left the store without being stored by the service
\* would be lost: none is (performDrain).
THEOREM NothingPersistedIsLost == Spec => PersistedIsKept
<1>1. IInv /\ [Next]_vars => [jobs \subseteq jobs' \cup server'.stored]_vars
  BY JobsStep
<1> QED BY <1>1, Invariant, PTL DEF Spec, PersistedIsKept

\* A record that exists is deleted only when the session has ended.
LEMMA DeletedAtTheEnd ==
  IInv /\ [Next]_vars /\ record.phase # "none" /\ record'.phase = "none" => server.phase = "ended"
<1> SUFFICES ASSUME IInv, [Next]_vars, record.phase # "none", record'.phase = "none"
             PROVE server.phase = "ended"
  OBVIOUS
<1>a. record \in Record BY DEF IInv, TypeOK
<1>b. ASSUME NEW p \in Page PROVE page[p].copy \in Record /\ Agrees(page[p], server)
  BY DEF IInv, TypeOK, PageState, Agreement
<1>1. record' # record OBVIOUS
<1>2. ASSUME NEW r \in Record,
             NEW phase \in {"recording", "stop_requested", "flush_uncertain", "tail_durable", "loss_confirmed"},
             record' = [r EXCEPT !.phase = phase]
      PROVE FALSE
  BY <1>2 DEF Record
<1>4. ASSUME NEW p \in Page, Loading(p) PROVE FALSE
  <2>1. CASE InitializePuts(p) BY <1>2, <1>b, <2>1 DEF InitializePuts
  <2> QED BY <1>1, <1>4, <2>1 DEF Loading, Load, InitializeReads, Unload, RecordWriteFails, OtherWriteFails, Only, store
<1>5. ASSUME NEW p \in Page, Recording(p) PROVE FALSE
  <2>0. NoRecord \in Record BY DEF NoRecord, Record
  <2>1. CASE BeginPuts(p) BY <1>2, <2>0, <2>1 DEF BeginPuts
  <2>2. CASE UnexpectedPuts(p) BY <1>2, <1>b, <2>2 DEF UnexpectedPuts
  <2> QED BY <1>1, <1>5, <2>1, <2>2 DEF Recording, Begin, Deliver, WriteReads, WritePuts, WriteFails, RecorderDies,
       UnexpectedReads, Only, store
<1>6. ASSUME NEW p \in Page, Stopping(p) PROVE FALSE
  <2>1. CASE StopPuts(p) \/ UncertainPuts(p) \/ StopFailedPuts(p)
    BY <1>2, <1>b, <2>1 DEF StopPuts, UncertainPuts, StopFailedPuts, Put
  <2>2. CASE TailPuts(p) BY <1>2, <1>b, <2>2 DEF TailPuts
  <2> QED BY <1>1, <1>6, <2>1, <2>2 DEF Stopping, Stop, Flush, FlushFails, TailReads, StopFailedReads, Only, store
<1>7. ASSUME NEW p \in Page, Uploading(p) PROVE FALSE
  BY <1>1, <1>7 DEF Uploading, DrainLists, Serve, UploadFails, DeleteJob, CountFailure, DrainWriteFails, Retry,
     RetryPuts, Only, store
<1>8. ASSUME NEW p \in Page, Ending(p) PROVE server.phase = "ended"
  <2>1. CASE ConfirmPuts(p) BY <1>2, <1>b, <2>1 DEF ConfirmPuts
  <2>2. CASE FinalPuts(p) BY <2>2 DEF FinalPuts
  <2>3. CASE DeleteRecord(p) \/ AckDeletes(p) BY <1>b, <2>3 DEF DeleteRecord, AckDeletes, At, Agrees
  <2> QED BY <1>1, <1>8, <2>1, <2>2, <2>3 DEF Ending, Confirm, End, FinalChecks, EndSucceeds, EndFails, HearEnded,
       AckChecks, Only, store
<1>9. ASSUME NEW c \in Chunk, ServeLate(c) PROVE FALSE BY <1>1, <1>9 DEF ServeLate, store
<1> QED BY <1>1, <1>4, <1>5, <1>6, <1>7, <1>8, <1>9 DEF Next, OthersEnd, store, vars

\* The record of a recording outlives every failed end of the session: it is
\* deleted only once the service has ended it (finalizeSession,
\* acknowledgeSessionEnded).
THEOREM RecordOutlivesTheSession == Spec => RecordKeptUntilEnded
<1>1. IInv /\ [Next]_vars =>
        [record.phase # "none" /\ record'.phase = "none" => server.phase = "ended"]_vars
  BY DeletedAtTheEnd
<1> QED BY <1>1, Invariant, PTL DEF Spec, RecordKeptUntilEnded

-----------------------------------------------------------------------------
(* Uploads do not overtake.                                                *)

\* The chunks that are persisted, or with the service.
Saved == jobs \cup server.stored

\* No job of the same recording comes before d, but one the service has.
Clear(d) == \A c \in jobs : c[1] = d[1] /\ c[2] < d[2] => c \in server.stored

InHand == {"sent", "delete", "count"}

\* The writes of a page are in order, and later than every chunk saved; what it
\* resets, sends and deletes is saved.
PageOrdered(p, pg) ==
  /\ \A i \in 1..Len(pg.writes) :
       /\ pg.writes[i].n < pg.next
       /\ \A c \in Saved : c[1] = p => c[2] < pg.writes[i].n
       /\ \A j \in 1..Len(pg.writes) : i < j => pg.writes[i].n < pg.writes[j].n
  /\ pg.reset \subseteq Saved
  /\ pg.drain \in InHand => pg.job \in Saved
  /\ pg.drain = "sent" => Clear(pg.job)

Ordered ==
  /\ \A p \in Page : PageOrdered(p, page[p])
  /\ \A c \in Saved : c[2] < page[c[1]].next
  /\ late \subseteq Saved
  /\ \A d \in server.stored \cup late : Clear(d)

LEMMA OrderedSuffices == Ordered => NoOvertaking
BY DEF Ordered, Clear, NoOvertaking

\* The writes w are the last ones of v.
Shortened(v, w) ==
  \E k \in Nat : Len(v) = Len(w) + k /\ \A i \in 1..Len(w) : w[i].n = v[i + k].n

\* A page that lists, writes and sends nothing new.
Quiet(a, b) ==
  /\ b.next = a.next
  /\ b.reset \subseteq a.reset \cup jobs
  /\ b.drain \in InHand => a.drain \in InHand /\ b.job = a.job /\ (b.drain = "sent" => a.drain = "sent")
  /\ Shortened(a.writes, b.writes)

LEMMA Shorter ==
  ASSUME NEW v \in Seq(Write)
  PROVE  /\ Shortened(v, v) /\ Shortened(v, <<>>)
         /\ v # <<>> => Shortened(v, Tail(v)) /\ Shortened(v, [v EXCEPT ![1].at = "put"])
<1>1. Shortened(v, v)
  <2>1. Len(v) = Len(v) + 0 /\ \A i \in 1..Len(v) : v[i].n = v[i + 0].n
    OBVIOUS
  <2> QED
    BY <2>1 DEF Shortened
<1>2. Shortened(v, <<>>)
  <2> DEFINE w == <<>>
  <2>1. Len(w) = 0 /\ 1..Len(w) = {}
    OBVIOUS
  <2>2. Len(v) \in Nat /\ Len(v) = Len(w) + Len(v)
    BY <2>1, LenProperties
  <2>3. \A i \in 1..Len(w) : w[i].n = v[i + Len(v)].n
    BY <2>1
  <2> QED
    BY <2>2, <2>3 DEF Shortened
<1>3. ASSUME v # <<>> PROVE Shortened(v, Tail(v))
  <2>1. Len(v) = Len(Tail(v)) + 1 /\ \A i \in 1..Len(Tail(v)) : Tail(v)[i] = v[i + 1]
    BY <1>3
  <2> QED
    BY <2>1 DEF Shortened
<1>4. ASSUME v # <<>> PROVE Shortened(v, [v EXCEPT ![1].at = "put"])
  <2> DEFINE w == [v EXCEPT ![1].at = "put"]
  <2>1. Len(w) = Len(v) /\ \A i \in 1..Len(v) : w[i].n = v[i].n
    <3>1. \A i \in 1..Len(v) : v[i] \in Write
      OBVIOUS
    <3>2. DOMAIN w = DOMAIN v
      OBVIOUS
    <3>3. w \in Seq(Write)
      <4>1. [v[1] EXCEPT !.at = "put"] \in Write
        BY <1>4, <3>1 DEF Write
      <4> QED
        BY <1>4, <4>1
    <3> QED
      BY <1>4, <3>1, <3>2, <3>3, LenProperties DEF Write
  <2>2. Len(v) = Len(w) + 0 /\ \A i \in 1..Len(w) : w[i].n = v[i + 0].n
    BY <2>1
  <2> QED
    BY <2>2 DEF Shortened
<1> QED
  BY <1>1, <1>2, <1>3, <1>4

LEMMA QuietOrdered ==
  ASSUME IInv, IInv', NEW p \in Page, PageOrdered(p, page[p]), Quiet(page[p], page'[p]),
         Saved' = Saved, server.stored \subseteq server'.stored
  PROVE  PageOrdered(p, page[p])'
<1> PICK a, b : a = page[p] /\ b = page'[p]
  OBVIOUS
<1>0. /\ a \in PageState /\ b \in PageState
  BY DEF IInv, TypeOK
<1>1. ASSUME NEW d, Clear(d) PROVE Clear(d)'
  BY <1>1 DEF Clear, Saved
<1>2. PICK k \in Nat : Len(a.writes) = Len(b.writes) + k /\ \A i \in 1..Len(b.writes) : b.writes[i].n = a.writes[i + k].n
  BY DEF Quiet, Shortened
<1>3. a.writes \in Seq(Write) /\ b.writes \in Seq(Write)
  BY <1>0 DEF PageState
<1>4. ASSUME NEW i \in 1..Len(b.writes)
      PROVE  /\ b.writes[i].n < b.next
             /\ \A c \in Saved' : c[1] = p => c[2] < b.writes[i].n
             /\ \A j \in 1..Len(b.writes) : i < j => b.writes[i].n < b.writes[j].n
  <2>1. i + k \in 1..Len(a.writes) /\ b.writes[i].n = a.writes[i + k].n
    BY <1>2, <1>3, LenProperties
  <2>2. \A j \in 1..Len(b.writes) : i < j => j + k \in 1..Len(a.writes) /\ b.writes[j].n = a.writes[j + k].n /\ i + k < j + k
    BY <1>2, <1>3, LenProperties
  <2> QED
    BY <2>1, <2>2 DEF PageOrdered, Quiet
<1>5. b.reset \subseteq Saved'
  BY DEF PageOrdered, Quiet, Saved
<1>6. b.drain \in InHand => b.job \in Saved'
  BY DEF PageOrdered, Quiet
<1>7. b.drain = "sent" => Clear(b.job)'
  <2>1. b.drain = "sent" => b.job = a.job /\ Clear(a.job)
    BY DEF PageOrdered, Quiet, InHand
  <2> QED
    BY <1>1, <2>1
<1>8. PageOrdered(p, b)'
  BY <1>4, <1>5, <1>6, <1>7 DEF PageOrdered
<1> QED
  BY <1>8 DEF PageOrdered

\* A step at which every page is quiet, and what is newly stored or late was sent.
LEMMA QuietStep ==
  ASSUME IInv, IInv', Ordered, \A p \in Page : Quiet(page[p], page'[p]),
         Saved' = Saved, server.stored \subseteq server'.stored, late' \subseteq Saved,
         \A d \in server'.stored \cup late' : Clear(d)
  PROVE  Ordered'
<1>1. \A p \in Page : PageOrdered(p, page[p])'
  BY QuietOrdered DEF Ordered
<1>2. ASSUME NEW d, Clear(d) PROVE Clear(d)'
  BY <1>2 DEF Clear, Saved
<1>3. \A d \in server'.stored \cup late' : Clear(d)'
  BY <1>2
<1>4. \A c \in Saved' : c[2] < page'[c[1]].next
  <2>1. \A c \in Saved : c[1] \in Page
    BY DEF Saved, IInv, TypeOK, Chunk
  <2> QED
    BY <2>1 DEF Ordered, Quiet
<1> QED
  BY <1>1, <1>3, <1>4 DEF Ordered

\* What the start of a drain leaves alone.
Untouched(a, b) ==
  /\ b.up = a.up /\ b.copy = a.copy /\ b.recorder = a.recorder /\ b.next = a.next /\ b.writes = a.writes
  /\ b.failed = a.failed /\ b.job = a.job
  /\ b.drain \in {a.drain, "list"}
  /\ \/ b.ui = a.ui
     \/ a.ui \in {"final-drain", "final-wait"} /\ b.ui = "final-wait"

LEMMA WantedEffect ==
  ASSUME NEW pg \in PageState
  PROVE  Untouched(pg, DrainIfWanted(pg)) /\ DrainIfWanted(pg).reset = pg.reset
<1> DEFINE final == IF pg.ui = "final-drain" THEN "final-wait" ELSE pg.ui
           retry == IF pg.retry /\ pg.reset = {} THEN FALSE ELSE pg.retry
           ack == IF pg.ack = "drain" THEN "wait" ELSE pg.ack
           r == [pg EXCEPT !.drain = "list", !.ui = final, !.retry = retry, !.ack = ack]
<1>1. DrainIfWanted(pg) = pg \/ DrainIfWanted(pg) = r
  BY DEF DrainIfWanted
<1>2. Untouched(pg, pg)
  BY DEF Untouched
<1>3. Untouched(pg, r) /\ r.reset = pg.reset
  <2> HIDE DEF retry, ack
  <2> QED
    BY DEF Untouched, PageState
<1> HIDE DEF r
<1> QED
  BY <1>1, <1>2, <1>3

LEMMA RetriedEffect ==
  ASSUME NEW pg \in PageState, jobs \subseteq Chunk
  PROVE  Untouched(pg, Retried(pg)) /\ Retried(pg).reset = pg.reset \cup ToReset
<1> DEFINE r == [pg EXCEPT !.retry = TRUE, !.reset = @ \cup ToReset]
<1>1. r \in PageState
  BY DEF PageState, ToReset
<1>2. Untouched(pg, r) /\ r.reset = pg.reset \cup ToReset
  BY DEF PageState, Untouched
<1>3. Retried(pg) = DrainIfWanted(r)
  BY DEF Retried
<1> HIDE DEF r
<1>4. Untouched(r, DrainIfWanted(r)) /\ DrainIfWanted(r).reset = r.reset
  BY <1>1, WantedEffect
<1> QED
  BY <1>2, <1>3, <1>4 DEF Untouched

\* What the end of a drain leaves alone.
EndedDrain(a, b) ==
  /\ b.up = a.up /\ b.recorder = a.recorder /\ b.next = a.next /\ b.writes = a.writes /\ b.failed = a.failed
  /\ b.reset = a.reset
  /\ b.drain \in {"idle", "list"}
  /\ \/ b.ui = a.ui /\ b.copy = a.copy
     \/ b.ui = "idle" /\ b.copy = NoRecord
     \/ a.ui \in {"final-drain", "final-wait"} /\ b.ui \in {"final-check", "final-wait"} /\ b.copy = a.copy

LEMMA DrainEndsEffect ==
  ASSUME IInv, NEW p \in Page, NEW thrown \in BOOLEAN, DrainEnds(p, thrown)
  PROVE  EndedDrain(page[p], page'[p]) /\ \A q \in Page : q # p => page'[q] = page[q]
<1> DEFINE pg == page[p]
           ui == CASE thrown /\ pg.ui \in {"final-drain", "final-wait"} -> "idle"
                   [] ~thrown /\ pg.ui = "final-wait" -> "final-check"
                   [] OTHER -> pg.ui
           copy == IF thrown /\ pg.ui \in {"final-drain", "final-wait"} THEN NoRecord ELSE pg.copy
           retry == IF thrown /\ pg.reset = {} THEN FALSE ELSE pg.retry
           ack == CASE thrown /\ pg.ack \in {"drain", "wait"} -> "none"
                    [] ~thrown /\ pg.ack = "wait" -> "check"
                    [] OTHER -> pg.ack
           woken == [pg EXCEPT !.drain = "idle", !.job = <<>>, !.tries = 0,
                               !.ui = ui, !.copy = copy, !.retry = retry, !.ack = ack]
<1>1. pg \in PageState /\ page \in [Page -> PageState]
  BY DEF IInv, TypeOK
<1>2. page' = [page EXCEPT ![p] = DrainIfWanted(woken)]
  BY DEF DrainEnds
<1>3. /\ ui \in UiState /\ copy \in Record /\ retry \in BOOLEAN
      /\ ack \in {"none", "drain", "wait", "check", "delete"}
      /\ 0 \in 0..MaxAttempts /\ <<>> \in Chunk \cup {<<>>}
  <2>1. ui \in UiState
    BY <1>1 DEF PageState, UiState
  <2>2. copy \in Record /\ retry \in BOOLEAN
    BY <1>1 DEF PageState, Record, NoRecord
  <2>3. ack \in {"none", "drain", "wait", "check", "delete"}
    BY <1>1 DEF PageState
  <2>4. 0 \in 0..MaxAttempts /\ <<>> \in Chunk \cup {<<>>}
    BY UploadAssumption
  <2> QED
    BY <2>1, <2>2, <2>3, <2>4
<1>4. \/ ui = pg.ui /\ copy = pg.copy
      \/ ui = "idle" /\ copy = NoRecord
      \/ pg.ui = "final-wait" /\ ui = "final-check" /\ copy = pg.copy
  OBVIOUS
<1> HIDE DEF ui, copy, retry, ack
<1>5. woken \in PageState
  BY <1>1, <1>3 DEF PageState
<1>6. /\ woken.ui = ui /\ woken.copy = copy /\ woken.drain = "idle"
      /\ woken.up = pg.up /\ woken.recorder = pg.recorder /\ woken.next = pg.next /\ woken.writes = pg.writes
      /\ woken.failed = pg.failed /\ woken.reset = pg.reset
  BY <1>1 DEF PageState
<1> HIDE DEF woken
<1>7. Untouched(woken, DrainIfWanted(woken)) /\ DrainIfWanted(woken).reset = woken.reset
  BY <1>5, WantedEffect
<1>8. EndedDrain(pg, DrainIfWanted(woken))
  BY <1>4, <1>6, <1>7 DEF EndedDrain, Untouched
<1> QED
  BY <1>1, <1>2, <1>8

QuietPages == \A q \in Page : Quiet(page[q], page'[q])

\* Of the page b that a becomes, what the order of the uploads depends on.
Same(a, b) ==
  /\ b.next = a.next /\ b.reset \subseteq a.reset \cup jobs /\ b.writes = a.writes
  /\ \/ b.drain = a.drain /\ b.job = a.job
     \/ b.drain \in {"delete", "count"} /\ a.drain \in InHand /\ b.job = a.job
     \/ b.drain \in {"idle", "list"}

LEMMA SameIsQuiet ==
  ASSUME IInv, NEW p \in Page, Same(page[p], page'[p]), \A q \in Page : q # p => page'[q] = page[q]
  PROVE  QuietPages
<1>1. ASSUME NEW q \in Page PROVE Shortened(page[q].writes, page[q].writes)
  <2>1. page[q].writes \in Seq(Write)
    BY DEF IInv, TypeOK, PageState
  <2> QED
    BY <2>1, Shorter
<1> QED
  BY <1>1 DEF QuietPages, Quiet, Same, InHand

LEMMA IdleIsQuiet == IInv /\ UNCHANGED page => QuietPages
<1> SUFFICES ASSUME IInv, UNCHANGED page PROVE QuietPages
  OBVIOUS
<1>1. ASSUME NEW q \in Page PROVE Shortened(page[q].writes, page[q].writes)
  <2>1. page[q].writes \in Seq(Write)
    BY DEF IInv, TypeOK, PageState
  <2> QED
    BY <2>1, Shorter
<1> QED
  BY <1>1 DEF QuietPages, Quiet

LEMMA LoadingQuiet ==
  ASSUME IInv, NEW p \in Page, Loading(p)
  PROVE  QuietPages
<1>0. page \in [Page -> PageState] /\ page[p] \in PageState
  BY DEF IInv, TypeOK
<1>1. CASE Load(p) \/ Unload(p)
  <2> DEFINE r == [Blank EXCEPT !.up = TRUE, !.ui = "initialize", !.next = page[p].next]
             u == [Blank EXCEPT !.next = page[p].next]
  <2>1. page' = [page EXCEPT ![p] = r] \/ page' = [page EXCEPT ![p] = u]
    BY <1>1 DEF Load, Unload
  <2>2. /\ r.next = page[p].next /\ r.reset = {} /\ r.drain = "idle" /\ r.writes = <<>>
        /\ u.next = page[p].next /\ u.reset = {} /\ u.drain = "idle" /\ u.writes = <<>>
    BY DEF Blank
  <2> HIDE DEF r, u
  <2>3. \A q \in Page : Shortened(page[q].writes, page[q].writes) /\ Shortened(page[q].writes, <<>>)
    BY <1>0, Shorter DEF PageState
  <2> QED
    BY <1>0, <2>1, <2>2, <2>3 DEF QuietPages, Quiet, InHand
<1>2. CASE ~(Load(p) \/ Unload(p))
  <2>1. Same(page[p], page'[p]) /\ \A q \in Page : q # p => page'[q] = page[q]
    <3>1. CASE InitializeReads(p)
      <4>1. CASE page' = Initialized(p)
        BY <1>0, <4>1 DEF Initialized, Same, PageState
      <4>2. CASE Read(p, "initialize-put")
        <5>1. page' = [page EXCEPT ![p].ui = "initialize-put", ![p].copy = record]
          BY <4>2 DEF Read
        <5> QED
          BY <1>0, <5>1 DEF Same, PageState
      <4> QED
        BY <3>1, <4>1, <4>2 DEF InitializeReads
    <3>2. CASE InitializePuts(p)
      BY <1>0, <3>2 DEF InitializePuts, Initialized, Same, PageState
    <3>3. CASE RecordWriteFails(p)
      BY <1>0, <3>3 DEF RecordWriteFails, Goto, Same, PageState
    <3>4. CASE OtherWriteFails(p)
      <4>1. CASE page' = [page EXCEPT ![p].retry = FALSE, ![p].reset = {}]
        BY <1>0, <4>1 DEF Same, PageState
      <4>2. CASE page' = [page EXCEPT ![p].ack = "none"]
        BY <1>0, <4>2 DEF Same, PageState
      <4> QED
        BY <3>4, <4>1, <4>2 DEF OtherWriteFails
    <3> QED
      BY <1>2, <3>1, <3>2, <3>3, <3>4 DEF Loading
  <2> QED
    BY <2>1, SameIsQuiet
<1> QED
  BY <1>1, <1>2

\* A write that does not persist its chunk.
LEMMA WriteQuiet ==
  ASSUME IInv, NEW p \in Page, WriteReads(p) \/ WriteFails(p)
  PROVE  QuietPages
<1>0. page \in [Page -> PageState] /\ page[p] \in PageState /\ page[p].writes \in Seq(Write)
  BY DEF IInv, TypeOK, PageState
<1>1. /\ page[p].writes # <<>>
      /\ page'[p].writes \in {[page[p].writes EXCEPT ![1].at = "put"], Tail(page[p].writes)}
      /\ page'[p].next = page[p].next /\ page'[p].reset = page[p].reset
      /\ page'[p].drain = page[p].drain /\ page'[p].job = page[p].job
      /\ \A q \in Page : q # p => page'[q] = page[q]
  BY <1>0 DEF WriteReads, WriteFails, PageState
<1>2. \A q \in Page : Shortened(page[q].writes, page[q].writes)
  BY <1>0, Shorter DEF PageState
<1>3. Shortened(page[p].writes, page'[p].writes)
  BY <1>0, <1>1, Shorter
<1> QED
  BY <1>1, <1>2, <1>3 DEF QuietPages, Quiet, InHand

LEMMA RecordingQuiet ==
  ASSUME IInv, NEW p \in Page, Begin(p) \/ BeginPuts(p) \/ UnexpectedReads(p) \/ UnexpectedPuts(p)
  PROVE  QuietPages
<1>0. page \in [Page -> PageState] /\ page[p] \in PageState /\ jobs \subseteq Chunk
  BY DEF IInv, TypeOK
<1>1. CASE Begin(p) \/ BeginPuts(p) \/ (UnexpectedReads(p) /\ page' = [page EXCEPT ![p].ui = "unexpected-put", ![p].copy = record])
  <2>1. Same(page[p], page'[p]) /\ \A q \in Page : q # p => page'[q] = page[q]
    <3>1. CASE Begin(p)
      BY <1>0, <3>1 DEF Begin, Same, PageState
    <3>2. CASE BeginPuts(p)
      BY <1>0, <3>2 DEF BeginPuts, Same, PageState
    <3>3. CASE page' = [page EXCEPT ![p].ui = "unexpected-put", ![p].copy = record]
      BY <1>0, <3>3 DEF Same, PageState
    <3> QED
      BY <1>1, <3>1, <3>2, <3>3
  <2> QED
    BY <2>1, SameIsQuiet
<1>2. ASSUME NEW pg \in PageState, pg.next = page[p].next, pg.reset = page[p].reset, pg.writes = page[p].writes,
             pg.drain = page[p].drain, pg.job = page[p].job, page' = [page EXCEPT ![p] = Retried(pg)]
      PROVE  QuietPages
  <2>1. Untouched(pg, Retried(pg)) /\ Retried(pg).reset = pg.reset \cup ToReset
    BY <1>0, <1>2, RetriedEffect
  <2>2. Same(page[p], page'[p]) /\ \A q \in Page : q # p => page'[q] = page[q]
    BY <1>0, <1>2, <2>1 DEF Same, Untouched, ToReset
  <2> QED
    BY <2>2, SameIsQuiet
<1>3. CASE UnexpectedReads(p)
  <2> DEFINE r == [page[p] EXCEPT !.ui = "idle"]
  <2>1. /\ r \in PageState /\ r.next = page[p].next /\ r.reset = page[p].reset /\ r.writes = page[p].writes
        /\ r.drain = page[p].drain /\ r.job = page[p].job
    BY <1>0 DEF PageState, UiState
  <2>2. \/ page' = [page EXCEPT ![p].ui = "unexpected-put", ![p].copy = record]
        \/ page' = [page EXCEPT ![p] = Retried(r)]
    BY <1>3 DEF UnexpectedReads, Read
  <2> HIDE DEF r
  <2> QED
    BY <1>1, <1>2, <1>3, <2>1, <2>2
<1>4. CASE UnexpectedPuts(p)
  <2> DEFINE r == [page[p] EXCEPT !.ui = "idle", !.copy = NoRecord]
  <2>1. NoRecord \in Record
    BY DEF NoRecord, Record
  <2>2. /\ r \in PageState /\ r.next = page[p].next /\ r.reset = page[p].reset /\ r.writes = page[p].writes
        /\ r.drain = page[p].drain /\ r.job = page[p].job
    BY <1>0, <2>1 DEF PageState, UiState
  <2>3. page' = [page EXCEPT ![p] = Retried(r)]
    BY <1>4 DEF UnexpectedPuts
  <2> HIDE DEF r
  <2> QED
    BY <1>2, <2>2, <2>3
<1> QED
  BY <1>1, <1>3, <1>4

LEMMA StoppingQuiet ==
  ASSUME IInv, NEW p \in Page,
         \/ Stop(p) \/ StopPuts(p) \/ TailReads(p) \/ TailPuts(p) \/ UncertainPuts(p)
         \/ StopFailedReads(p) \/ StopFailedPuts(p)
  PROVE  QuietPages
<1>0. page \in [Page -> PageState] /\ page[p] \in PageState /\ jobs \subseteq Chunk
  BY DEF IInv, TypeOK
<1>1. CASE ~TailPuts(p)
  <2>1. Same(page[p], page'[p]) /\ \A q \in Page : q # p => page'[q] = page[q]
    <3>1. ASSUME NEW ui, NEW copy, page' = [page EXCEPT ![p].ui = ui, ![p].copy = copy]
          PROVE  Same(page[p], page'[p]) /\ \A q \in Page : q # p => page'[q] = page[q]
      BY <1>0, <3>1 DEF Same, PageState
    <3>2. CASE StopFailedReads(p)
      BY <1>0, <3>2 DEF StopFailedReads, Same, PageState
    <3> QED
      BY <1>1, <3>1, <3>2 DEF Stop, StopPuts, TailReads, UncertainPuts, StopFailedPuts, Read, Put
  <2> QED
    BY <2>1, SameIsQuiet
<1>2. CASE TailPuts(p)
  <2> DEFINE r == [page[p] EXCEPT !.ui = "idle", !.copy = NoRecord]
  <2>1. NoRecord \in Record
    BY DEF NoRecord, Record
  <2>2. /\ r \in PageState /\ r.next = page[p].next /\ r.reset = page[p].reset /\ r.writes = page[p].writes
        /\ r.drain = page[p].drain /\ r.job = page[p].job
    BY <1>0, <2>1 DEF PageState, UiState
  <2>3. page' = [page EXCEPT ![p] = Retried(r)]
    BY <1>2 DEF TailPuts
  <2> HIDE DEF r
  <2>4. Untouched(r, Retried(r)) /\ Retried(r).reset = r.reset \cup ToReset
    BY <1>0, <2>2, RetriedEffect
  <2>5. Same(page[p], page'[p]) /\ \A q \in Page : q # p => page'[q] = page[q]
    BY <1>0, <2>2, <2>3, <2>4 DEF Same, Untouched, ToReset
  <2> QED
    BY <2>5, SameIsQuiet
<1> QED
  BY <1>1, <1>2

\* A page that becomes one that wants a drain.
LEMMA WantedQuiet ==
  ASSUME IInv, NEW p \in Page, NEW pg \in PageState, pg.next = page[p].next, pg.reset \subseteq page[p].reset,
         pg.writes = page[p].writes, pg.drain = page[p].drain, pg.job = page[p].job,
         page' = [page EXCEPT ![p] = DrainIfWanted(pg)]
  PROVE  QuietPages
<1>1. Untouched(pg, DrainIfWanted(pg)) /\ DrainIfWanted(pg).reset = pg.reset
  BY WantedEffect
<1>2. page \in [Page -> PageState]
  BY DEF IInv, TypeOK
<1>3. Same(page[p], page'[p]) /\ \A q \in Page : q # p => page'[q] = page[q]
  BY <1>1, <1>2 DEF Same, Untouched
<1> QED
  BY <1>3, SameIsQuiet

LEMMA UploadingQuiet ==
  ASSUME IInv, NEW p \in Page, Uploading(p),
         DrainLists(p) => page'[p].drain # "sent"
  PROVE  QuietPages
<1>0. page \in [Page -> PageState] /\ page[p] \in PageState /\ jobs \subseteq Chunk
  BY DEF IInv, TypeOK
<1>1. ASSUME NEW thrown \in BOOLEAN, DrainEnds(p, thrown) PROVE QuietPages
  <2>1. EndedDrain(page[p], page'[p]) /\ \A q \in Page : q # p => page'[q] = page[q]
    BY <1>1, DrainEndsEffect
  <2>2. Same(page[p], page'[p])
    BY <2>1 DEF EndedDrain, Same
  <2> QED
    BY <2>1, <2>2, SameIsQuiet
<1>2. CASE DrainLists(p)
  <2>1. \A c : page' # [page EXCEPT ![p].drain = "sent", ![p].job = c, ![p].tries = attempts[c]]
    BY <1>0, <1>2 DEF PageState
  <2> QED
    BY <1>1, <1>2, <2>1 DEF DrainLists
<1>3. ASSUME page' = [page EXCEPT ![p].drain = "list", ![p].job = <<>>, ![p].tries = 0] PROVE QuietPages
  <2>1. Same(page[p], page'[p]) /\ \A q \in Page : q # p => page'[q] = page[q]
    BY <1>0, <1>3 DEF Same, PageState
  <2> QED
    BY <2>1, SameIsQuiet
<1>4. ASSUME NEW d \in {"delete", "count"}, page[p].drain \in InHand, page' = [page EXCEPT ![p].drain = d]
      PROVE  QuietPages
  <2>1. Same(page[p], page'[p]) /\ \A q \in Page : q # p => page'[q] = page[q]
    BY <1>0, <1>4 DEF Same, PageState
  <2> QED
    BY <2>1, SameIsQuiet
<1>5. CASE Serve(p) \/ UploadFails(p)
  BY <1>4, <1>5 DEF Serve, UploadFails, Draining, InHand
<1>6. CASE DeleteJob(p)
  BY <1>3, <1>6 DEF DeleteJob
<1>7. CASE CountFailure(p)
  BY <1>1, <1>3, <1>7 DEF CountFailure
<1>8. CASE DrainWriteFails(p)
  BY <1>1, <1>4, <1>8 DEF DrainWriteFails, Draining, InHand
<1>9. CASE Retry(p)
  <2>1. Untouched(page[p], Retried(page[p])) /\ Retried(page[p]).reset = page[p].reset \cup ToReset
    BY <1>0, RetriedEffect
  <2>2. Same(page[p], page'[p]) /\ \A q \in Page : q # p => page'[q] = page[q]
    BY <1>0, <1>9, <2>1 DEF Retry, Same, Untouched, ToReset
  <2> QED
    BY <2>2, SameIsQuiet
<1>10. ASSUME NEW c \in Chunk, RetryPuts(p, c) PROVE QuietPages
  <2> DEFINE r == [page[p] EXCEPT !.reset = @ \ {c}]
  <2>1. r \in PageState
    BY <1>0 DEF PageState
  <2>2. /\ r.next = page[p].next /\ r.reset \subseteq page[p].reset /\ r.writes = page[p].writes
        /\ r.drain = page[p].drain /\ r.job = page[p].job
    BY <1>0 DEF PageState
  <2>3. page' = [page EXCEPT ![p] = DrainIfWanted(r)]
    BY <1>10 DEF RetryPuts
  <2> HIDE DEF r
  <2> QED
    BY <2>1, <2>2, <2>3, WantedQuiet
<1> QED
  BY <1>2, <1>5, <1>6, <1>7, <1>8, <1>9, <1>10 DEF Uploading

LEMMA EndingQuiet ==
  ASSUME IInv, NEW p \in Page, Ending(p)
  PROVE  QuietPages
<1>0. page \in [Page -> PageState] /\ page[p] \in PageState
  BY DEF IInv, TypeOK
<1>1. CASE End(p)
  <2>1. CASE Read(p, "idle")
    <3>1. Same(page[p], page'[p]) /\ \A q \in Page : q # p => page'[q] = page[q]
      BY <1>0, <2>1 DEF Read, Same, PageState
    <3> QED
      BY <3>1, SameIsQuiet
  <2>2. CASE page' = [page EXCEPT ![p] = DrainIfWanted([@ EXCEPT !.ui = "final-drain", !.copy = record])]
    <3> DEFINE r == [page[p] EXCEPT !.ui = "final-drain", !.copy = record]
    <3>1. record \in Record
      BY DEF IInv, TypeOK
    <3>2. /\ r \in PageState /\ r.next = page[p].next /\ r.reset \subseteq page[p].reset
          /\ r.writes = page[p].writes /\ r.drain = page[p].drain /\ r.job = page[p].job
      BY <1>0, <3>1 DEF PageState, UiState
    <3>3. page' = [page EXCEPT ![p] = DrainIfWanted(r)]
      BY <2>2
    <3> HIDE DEF r
    <3> QED
      BY <3>2, <3>3, WantedQuiet
  <2> QED
    BY <1>1, <2>1, <2>2 DEF End
<1>2. CASE HearEnded(p)
  <2> DEFINE r == [page[p] EXCEPT !.closed = TRUE, !.ack = "drain"]
  <2>1. /\ r \in PageState /\ r.next = page[p].next /\ r.reset \subseteq page[p].reset
        /\ r.writes = page[p].writes /\ r.drain = page[p].drain /\ r.job = page[p].job
    BY <1>0 DEF PageState
  <2>2. page' = [page EXCEPT ![p] = DrainIfWanted(r)]
    BY <1>2 DEF HearEnded
  <2> HIDE DEF r
  <2> QED
    BY <2>1, <2>2, WantedQuiet
<1>3. CASE ~End(p) /\ ~HearEnded(p)
  <2>1. Same(page[p], page'[p]) /\ \A q \in Page : q # p => page'[q] = page[q]
    <3>1. ASSUME NEW ui, NEW copy, page' = [page EXCEPT ![p].ui = ui, ![p].copy = copy]
          PROVE  Same(page[p], page'[p]) /\ \A q \in Page : q # p => page'[q] = page[q]
      BY <1>0, <3>1 DEF Same, PageState
    <3>2. CASE Confirm(p) \/ FinalChecks(p) \/ FinalPuts(p) \/ EndFails(p)
      BY <3>1, <3>2 DEF Confirm, FinalChecks, FinalPuts, EndFails, Read, Goto
    <3>3. CASE ConfirmPuts(p)
      BY <1>0, <3>3 DEF ConfirmPuts, Same, PageState
    <3>4. CASE EndSucceeds(p)
      BY <1>0, <3>4 DEF EndSucceeds, Same, PageState
    <3>5. CASE DeleteRecord(p)
      BY <1>0, <3>5 DEF DeleteRecord, Same, PageState
    <3>6. CASE AckChecks(p)
      BY <1>0, <3>6 DEF AckChecks, Same, PageState
    <3>7. CASE AckDeletes(p)
      BY <1>0, <3>7 DEF AckDeletes, Same, PageState
    <3> QED
      BY <1>3, <3>2, <3>3, <3>4, <3>5, <3>6, <3>7 DEF Ending
  <2> QED
    BY <2>1, SameIsQuiet
<1> QED
  BY <1>1, <1>2, <1>3

\* A recorder delivers: its chunk comes after all others of its page.
LEMMA DeliveredOrdered ==
  ASSUME IInv, IInv', Ordered, NEW p \in Page, NEW pg \in PageState, Same(page[p], pg), Delivered(p, pg),
         UNCHANGED <<jobs, server, late>>
  PROVE  Ordered'
<1>0. page \in [Page -> PageState] /\ page[p] \in PageState /\ pg.writes \in Seq(Write)
  BY DEF IInv, TypeOK, PageState
<1>1. CASE page' = [page EXCEPT ![p] = pg]
  <2>1. Same(page[p], page'[p]) /\ \A q \in Page : q # p => page'[q] = page[q]
    BY <1>0, <1>1
  <2>2. QuietPages
    BY <2>1, SameIsQuiet
  <2> QED
    BY <2>2, QuietStep DEF QuietPages, Saved, Ordered
<1>2. CASE ~(page' = [page EXCEPT ![p] = pg])
  <2> DEFINE w == [n |-> pg.next, at |-> "read"]
             r == [pg EXCEPT !.next = @ + 1, !.writes = Append(@, w)]
  <2>1. page' = [page EXCEPT ![p] = r] /\ pg.next <= MaxChunks
    BY <1>2 DEF Delivered
  <2>2. /\ r.next = pg.next + 1 /\ r.writes = Append(pg.writes, w) /\ r.reset = pg.reset
        /\ r.drain = pg.drain /\ r.job = pg.job /\ w.n = pg.next /\ pg.next \in Nat
    BY DEF PageState
  <2> HIDE DEF r
  <2>3. page'[p] = r /\ \A q \in Page : q # p => page'[q] = page[q]
    BY <1>0, <2>1
  <2>4. w \in Write
    BY <2>1, <2>2, UploadAssumption DEF Write, PageState
  <2> HIDE DEF w
  <2>5. /\ Len(r.writes) = Len(pg.writes) + 1
        /\ \A i \in 1..Len(pg.writes) : r.writes[i] = pg.writes[i]
        /\ r.writes[Len(pg.writes) + 1] = w
    BY <1>0, <2>2, <2>4, AppendProperties
  <2>6. PageOrdered(p, page[p]) /\ \A c \in Saved : c[1] = p => c[2] < pg.next
    BY DEF Ordered, Same
  <2>7. pg.reset \subseteq Saved
    BY <2>6 DEF Same, PageOrdered, Saved
  <2>8. /\ pg.drain \in InHand => page[p].drain \in InHand /\ pg.job = page[p].job
        /\ pg.drain = "sent" => page[p].drain = "sent"
    BY DEF Same, InHand
  <2>9. PageOrdered(p, r)
    <3>1. ASSUME NEW i \in 1..Len(r.writes)
          PROVE  /\ r.writes[i].n < r.next
                 /\ \A c \in Saved : c[1] = p => c[2] < r.writes[i].n
                 /\ \A j \in 1..Len(r.writes) : i < j => r.writes[i].n < r.writes[j].n
      <4>0. Len(pg.writes) \in Nat /\ pg.writes = page[p].writes /\ pg.next = page[p].next
            /\ \A j \in 1..Len(pg.writes) : pg.writes[j].n \in Nat
        <5>1. \A j \in 1..Len(pg.writes) : pg.writes[j] \in Write
          BY <1>0
        <5> QED
          BY <1>0, <5>1, LenProperties DEF Same, Write
      <4>1. CASE i \in 1..Len(pg.writes)
        <5>1. /\ r.writes[i].n = pg.writes[i].n /\ pg.writes[i].n < pg.next
              /\ \A c \in Saved : c[1] = p => c[2] < pg.writes[i].n
              /\ \A j \in 1..Len(pg.writes) : i < j => pg.writes[i].n < pg.writes[j].n
          BY <2>5, <2>6, <4>0, <4>1 DEF PageOrdered
        <5>2. \A j \in 1..Len(r.writes) : j \in 1..Len(pg.writes) \/ j = Len(pg.writes) + 1
          BY <2>5, <4>0
        <5> QED
          BY <2>2, <2>5, <4>0, <5>1, <5>2
      <4>2. CASE i = Len(pg.writes) + 1
        BY <2>2, <2>5, <2>6, <4>0, <4>2
      <4> QED
        BY <2>5, <4>0, <4>1, <4>2
    <3>2. r.reset \subseteq Saved
      BY <2>2, <2>7
    <3>3. r.job = pg.job /\ r.drain = pg.drain
      BY <2>2
    <3>4. r.drain \in InHand => r.job \in Saved
      BY <2>6, <2>8, <3>3 DEF PageOrdered
    <3>5. r.drain = "sent" => Clear(r.job)
      BY <2>6, <2>8, <3>3 DEF PageOrdered, InHand
    <3> QED
      BY <3>1, <3>2, <3>4, <3>5 DEF PageOrdered
  <2>10. Saved' = Saved /\ late' = late /\ jobs' = jobs /\ server' = server
    BY DEF Saved
  <2>11. ASSUME NEW q \in Page PROVE PageOrdered(q, page[q])'
    <3>1. PageOrdered(q, page'[q])
      BY <2>3, <2>9 DEF Ordered
    <3>2. \A d : Clear(d)' <=> Clear(d)
      BY <2>10 DEF Clear
    <3> QED
      BY <2>10, <3>1, <3>2 DEF PageOrdered
  <2>12. \A c \in Saved : c[2] < page'[c[1]].next
    <3>1. \A c \in Saved : c[1] \in Page /\ c[2] \in Nat
      BY DEF Saved, IInv, TypeOK, Chunk
    <3> QED
      BY <2>2, <2>3, <3>1 DEF Ordered, Same
  <2>13. \A d \in server'.stored \cup late' : Clear(d)'
    BY <2>10 DEF Ordered, Clear
  <2> QED
    BY <2>10, <2>11, <2>12, <2>13 DEF Ordered
<1> QED
  BY <1>1, <1>2

\* A write persists its chunk: the first of those that are in the queue.
LEMMA WriteOrdered ==
  ASSUME IInv, IInv', Ordered, NEW p \in Page, WritePuts(p)
  PROVE  Ordered'
<1> DEFINE v == page[p].writes
           w == page'[p].writes
           new == <<p, v[1].n>>
<1>0. /\ page \in [Page -> PageState] /\ page[p] \in PageState /\ v \in Seq(Write) /\ v # <<>> /\ Head(v) = v[1]
  BY DEF IInv, TypeOK, PageState, WritePuts
<1>1. jobs' = jobs \cup {new} /\ server' = server /\ late' = late
  BY <1>0 DEF WritePuts, world
<1>2. /\ w = Tail(v) /\ page'[p].next = page[p].next /\ page'[p].reset = page[p].reset
      /\ page'[p].job = page[p].job
      /\ page'[p].drain = page[p].drain \/ page'[p].drain = "list"
      /\ \A q \in Page : q # p => page'[q] = page[q]
  BY <1>0 DEF WritePuts, PageState
<1>3. /\ Len(v) = Len(w) + 1 /\ Len(w) \in Nat /\ \A i \in 1..Len(w) : w[i] = v[i + 1]
      /\ 1 \in 1..Len(v) /\ \A i \in 1..Len(w) : i + 1 \in 1..Len(v)
  BY <1>0, <1>2, LenProperties
<1>4. PageOrdered(p, page[p]) /\ \A i \in 1..Len(v) : v[i].n \in Nat
  <2>1. \A j \in 1..Len(v) : v[j] \in Write
    BY <1>0
  <2> QED
    BY <2>1 DEF Ordered, Write
<1>5. Saved' = Saved \cup {new}
  BY <1>1 DEF Saved
<1>6. \A c \in Saved : c[1] = p => c[2] < v[1].n
  BY <1>3, <1>4 DEF PageOrdered
<1>7. \A c \in Saved : c[2] \in Nat
  BY DEF Saved, IInv, TypeOK, Chunk
<1>8. ASSUME NEW d \in Saved, Clear(d) PROVE Clear(d)'
  <2>1. ASSUME NEW c \in jobs', c[1] = d[1], c[2] < d[2] PROVE c \in server.stored
    <3>1. CASE c \in jobs
      BY <1>8, <2>1, <3>1 DEF Clear
    <3>2. CASE c = new
      BY <1>4, <1>3, <1>6, <1>7, <2>1, <3>2
    <3> QED
      BY <1>1, <2>1, <3>1, <3>2
  <2> QED
    BY <1>1, <2>1 DEF Clear
<1>9. /\ new[1] = p /\ new[2] = v[1].n /\ new[2] < page[p].next
      /\ \A i \in 1..Len(w) : new[2] < w[i].n
  <2>1. v[1].n < page[p].next
    BY <1>3, <1>4 DEF PageOrdered
  <2>2. ASSUME NEW i \in 1..Len(w) PROVE v[1].n < w[i].n
    <3>1. w[i] = v[i + 1] /\ i + 1 \in 1..Len(v) /\ 1 < i + 1
      BY <1>3
    <3> QED
      BY <1>3, <1>4, <3>1 DEF PageOrdered
  <2> QED
    BY <2>1, <2>2
<1> HIDE DEF new
<1>10. ASSUME NEW q \in Page PROVE PageOrdered(q, page[q])'
  <2> PICK b : b = page'[q]
    OBVIOUS
  <2>0. PageOrdered(q, page[q])
    BY DEF Ordered
  <2>1. /\ b.reset = page[q].reset /\ (b.drain \in InHand => b.drain = page[q].drain /\ b.job = page[q].job)
    BY <1>2 DEF InHand
  <2>2. ASSUME NEW i \in 1..Len(b.writes)
        PROVE  /\ b.writes[i].n < b.next
               /\ \A c \in Saved' : c[1] = q => c[2] < b.writes[i].n
               /\ \A j \in 1..Len(b.writes) : i < j => b.writes[i].n < b.writes[j].n
    <3>1. CASE q = p
      <4>1. i \in 1..Len(w) /\ b.writes = w /\ w[i] = v[i + 1] /\ i + 1 \in 1..Len(v)
        BY <1>3, <2>2, <3>1
      <4>2. v[i + 1].n < page[p].next /\ \A c \in Saved : c[1] = p => c[2] < v[i + 1].n
        BY <1>4, <4>1 DEF PageOrdered
      <4>3. \A j \in 1..Len(w) : i < j => v[i + 1].n < v[j + 1].n /\ w[j] = v[j + 1]
        <5>1. \A j \in 1..Len(w) : i < j => i + 1 < j + 1 /\ j + 1 \in 1..Len(v) /\ w[j] = v[j + 1]
          BY <1>3, <4>1
        <5> QED
          BY <1>4, <4>1, <5>1 DEF PageOrdered
      <4>4. new[2] < w[i].n
        BY <1>9, <4>1
      <4> QED
        BY <1>2, <1>5, <3>1, <4>1, <4>2, <4>3, <4>4
    <3>2. CASE q # p
      <4>1. b = page[q]
        BY <1>2, <3>2
      <4> QED
        BY <1>5, <1>9, <2>0, <2>2, <3>2, <4>1 DEF PageOrdered
    <3> QED
      BY <3>1, <3>2
  <2>3. b.drain = "sent" => Clear(b.job)'
    BY <1>8, <2>0, <2>1 DEF PageOrdered, InHand
  <2>4. PageOrdered(q, b)'
    BY <1>5, <2>0, <2>1, <2>2, <2>3 DEF PageOrdered
  <2> QED
    BY <2>4 DEF PageOrdered
<1>11. \A c \in Saved' : c[2] < page'[c[1]].next
  <2>1. \A c \in Saved : c[1] \in Page
    BY DEF Saved, IInv, TypeOK, Chunk
  <2> QED
    BY <1>2, <1>5, <1>9, <2>1 DEF Ordered
<1>12. \A d \in server'.stored \cup late' : Clear(d)'
  BY <1>1, <1>8 DEF Ordered, Saved
<1>13. late' \subseteq Saved'
  BY <1>1, <1>5 DEF Ordered
<1> QED
  BY <1>10, <1>11, <1>12, <1>13 DEF Ordered

\* The drain takes the first job.
LEMMA ListOrdered ==
  ASSUME IInv, IInv', Ordered, NEW p \in Page, NEW c \in FirstJobs,
         page' = [page EXCEPT ![p].drain = "sent", ![p].job = c, ![p].tries = attempts[c]],
         UNCHANGED <<jobs, server, late>>
  PROVE  Ordered'
<1>0. page \in [Page -> PageState] /\ page[p] \in PageState
  BY DEF IInv, TypeOK
<1>1. /\ page'[p].next = page[p].next /\ page'[p].writes = page[p].writes /\ page'[p].reset = page[p].reset
      /\ page'[p].drain = "sent" /\ page'[p].job = c
      /\ \A q \in Page : q # p => page'[q] = page[q]
  BY <1>0 DEF PageState
<1>2. Saved' = Saved /\ late' = late /\ \A d : Clear(d)' <=> Clear(d)
  BY DEF Saved, Clear
<1>3. c \in Saved /\ Clear(c)
  <2>1. c \in jobs /\ \A d \in jobs : c[2] <= d[2]
    BY DEF FirstJobs
  <2>2. \A d \in jobs : d[2] \in Nat
    BY DEF IInv, TypeOK, Chunk
  <2> QED
    BY <2>1, <2>2 DEF Saved, Clear
<1>4. ASSUME NEW q \in Page PROVE PageOrdered(q, page[q])'
  <2> PICK b : b = page'[q]
    OBVIOUS
  <2>1. PageOrdered(q, page[q])
    BY DEF Ordered
  <2>2. PageOrdered(q, b)
    <3>1. CASE q # p
      BY <1>1, <2>1, <3>1
    <3>2. CASE q = p
      <4>1. b.next = page[q].next /\ b.writes = page[q].writes /\ b.reset = page[q].reset /\ b.job = c
        BY <1>1, <3>2
      <4>2. Clear(b.job)
        BY <1>3, <4>1
      <4> QED
        BY <1>3, <2>1, <4>1, <4>2 DEF PageOrdered
    <3> QED
      BY <3>1, <3>2
  <2>3. PageOrdered(q, b)'
    BY <1>2, <2>2 DEF PageOrdered
  <2> QED
    BY <2>3 DEF PageOrdered
<1>5. \A d \in Saved' : d[2] < page'[d[1]].next
  <2>1. \A d \in Saved : d[1] \in Page
    BY DEF Saved, IInv, TypeOK, Chunk
  <2> QED
    BY <1>1, <1>2, <2>1 DEF Ordered
<1> QED
  BY <1>2, <1>4, <1>5 DEF Ordered

\* An upload that reaches the service was sent.
LEMMA ServedOrdered ==
  ASSUME IInv, IInv', Ordered, QuietPages, NEW c \in Saved, Clear(c),
         UNCHANGED jobs, server'.stored \subseteq server.stored \cup {c}, server.stored \subseteq server'.stored,
         late' \subseteq late \cup {c}
  PROVE  Ordered'
<1>1. Saved' = Saved
  BY DEF Saved
<1>2. late' \subseteq Saved /\ \A d \in server'.stored \cup late' : Clear(d)
  BY DEF Ordered
<1> QED
  BY <1>1, <1>2, QuietStep DEF QuietPages

\* Nothing new is stored or late, and no chunk is saved or lost.
LEMMA StillOrdered ==
  ASSUME IInv, IInv', Ordered, QuietPages, Saved' = Saved,
         server'.stored = server.stored, late' \subseteq late
  PROVE  Ordered'
<1>1. late' \subseteq Saved /\ \A d \in server'.stored \cup late' : Clear(d)
  BY DEF Ordered
<1> QED
  BY <1>1, QuietStep DEF QuietPages

LEMMA OrderedStep == IInv /\ Ordered /\ [Next]_vars => Ordered'
<1> SUFFICES ASSUME IInv, Ordered, [Next]_vars PROVE Ordered'
  OBVIOUS
<1>a. IInv'
  BY Step
<1>b. ASSUME NEW p \in Page PROVE /\ page[p] \in PageState /\ PageOrdered(p, page[p]) /\ Agrees(page[p], server)
  BY DEF IInv, TypeOK, Agreement, Ordered
<1>c. server \in ServerType
  BY DEF IInv, TypeOK, ServerType
<1>d. ASSUME QuietPages, UNCHANGED <<jobs, server, late>> PROVE Ordered'
  BY <1>a, <1>d, StillOrdered DEF Saved
<1>1. ASSUME NEW p \in Page, Loading(p) PROVE Ordered'
  <2>0. QuietPages /\ UNCHANGED <<jobs, server>>
    BY <1>1, LoadingQuiet DEF Loading, Load, InitializeReads, InitializePuts, Unload, RecordWriteFails,
       OtherWriteFails, Only, store, world
  <2>1. CASE ~Unload(p)
    <3>1. UNCHANGED late
      BY <1>1, <2>1 DEF Loading, Load, InitializeReads, InitializePuts, RecordWriteFails, OtherWriteFails, Only, world
    <3> QED
      BY <1>d, <2>0, <3>1
  <2>2. CASE Unload(p)
    <3>1. CASE page[p].drain = "sent"
      <4>1. page[p].job \in Saved /\ Clear(page[p].job)
        BY <1>b, <3>1 DEF PageOrdered, InHand
      <4>2. late' \subseteq late \cup {page[p].job}
        BY <2>2, <3>1 DEF Unload
      <4> QED
        BY <1>a, <2>0, <4>1, <4>2, ServedOrdered
    <3>2. CASE page[p].drain # "sent"
      <4>1. late' = late
        BY <2>2, <3>2 DEF Unload
      <4> QED
        BY <1>d, <2>0, <4>1
    <3> QED
      BY <3>1, <3>2
  <2> QED
    BY <2>1, <2>2
<1>2. ASSUME NEW p \in Page, Recording(p) PROVE Ordered'
  <2>1. CASE Begin(p) \/ BeginPuts(p) \/ UnexpectedReads(p) \/ UnexpectedPuts(p) \/ WriteReads(p) \/ WriteFails(p)
    <3>1. QuietPages /\ UNCHANGED <<jobs, server, late>>
      BY <2>1, RecordingQuiet, WriteQuiet DEF Begin, BeginPuts, UnexpectedReads, UnexpectedPuts, WriteReads, WriteFails,
         Only, store, world
    <3> QED
      BY <1>d, <3>1
  <2>2. CASE WritePuts(p)
    BY <1>a, <2>2, WriteOrdered
  <2>3. CASE Deliver(p)
    <3>1. Same(page[p], page[p])
      BY DEF Same
    <3> QED
      BY <1>a, <1>b, <2>3, <3>1, DeliveredOrdered DEF Deliver, store, world
  <2>4. CASE RecorderDies(p)
    <3> DEFINE ui == IF page[p].ui = "idle" THEN "unexpected" ELSE page[p].ui
               r == [page[p] EXCEPT !.recorder = "off", !.ui = ui]
    <3>1. ui \in UiState
      BY <1>b DEF PageState, UiState
    <3>2. Delivered(p, r) /\ UNCHANGED <<jobs, server, late>>
      BY <2>4 DEF RecorderDies, store, world
    <3> HIDE DEF ui
    <3>3. r \in PageState /\ Same(page[p], r)
      BY <1>b, <3>1 DEF PageState, Same
    <3> HIDE DEF r
    <3> QED
      BY <1>a, <3>2, <3>3, DeliveredOrdered
  <2> QED
    BY <1>2, <2>1, <2>2, <2>3, <2>4 DEF Recording
<1>3. ASSUME NEW p \in Page, Stopping(p) PROVE Ordered'
  <2>1. CASE ~Flush(p) /\ ~FlushFails(p)
    <3>1. QuietPages /\ UNCHANGED <<jobs, server, late>>
      BY <1>3, <2>1, StoppingQuiet DEF Stopping, Stop, StopPuts, TailReads, TailPuts, UncertainPuts, StopFailedReads,
         StopFailedPuts, Only, store, world
    <3> QED
      BY <1>d, <3>1
  <2>2. CASE Flush(p) \/ FlushFails(p)
    <3> DEFINE r == [page[p] EXCEPT !.recorder = "off", !.ui = "tail"]
               f == [page[p] EXCEPT !.recorder = "off", !.ui = "stop-failed"]
    <3>1. (Delivered(p, r) \/ Delivered(p, f)) /\ UNCHANGED <<jobs, server, late>>
      BY <2>2 DEF Flush, FlushFails, store, world
    <3>0. page[p] \in PageState
      BY <1>b
    <3>2. r \in PageState
      BY <3>0 DEF PageState, UiState
    <3>3. f \in PageState
      BY <3>0 DEF PageState, UiState
    <3>4. Same(page[p], r) /\ Same(page[p], f)
      BY <1>b DEF PageState, Same
    <3> HIDE DEF r, f
    <3> QED
      BY <1>a, <3>1, <3>2, <3>3, <3>4, DeliveredOrdered
  <2> QED
    BY <2>1, <2>2
<1>4. ASSUME NEW p \in Page, Uploading(p) PROVE Ordered'
  <2>1. CASE DrainLists(p) /\ page'[p].drain = "sent"
    <3>1. /\ UNCHANGED <<jobs, server, late>>
          /\ \/ \E thrown \in BOOLEAN : DrainEnds(p, thrown)
             \/ \E c \in FirstJobs :
                  page' = [page EXCEPT ![p].drain = "sent", ![p].job = c, ![p].tries = attempts[c]]
      BY <2>1 DEF DrainLists, NextJob, Only, store, world
    <3>2. ~(\E thrown \in BOOLEAN : DrainEnds(p, thrown))
      BY <2>1, DrainEndsEffect DEF EndedDrain
    <3> QED
      BY <1>a, <3>1, <3>2, ListOrdered
  <2>2. CASE ~(DrainLists(p) /\ page'[p].drain = "sent")
    <3>0. QuietPages
      BY <1>4, <2>2, UploadingQuiet
    <3>1. CASE Serve(p)
      <4>1. page[p].job \in Saved /\ Clear(page[p].job)
        BY <1>b, <3>1 DEF Serve, Draining, PageOrdered, InHand
      <4>2. /\ UNCHANGED <<jobs, late>> /\ server'.stored \subseteq server.stored \cup {page[p].job}
            /\ server.stored \subseteq server'.stored
        BY <1>c, <3>1 DEF Serve, Served, store, ServerType
      <4> QED
        BY <1>a, <3>0, <4>1, <4>2, ServedOrdered
    <3>2. CASE UploadFails(p)
      <4>1. page[p].job \in Saved /\ Clear(page[p].job)
        BY <1>b, <3>2 DEF UploadFails, Draining, PageOrdered, InHand
      <4>2. UNCHANGED <<jobs, server>> /\ late' \subseteq late \cup {page[p].job}
        BY <3>2 DEF UploadFails, store
      <4> QED
        BY <1>a, <3>0, <4>1, <4>2, ServedOrdered
    <3>3. CASE DeleteJob(p)
      <4>1. page[p].job \in server.stored /\ jobs' = jobs \ {page[p].job} /\ UNCHANGED <<server, late>>
        BY <1>b, <3>3 DEF DeleteJob, AfterAnswer, Draining, Agrees, world
      <4>2. Saved' = Saved
        BY <4>1 DEF Saved
      <4> QED
        BY <1>a, <3>0, <4>1, <4>2, StillOrdered
    <3>4. CASE CountFailure(p)
      <4>1. page[p].job \in Saved /\ jobs' = jobs \cup {page[p].job} /\ UNCHANGED <<server, late>>
        BY <1>b, <3>4 DEF CountFailure, Draining, PageOrdered, InHand, world
      <4>2. Saved' = Saved
        BY <4>1 DEF Saved
      <4> QED
        BY <1>a, <3>0, <4>1, <4>2, StillOrdered
    <3>5. ASSUME NEW c \in Chunk, RetryPuts(p, c) PROVE Ordered'
      <4>1. c \in Saved /\ jobs' = jobs \cup {c} /\ UNCHANGED <<server, late>>
        BY <1>b, <3>5 DEF RetryPuts, PageOrdered, world
      <4>2. Saved' = Saved
        BY <4>1 DEF Saved
      <4> QED
        BY <1>a, <3>0, <4>1, <4>2, StillOrdered
    <3>6. CASE DrainLists(p) \/ DrainWriteFails(p) \/ Retry(p)
      <4>1. UNCHANGED <<jobs, server, late>>
        BY <3>6 DEF DrainLists, DrainWriteFails, Retry, Only, store, world
      <4> QED
        BY <1>d, <3>0, <4>1
    <3> QED
      BY <1>4, <3>1, <3>2, <3>3, <3>4, <3>5, <3>6 DEF Uploading
  <2> QED
    BY <2>1, <2>2
<1>5. ASSUME NEW disp, NEW phase, Ends(disp, phase) PROVE server'.stored = server.stored
  BY <1>5, <1>c DEF Ends, ServerType
<1>6. ASSUME NEW p \in Page, Ending(p) PROVE Ordered'
  <2>1. QuietPages /\ UNCHANGED <<jobs, late>>
    BY <1>6, EndingQuiet DEF Ending, Confirm, ConfirmPuts, End, FinalChecks, FinalPuts, EndSucceeds, EndFails,
       DeleteRecord, HearEnded, AckChecks, AckDeletes, Only, store, world
  <2>2. server'.stored = server.stored
    <3>1. CASE EndSucceeds(p) \/ EndFails(p)
      BY <1>5, <3>1 DEF EndSucceeds, EndFails
    <3>2. CASE ~EndSucceeds(p) /\ ~EndFails(p)
      BY <1>6, <3>2 DEF Ending, Confirm, ConfirmPuts, End, FinalChecks, FinalPuts, DeleteRecord, HearEnded,
         AckChecks, AckDeletes, Only, world
    <3> QED
      BY <3>1, <3>2
  <2>3. Saved' = Saved
    BY <2>1, <2>2 DEF Saved
  <2> QED
    BY <1>a, <2>1, <2>2, <2>3, StillOrdered
<1>7. ASSUME NEW c \in Chunk, ServeLate(c) PROVE Ordered'
  <2>1. /\ c \in late /\ late' \subseteq late /\ UNCHANGED <<jobs, page>>
        /\ server'.stored \subseteq server.stored \cup {c} /\ server.stored \subseteq server'.stored
    BY <1>7, <1>c DEF ServeLate, Served, store, ServerType
  <2>2. QuietPages /\ c \in Saved /\ Clear(c)
    BY <2>1, IdleIsQuiet DEF Ordered
  <2> QED
    BY <1>a, <2>1, <2>2, ServedOrdered
<1>8. CASE OthersEnd
  <2>1. UNCHANGED <<jobs, page, late>> /\ server'.stored = server.stored
    BY <1>8, <1>5 DEF OthersEnd, store
  <2>2. QuietPages /\ Saved' = Saved
    BY <2>1, IdleIsQuiet DEF Saved
  <2> QED
    BY <1>a, <2>1, <2>2, StillOrdered
<1>9. CASE UNCHANGED vars
  <2>1. QuietPages /\ UNCHANGED <<jobs, server, late>>
    BY <1>9, IdleIsQuiet DEF vars
  <2> QED
    BY <1>d, <2>1
<1> QED
  BY <1>1, <1>2, <1>3, <1>4, <1>6, <1>7, <1>8, <1>9 DEF Next

LEMMA OrderInvariant == Spec => [](IInv /\ Ordered)
<1>1. Init => IInv /\ Ordered
  <2> SUFFICES ASSUME Init PROVE Ordered
    BY Initially
  <2>1. Saved = {} /\ late = {} /\ server.stored = {}
    BY DEF Init, Saved
  <2>2. ASSUME NEW p \in Page PROVE PageOrdered(p, page[p])
    <3>1. /\ page[p].writes = <<>> /\ 1..Len(page[p].writes) = {} /\ page[p].reset = {} /\ page[p].drain = "idle"
      BY DEF Init, Blank
    <3> QED
      BY <3>1 DEF PageOrdered, InHand
  <2> QED
    BY <2>1, <2>2 DEF Ordered
<1>2. IInv /\ Ordered /\ [Next]_vars => (IInv /\ Ordered)'
  BY Step, OrderedStep
<1> QED
  BY <1>1, <1>2, PTL DEF Spec

\* Whatever fails, is retried, arrives late or is uploaded by several pages: of one
\* recording, no chunk reaches the service before an earlier one that is persisted
\* (performDrain stops at a chunk that fails).
THEOREM UploadsNeverOvertake == Spec => []NoOvertaking
<1>1. Ordered => NoOvertaking
  BY OrderedSuffices
<1> QED
  BY <1>1, OrderInvariant, PTL

-----------------------------------------------------------------------------
(* What a durable end rests on.                                            *)

\* The session is recorded on one page.
OneRecorder == \A p, q \in Recorders : p = q

\* Where a recording is begun, stopped or given up.
RecorderUi ==
  {"begin-put", "unexpected", "unexpected-put", "stop-put", "flush", "tail", "tail-put", "uncertain-put",
   "stop-failed", "stop-failed-put"}

\* Where a page is about to change a record it has read.
PlainPut == {"initialize-put", "unexpected-put", "stop-put", "uncertain-put", "stop-failed-put"}
PutUi == PlainPut \cup {"tail-put", "confirm-put", "final-put"}

Tails == {"tail", "tail-put"}

\* Where nothing depends on what the page knows of the recording.
Elsewhere == UiState \ (PutUi \cup {"begin-put", "flush", "tail", "ending"})

\* A record with which the service will be told that the tail is durable.
Claims(r) == r.phase = "tail_durable" \/ r.disp = "durable"

\* The chunks whose write the page awaits.
Written(p, pg) == {<<p, pg.writes[i].n>> : i \in 1..Len(pg.writes)}

\* Everything recorded is saved, and no recording goes on.
Complete == taken \subseteq Saved /\ ~lost /\ \A p \in Page : page[p].recorder = "off"

\* A page that does not record.
Bystander(pg) == pg.recorder = "off" /\ pg.ui \notin RecorderUi /\ pg.writes = <<>>

\* What a page knows of the recording is true.
PageHonest(p, pg) ==
  /\ pg.ui = "begin-put" => record.phase = "none"
  /\ pg.ui \in {"begin-put", "confirm-put"} \cup Tails => pg.recorder = "off"
  /\ pg.ui = "flush" => pg.recorder = "on"
  /\ pg.ui \in PutUi \/ pg.copy.phase # "none" => record.phase # "none"
  /\ pg.copy.phase = "none" => pg.copy.disp = "none"
  /\ pg.recorder = "on" \/ pg.ui \in Tails =>
       ~lost /\ (~pg.failed => taken \subseteq Saved \cup Written(p, pg))
  /\ pg.ui = "tail-put" => taken \subseteq Saved
  /\ Claims(pg.copy) => Complete
  /\ pg.ui \in {"final-put", "ending"} /\ Claims(pg.copy) => taken \subseteq server.stored

RecordHonest ==
  /\ record.phase = "none" =>
       record.disp = "none" /\ taken = {} /\ ~lost /\ \A p \in Page : page[p].recorder = "off"
  /\ Claims(record) => Complete

\* Until the session has ended.
Honest ==
  server.phase # "ended" =>
    /\ RecordHonest
    /\ \A p \in Page : PageHonest(p, page[p])
    /\ \A p \in Page \ Recorders : Bystander(page[p])

LEMMA EndIsComplete ==
  ASSUME Honest, server.phase # "ended", NEW p \in Page, page[p].ui = "ending", Disposition(page[p].copy) = "durable"
  PROVE  taken \subseteq server.stored /\ ~lost /\ \A q \in Page : page[q].recorder = "off"
<1>1. Claims(page[p].copy) /\ PageHonest(p, page[p])
  BY DEF Claims, Disposition, Honest
<1> QED
  BY <1>1 DEF PageHonest, Complete

\* What is saved stays saved, and the session has not ended.
Going ==
  /\ IInv /\ IInv' /\ Honest
  /\ server.phase # "ended"
  /\ Saved \subseteq Saved' /\ server.stored \subseteq server'.stored

OnlyPage(p) == \A q \in Page : q # p => page'[q] = page[q]

\* A step of page p that neither begins a recording nor hears of one.
LEMMA CalmStep ==
  ASSUME Going, NEW p \in Page, OnlyPage(p),
         UNCHANGED <<taken, lost>>, record'.phase = "none" <=> record.phase = "none",
         record'.phase = "none" => record' = record, Claims(record') => Complete,
         page'[p].recorder \in {page[p].recorder, "off"},
         PageHonest(p, page[p])', p \notin Recorders => Bystander(page'[p])
  PROVE  Honest'
<1>1. RecordHonest /\ \A q \in Page : PageHonest(q, page[q])
  BY DEF Going, Honest
<1>2. \A q \in Page : page[q].recorder = "off" => page'[q].recorder = "off"
  BY DEF OnlyPage
<1>3. Complete => Complete'
  BY <1>2 DEF Complete, Going
<1>4. RecordHonest'
  BY <1>1, <1>2, <1>3 DEF RecordHonest
<1>5. ASSUME NEW q \in Page PROVE PageHonest(q, page[q])'
  <2>1. CASE q # p
    <3>1. page'[q] = page[q] /\ PageHonest(q, page[q])
      BY <1>1, <2>1 DEF OnlyPage
    <3> PICK a : a = page[q]
      OBVIOUS
    <3>2. PageHonest(q, a)'
      BY <1>3, <3>1 DEF PageHonest, Going, Written
    <3> QED
      BY <3>1, <3>2 DEF PageHonest
  <2> QED
    BY <2>1
<1>6. \A q \in Page \ Recorders : Bystander(page'[q])
  BY DEF OnlyPage, Going, Honest
<1> QED
  BY <1>4, <1>5, <1>6 DEF Honest

\* A step at which the recorder of p delivers or goes.
LEMMA RecorderStep ==
  ASSUME Going, NEW p \in Recorders, OneRecorder, OnlyPage(p),
         page[p].recorder = "on", UNCHANGED <<record, jobs, server>>, PageHonest(p, page[p])'
  PROVE  Honest'
<1>0. p \in Page
  BY UploadAssumption
<1>1. RecordHonest /\ \A q \in Page : PageHonest(q, page[q])
  BY DEF Going, Honest
<1>2. ~Complete /\ record.phase # "none" /\ ~Claims(record)
  BY <1>0, <1>1 DEF Complete, RecordHonest
<1>3. RecordHonest'
  BY <1>2 DEF RecordHonest
<1>4. ASSUME NEW q \in Page PROVE PageHonest(q, page[q])'
  <2>1. CASE q # p
    <3>1. page'[q] = page[q] /\ PageHonest(q, page[q]) /\ Bystander(page[q])
      BY <1>1, <2>1 DEF OneRecorder, OnlyPage, Going, Honest
    <3> PICK a : a = page[q]
      OBVIOUS
    <3>2. PageHonest(q, a)'
      BY <1>2, <3>1 DEF PageHonest, Bystander, RecorderUi, Tails
    <3> QED
      BY <3>1, <3>2 DEF PageHonest
  <2> QED
    BY <2>1
<1>5. \A q \in Page \ Recorders : Bystander(page'[q])
  BY DEF OnlyPage, Going, Honest
<1> QED
  BY <1>3, <1>4, <1>5 DEF Honest

\* The recording of p begins.
LEMMA BegunStep ==
  ASSUME Going, NEW p \in Recorders, OneRecorder, BeginPuts(p)
  PROVE  Honest'
<1>0. p \in Page /\ page \in [Page -> PageState]
  BY UploadAssumption DEF Going, IInv, TypeOK
<1>1. /\ page'[p].ui = "idle" /\ page'[p].recorder = "on" /\ page'[p].copy = page[p].copy
      /\ OnlyPage(p) /\ UNCHANGED <<jobs, server, taken, lost>>
      /\ record'.phase = "recording" /\ record'.disp = "none"
  BY <1>0 DEF BeginPuts, PageState, world, heard, NoRecord, OnlyPage
<1>2. RecordHonest /\ \A q \in Page : PageHonest(q, page[q])
  BY DEF Going, Honest
<1>3. page[p].ui = "begin-put" /\ record.phase = "none" /\ taken = {} /\ ~lost
  BY <1>0, <1>2 DEF BeginPuts, At, PageHonest, RecordHonest
<1>4. RecordHonest'
  BY <1>1 DEF RecordHonest, Claims
<1>5. ASSUME NEW q \in Page PROVE PageHonest(q, page[q])'
  <2>0. page[q].copy.phase = "none" /\ page[q].copy.disp = "none" /\ page[q].ui \notin PutUi
    BY <1>2, <1>3 DEF PageHonest
  <2>1. CASE q # p
    <3>1. page'[q] = page[q] /\ PageHonest(q, page[q]) /\ Bystander(page[q])
      BY <1>1, <1>2, <2>1 DEF OneRecorder, OnlyPage, Going, Honest
    <3> QED
      BY <1>1, <2>0, <3>1 DEF PageHonest, Bystander, RecorderUi, Tails, Claims
  <2>2. CASE q = p
    BY <1>1, <1>3, <2>0, <2>2 DEF PageHonest, Tails, Claims, PutUi, PlainPut
  <2> QED
    BY <2>1, <2>2
<1>6. \A q \in Page \ Recorders : Bystander(page'[q])
  BY <1>1 DEF OnlyPage, Going, Honest
<1> QED
  BY <1>4, <1>5, <1>6 DEF Honest

\* The page p becomes b, and knows no more of the recording than it did.
Eased(p, a, b) ==
  /\ b.recorder \in {a.recorder, "off"}
  /\ b.recorder = "on" \/ b.ui \in Tails =>
       b.failed \/ (~a.failed /\ Written(p, a) \subseteq Saved' \cup Written(p, b))
  /\ \/ b.ui = a.ui /\ b.copy = a.copy /\ (b.ui = "flush" => b.recorder = a.recorder)
     \/ b.ui \in Elsewhere /\ b.copy \in {a.copy, NoRecord, record}
     \/ b.ui \in PlainPut /\ b.copy \in {a.copy, record} /\ record.phase # "none"
  /\ Bystander(a) => Bystander(b)

LEMMA EasedHonest ==
  ASSUME Going, NEW p \in Page, OnlyPage(p), Eased(p, page[p], page'[p]),
         UNCHANGED <<taken, lost>>, record'.phase = "none" <=> record.phase = "none"
  PROVE  PageHonest(p, page[p])'
<1> PICK a, b : a = page[p] /\ b = page'[p]
  OBVIOUS
<1>1. RecordHonest /\ PageHonest(p, a) /\ Eased(p, a, b)
  BY DEF Going, Honest
<1>2. a \in PageState /\ b \in PageState
  BY DEF Going, IInv, TypeOK
<1>3. Claims(b.copy) => Complete
  <2>1. ~Claims(NoRecord)
    BY DEF Claims, NoRecord
  <2> QED
    BY <1>1, <2>1 DEF Eased, PageHonest, RecordHonest
<1>4. b.copy.phase = "none" => b.copy.disp = "none"
  BY <1>1 DEF Eased, PageHonest, RecordHonest, NoRecord
<1>5. b.ui \in PutUi \/ b.copy.phase # "none" => record.phase # "none"
  BY <1>1 DEF Eased, PageHonest, NoRecord, Elsewhere
<1>6. /\ b.ui = "begin-put" => record.phase = "none"
      /\ b.ui \in {"begin-put", "confirm-put"} \cup Tails => b.recorder = "off"
      /\ b.ui = "flush" => b.recorder = "on"
  BY <1>1 DEF Eased, PageHonest, Elsewhere, PutUi, PlainPut, Tails
<1>7. /\ b.ui = "tail-put" => taken \subseteq Saved
      /\ b.ui \in {"final-put", "ending"} /\ Claims(b.copy) => taken \subseteq server.stored
  BY <1>1 DEF Eased, PageHonest, Elsewhere, PutUi, PlainPut
<1>8. b.recorder = "on" \/ b.ui \in Tails => a.recorder = "on" \/ a.ui \in Tails
  BY <1>1, <1>2 DEF Eased, Elsewhere, PutUi, PlainPut, Tails, PageState
<1>9. b.recorder = "on" \/ b.ui \in Tails => ~lost /\ (~b.failed => taken \subseteq Saved' \cup Written(p, b))
  BY <1>1, <1>8 DEF Eased, PageHonest, Going
<1>10. Complete => Complete'
  <2>1. \A q \in Page : page[q].recorder = "off" => page'[q].recorder = "off"
    <3>1. b.recorder \in {a.recorder, "off"}
      BY <1>1 DEF Eased
    <3> QED
      BY <3>1 DEF OnlyPage
  <2> QED
    BY <2>1 DEF Complete, Going
<1>11. PageHonest(p, b)'
  BY <1>3, <1>4, <1>5, <1>6, <1>7, <1>9, <1>10 DEF PageHonest, Going, Written
<1> QED
  BY <1>11 DEF PageHonest, Written

\* Such a step leaves the record alone ...
LEMMA EasedStep ==
  ASSUME Going, NEW p \in Page, OnlyPage(p), Eased(p, page[p], page'[p]), UNCHANGED <<taken, lost, record>>
  PROVE  Honest'
<1>1. PageHonest(p, page[p])'
  BY EasedHonest
<1>2. RecordHonest /\ (p \notin Recorders => Bystander(page[p]))
  BY DEF Going, Honest
<1>3. p \notin Recorders => Bystander(page'[p])
  BY <1>2 DEF Eased
<1>4. page'[p].recorder \in {page[p].recorder, "off"}
  BY DEF Eased
<1> QED
  BY <1>1, <1>2, <1>3, <1>4, CalmStep DEF RecordHonest

\* ... or puts the record it has read, in another phase.
LEMMA EasedPut ==
  ASSUME Going, OneRecorder, NEW p \in Page, OnlyPage(p), Eased(p, page[p], page'[p]), UNCHANGED <<taken, lost>>,
         page[p].ui \in PutUi,
         NEW phase \in {"stop_requested", "flush_uncertain", "tail_durable", "loss_confirmed"},
         record' = [page[p].copy EXCEPT !.phase = phase],
         phase = "tail_durable" => page[p].ui = "tail-put"
  PROVE  Honest'
<1>1. RecordHonest /\ PageHonest(p, page[p]) /\ (p \notin Recorders => Bystander(page[p]))
  BY DEF Going, Honest
<1>2. record.phase # "none"
  BY <1>1 DEF PageHonest
<1>3. record'.phase = phase /\ record'.disp = page[p].copy.disp
  <2>1. page[p].copy \in Record
    BY DEF Going, IInv, TypeOK, PageState
  <2> QED
    BY <2>1 DEF Record
<1>4. PageHonest(p, page[p])'
  BY <1>2, <1>3, EasedHonest
<1>5. p \notin Recorders => Bystander(page'[p])
  BY <1>1 DEF Eased
<1>6. page[p].ui = "tail-put" => Complete
  <2>1. CASE p \in Recorders
    <3>1. taken \subseteq Saved \/ page[p].ui # "tail-put"
      BY <1>1 DEF PageHonest
    <3>2. page[p].ui = "tail-put" => ~lost /\ page[p].recorder = "off"
      BY <1>1 DEF PageHonest, Tails
    <3> QED
      BY <3>1, <3>2, <2>1 DEF OneRecorder, Complete, Going, Honest, Bystander
  <2>2. CASE p \notin Recorders
    BY <1>1, <2>2 DEF Bystander, RecorderUi
  <2> QED
    BY <2>1, <2>2
<1>7. Claims(record') => Complete
  BY <1>1, <1>3, <1>6 DEF Claims, PageHonest
<1>8. page'[p].recorder \in {page[p].recorder, "off"}
  BY DEF Eased
<1> QED
  BY <1>2, <1>3, <1>4, <1>5, <1>7, <1>8, CalmStep

Eases(p) == OnlyPage(p) /\ Eased(p, page[p], page'[p])

\* The page b that a becomes differs in what it does, not in what it has recorded.
LEMMA MovedEased ==
  ASSUME NEW p, NEW a \in PageState, NEW b,
         b.recorder = a.recorder, b.writes = a.writes,
         b.failed = a.failed \/ (b.recorder = "off" /\ b.ui \notin Tails),
         \/ b.ui = a.ui /\ b.copy = a.copy
         \/ b.ui \in Elsewhere /\ b.copy \in {a.copy, NoRecord, record}
         \/ b.ui \in PlainPut /\ b.copy \in {a.copy, record} /\ record.phase # "none",
         b.ui \in RecorderUi => a.ui \in RecorderUi \/ a.recorder = "on"
  PROVE  Eased(p, a, b)
<1>1. Bystander(a) => Bystander(b)
  BY DEF Bystander
<1>2. Written(p, a) \subseteq Saved' \cup Written(p, b) /\ a.failed \in BOOLEAN
  BY DEF Written, PageState
<1> QED
  BY <1>1, <1>2 DEF Eased

\* The operation of p goes on at ui.
LEMMA SetEased ==
  ASSUME Going, NEW p \in Page, NEW ui \in Elsewhere \cup PlainPut, NEW copy \in {page[p].copy, NoRecord, record},
         ui \in PlainPut => copy \in {page[p].copy, record} /\ record.phase # "none",
         ui \in RecorderUi => page[p].ui \in RecorderUi \/ page[p].recorder = "on",
         page' = [page EXCEPT ![p].ui = ui, ![p].copy = copy]
  PROVE  Eases(p)
<1>1. page \in [Page -> PageState] /\ page[p] \in PageState
  BY DEF Going, IInv, TypeOK
<1>2. /\ page'[p].ui = ui /\ page'[p].copy = copy /\ page'[p].recorder = page[p].recorder
      /\ page'[p].writes = page[p].writes /\ page'[p].failed = page[p].failed
      /\ OnlyPage(p)
  BY <1>1 DEF PageState, OnlyPage
<1>3. Eased(p, page[p], page'[p])
  BY <1>1, <1>2, MovedEased
<1> QED
  BY <1>2, <1>3 DEF Eases

\* Nothing of what a page knows of the recording changes.
LEMMA SameEased ==
  ASSUME Going, NEW p \in Page, OnlyPage(p),
         page'[p].ui = page[p].ui, page'[p].copy = page[p].copy, page'[p].recorder = page[p].recorder,
         page'[p].writes = page[p].writes, page'[p].failed = page[p].failed
  PROVE  Eases(p)
<1>1. page[p] \in PageState
  BY DEF Going, IInv, TypeOK
<1>2. Eased(p, page[p], page'[p])
  BY <1>1, MovedEased DEF RecorderUi
<1> QED
  BY <1>2 DEF Eases

\* A page that wants a drain, or whose drain is over.
LEMMA DrainEased ==
  ASSUME Going, NEW p \in Page, OnlyPage(p),
         Untouched(page[p], page'[p]) \/ EndedDrain(page[p], page'[p])
  PROVE  Eases(p)
<1> PICK a, b : a = page[p] /\ b = page'[p]
  OBVIOUS
<1>1. a \in PageState
  BY DEF Going, IInv, TypeOK
<1>2. /\ b.recorder = a.recorder /\ b.writes = a.writes /\ b.failed = a.failed
      /\ \/ b.ui = a.ui /\ b.copy = a.copy
         \/ b.ui \in {"idle", "final-check", "final-wait"} /\ b.copy \in {a.copy, NoRecord}
  BY DEF Untouched, EndedDrain
<1>3. {"idle", "final-check", "final-wait"} \subseteq Elsewhere
      /\ {"idle", "final-check", "final-wait"} \cap RecorderUi = {}
  BY DEF Elsewhere, UiState, PutUi, PlainPut, RecorderUi
<1>4. b.ui \in RecorderUi => a.ui \in RecorderUi
  BY <1>2, <1>3
<1>5. Eased(p, a, b)
  BY <1>1, <1>2, <1>3, <1>4, MovedEased
<1> QED
  BY <1>5 DEF Eases

\* A page that becomes r, and then wants a drain.
LEMMA WantedEased ==
  ASSUME Going, NEW p \in Page, NEW r \in PageState, NEW d, Untouched(r, d),
         page' = [page EXCEPT ![p] = d],
         r.recorder = page[p].recorder, r.writes = page[p].writes, r.failed = page[p].failed,
         \/ r.ui = page[p].ui /\ r.copy = page[p].copy
         \/ r.ui \in {"idle", "final-drain"} /\ r.copy \in {page[p].copy, NoRecord, record}
  PROVE  Eases(p)
<1>1. page[p] \in PageState /\ page'[p] = d /\ OnlyPage(p)
  BY DEF Going, IInv, TypeOK, OnlyPage
<1>2. {"idle", "final-drain", "final-wait"} \subseteq Elsewhere
      /\ {"idle", "final-drain", "final-wait"} \cap RecorderUi = {}
  BY DEF Elsewhere, UiState, PutUi, PlainPut, RecorderUi
<1>3. /\ d.recorder = page[p].recorder /\ d.writes = page[p].writes /\ d.failed = page[p].failed
      /\ d.copy = r.copy /\ (d.ui = r.ui \/ d.ui = "final-wait")
  BY DEF Untouched
<1>4. \/ d.ui = page[p].ui /\ d.copy = page[p].copy
      \/ d.ui \in {"idle", "final-drain", "final-wait"} /\ d.copy \in {page[p].copy, NoRecord, record}
  <2>1. CASE d.ui = r.ui
    BY <1>3, <2>1
  <2>2. CASE d.ui = "final-wait"
    BY <1>3, <2>2
  <2> QED
    BY <1>3, <2>1, <2>2
<1>5. d.ui \in RecorderUi => page[p].ui \in RecorderUi
  BY <1>2, <1>4
<1>6. Eased(p, page[p], d)
  BY <1>1, <1>2, <1>3, <1>4, <1>5, MovedEased
<1> QED
  BY <1>1, <1>6 DEF Eases

\* The recorder of p goes with what it has not delivered.
LEMMA GoneHonest ==
  ASSUME Going, OneRecorder, NEW p \in Page, Eases(p), UNCHANGED <<record, jobs, server, taken>>,
         lost' = (lost \/ page[p].recorder = "on"), page'[p].recorder = "off", page'[p].ui \notin Tails
  PROVE  Honest'
<1>1. page[p] \in PageState /\ lost \in BOOLEAN
  BY DEF Going, IInv, TypeOK
<1>2. CASE page[p].recorder = "off"
  <2>1. lost' = lost
    BY <1>1, <1>2
  <2> QED
    BY <2>1, EasedStep DEF Eases
<1>3. CASE page[p].recorder = "on"
  <2>1. p \in Recorders /\ ~Complete
    BY <1>3 DEF Going, Honest, Bystander, Complete
  <2> PICK a, b : a = page[p] /\ b = page'[p]
    OBVIOUS
  <2>2. RecordHonest /\ PageHonest(p, a) /\ Eased(p, a, b)
    BY DEF Going, Honest, Eases
  <2>3. ~Claims(b.copy) /\ (b.copy.phase = "none" => b.copy.disp = "none")
    <3>1. ~Claims(NoRecord) /\ NoRecord.disp = "none"
      BY DEF Claims, NoRecord
    <3> QED
      BY <2>1, <2>2, <3>1 DEF Eased, PageHonest, RecordHonest
  <2>4. record.phase # "none"
    BY <2>2, <1>3 DEF RecordHonest
  <2>5. b.ui \notin {"flush", "begin-put", "tail-put"}
    BY <2>2, <1>3 DEF Eased, PageHonest, Elsewhere, PlainPut, PutUi, Tails
  <2>6. PageHonest(p, b)'
    BY <2>3, <2>4, <2>5 DEF PageHonest
  <2>7. PageHonest(p, page[p])'
    BY <2>6 DEF PageHonest, Written
  <2> QED
    BY <1>3, <2>1, <2>7, RecorderStep DEF Eases
<1> QED
  BY <1>1, <1>2, <1>3 DEF PageState

LEMMA LoadingHonest ==
  ASSUME Going, OneRecorder, NEW p \in Page, Loading(p)
  PROVE  Honest'
<1>0. page \in [Page -> PageState] /\ page[p] \in PageState
  BY DEF Going, IInv, TypeOK
<1>h. RecordHonest /\ PageHonest(p, page[p])
  BY DEF Going, Honest
<1>e. ASSUME Eases(p), UNCHANGED <<taken, lost, record>> PROVE Honest'
  BY <1>e, EasedStep DEF Eases
<1>u. {"idle", "initialize", "broken", "stop-failed"} \subseteq Elsewhere
      /\ {"idle", "initialize", "broken", "initialize-put"} \cap (RecorderUi \cup Tails) = {}
  BY DEF Elsewhere, UiState, PutUi, PlainPut, RecorderUi, Tails
<1>1. ASSUME Load(p) \/ Unload(p) PROVE Eases(p) /\ page'[p].recorder = "off" /\ page'[p].ui \notin Tails
  <2>1. /\ OnlyPage(p) /\ page'[p].recorder = "off" /\ page'[p].writes = <<>>
        /\ page'[p].ui \in {"idle", "initialize"} /\ page'[p].copy = NoRecord
    <3>1. CASE Load(p)
      BY <1>0, <3>1 DEF Load, Blank, OnlyPage
    <3>2. CASE Unload(p)
      BY <1>0, <3>2 DEF Unload, Blank, OnlyPage
    <3> QED
      BY <1>1, <3>1, <3>2
  <2>2. page'[p].ui \notin Tails /\ Bystander(page'[p])
    BY <1>u, <2>1 DEF Bystander
  <2>3. Eased(p, page[p], page'[p])
    BY <1>u, <2>1, <2>2 DEF Eased
  <2> QED
    BY <2>1, <2>2, <2>3 DEF Eases
<1>2. CASE Load(p)
  BY <1>1, <1>2, <1>e DEF Load, Only, store, heard
<1>3. CASE Unload(p)
  BY <1>1, <1>3, GoneHonest DEF Unload, store
<1>4. CASE InitializeReads(p)
  <2>1. UNCHANGED <<taken, lost, record>> /\ page[p].ui = "initialize"
    BY <1>4 DEF InitializeReads, Only, heard, store, At
  <2>2. CASE Read(p, "initialize-put") /\ record.phase # "none"
    <3>1. page' = [page EXCEPT ![p].ui = "initialize-put", ![p].copy = record]
      BY <2>2 DEF Read
    <3>2. "initialize-put" \in PlainPut /\ "initialize-put" \notin RecorderUi
      BY DEF PlainPut, RecorderUi
    <3> QED
      BY <1>e, <2>1, <2>2, <3>1, <3>2, SetEased
  <2>3. CASE page' = Initialized(p)
    <3>1. /\ OnlyPage(p) /\ page'[p].ui = "idle" /\ page'[p].copy = NoRecord /\ page'[p].recorder = page[p].recorder
          /\ page'[p].writes = page[p].writes /\ page'[p].failed = page[p].failed
      BY <1>0, <2>3 DEF Initialized, PageState, OnlyPage
    <3>2. Eased(p, page[p], page'[p])
      BY <1>0, <1>u, <3>1, MovedEased
    <3> QED
      BY <1>e, <2>1, <3>1, <3>2 DEF Eases
  <2> QED
    BY <1>4, <2>2, <2>3 DEF InitializeReads
<1>5. CASE InitializePuts(p)
  <2>1. /\ OnlyPage(p) /\ page'[p].ui = "idle" /\ page'[p].copy = NoRecord /\ page'[p].recorder = page[p].recorder
        /\ page'[p].writes = page[p].writes /\ page'[p].failed = page[p].failed
    BY <1>0, <1>5 DEF InitializePuts, Initialized, PageState, OnlyPage
  <2>2. Eased(p, page[p], page'[p])
    BY <1>0, <1>u, <2>1, MovedEased
  <2>3. /\ page[p].ui = "initialize-put" /\ record' = [page[p].copy EXCEPT !.phase = "flush_uncertain"]
        /\ UNCHANGED <<taken, lost>>
    BY <1>5 DEF InitializePuts, At, heard
  <2>4. page[p].ui \in PutUi
    BY <2>3 DEF PutUi, PlainPut
  <2> QED
    BY <2>1, <2>2, <2>3, <2>4, EasedPut
<1>6. CASE RecordWriteFails(p)
  <2> DEFINE ui == Rejected(page[p].ui)
             copy == IF ui = "idle" THEN NoRecord ELSE page[p].copy
  <2>1. page' = [page EXCEPT ![p].ui = ui, ![p].copy = copy] /\ ui # page[p].ui
    BY <1>0, <1>6 DEF RecordWriteFails, Goto
  <2>2. ui \in {"broken", "uncertain-put", "stop-failed", "idle"}
        /\ (ui \in {"uncertain-put", "stop-failed"} => page[p].ui \in {"stop-put", "tail-put", "uncertain-put"})
    BY <2>1 DEF Rejected
  <2>3. ui \in Elsewhere \cup PlainPut /\ (ui \in PlainPut => ui = "uncertain-put")
    BY <1>u, <2>2 DEF PlainPut
  <2>4. copy \in {page[p].copy, NoRecord, record} /\ (ui \in PlainPut => copy \in {page[p].copy, record})
    BY <2>3
  <2>5. ui \in PlainPut => record.phase # "none"
    BY <1>h, <2>2, <2>3 DEF PageHonest, PutUi, PlainPut
  <2>6. ui \in RecorderUi => page[p].ui \in RecorderUi
    BY <1>u, <2>2 DEF RecorderUi
  <2>7. UNCHANGED <<taken, lost, record>>
    BY <1>6 DEF RecordWriteFails, store, heard
  <2> HIDE DEF ui, copy
  <2>8. Eases(p)
    BY <2>1, <2>3, <2>4, <2>5, <2>6, SetEased
  <2> QED
    BY <1>e, <2>7, <2>8
<1>7. CASE OtherWriteFails(p)
  <2>1. UNCHANGED <<taken, lost, record>>
    BY <1>7 DEF OtherWriteFails, store, heard
  <2>2. /\ OnlyPage(p)
        /\ page'[p].ui = page[p].ui /\ page'[p].copy = page[p].copy /\ page'[p].recorder = page[p].recorder
        /\ page'[p].writes = page[p].writes /\ page'[p].failed = page[p].failed
    <3>1. CASE page' = [page EXCEPT ![p].retry = FALSE, ![p].reset = {}]
      BY <1>0, <3>1 DEF PageState, OnlyPage
    <3>2. CASE page' = [page EXCEPT ![p].ack = "none"]
      BY <1>0, <3>2 DEF PageState, OnlyPage
    <3> QED
      BY <1>7, <3>1, <3>2 DEF OtherWriteFails
  <2> QED
    BY <1>e, <2>1, <2>2, SameEased
<1> QED
  BY <1>2, <1>3, <1>4, <1>5, <1>6, <1>7 DEF Loading

LEMMA UploadingHonest ==
  ASSUME Going, NEW p \in Page, Uploading(p)
  PROVE  Honest'
<1>0. page \in [Page -> PageState] /\ page[p] \in PageState /\ jobs \subseteq Chunk
  BY DEF Going, IInv, TypeOK
<1>w. UNCHANGED <<taken, lost, record>>
  BY DEF Uploading, DrainLists, Serve, UploadFails, DeleteJob, CountFailure, DrainWriteFails, Retry, RetryPuts,
     Only, store, heard
<1>e. Eases(p) => Honest'
  BY <1>w, EasedStep DEF Eases
<1>d. ASSUME NEW thrown \in BOOLEAN, DrainEnds(p, thrown) PROVE Eases(p)
  <2>1. EndedDrain(page[p], page'[p]) /\ OnlyPage(p)
    BY <1>d, DrainEndsEffect DEF Going, OnlyPage
  <2> QED
    BY <2>1, DrainEased
<1>s. ASSUME NEW drain, NEW job, NEW tries,
             page' = [page EXCEPT ![p].drain = drain, ![p].job = job, ![p].tries = tries]
      PROVE  Eases(p)
  <2>1. /\ OnlyPage(p)
        /\ page'[p].ui = page[p].ui /\ page'[p].copy = page[p].copy /\ page'[p].recorder = page[p].recorder
        /\ page'[p].writes = page[p].writes /\ page'[p].failed = page[p].failed
    BY <1>0, <1>s DEF PageState, OnlyPage
  <2> QED
    BY <2>1, SameEased
<1>t. ASSUME NEW drain, page' = [page EXCEPT ![p].drain = drain] PROVE Eases(p)
  <2>1. /\ OnlyPage(p)
        /\ page'[p].ui = page[p].ui /\ page'[p].copy = page[p].copy /\ page'[p].recorder = page[p].recorder
        /\ page'[p].writes = page[p].writes /\ page'[p].failed = page[p].failed
    BY <1>0, <1>t DEF PageState, OnlyPage
  <2> QED
    BY <2>1, SameEased
<1>1. CASE DrainLists(p)
  BY <1>1, <1>d, <1>e, <1>s DEF DrainLists
<1>2. CASE Serve(p) \/ UploadFails(p)
  BY <1>2, <1>e, <1>t DEF Serve, UploadFails
<1>3. CASE DeleteJob(p)
  BY <1>3, <1>e, <1>s DEF DeleteJob
<1>4. CASE CountFailure(p)
  BY <1>4, <1>d, <1>e, <1>s DEF CountFailure
<1>5. CASE DrainWriteFails(p)
  BY <1>5, <1>d, <1>e, <1>t DEF DrainWriteFails
<1>6. CASE Retry(p)
  <2>1. page' = [page EXCEPT ![p] = Retried(page[p])]
    BY <1>0, <1>6 DEF Retry
  <2>2. Untouched(page[p], Retried(page[p]))
    BY <1>0, RetriedEffect
  <2>3. Untouched(page[p], page'[p]) /\ OnlyPage(p)
    BY <1>0, <2>1, <2>2 DEF OnlyPage
  <2> QED
    BY <1>e, <2>3, DrainEased
<1>7. ASSUME NEW c \in Chunk, RetryPuts(p, c) PROVE Honest'
  <2> DEFINE r == [page[p] EXCEPT !.reset = @ \ {c}]
  <2>1. page' = [page EXCEPT ![p] = DrainIfWanted(r)]
    BY <1>7 DEF RetryPuts
  <2>2. /\ r \in PageState /\ r.recorder = page[p].recorder /\ r.writes = page[p].writes /\ r.failed = page[p].failed
        /\ r.ui = page[p].ui /\ r.copy = page[p].copy
    BY <1>0 DEF PageState
  <2> HIDE DEF r
  <2>3. Untouched(r, DrainIfWanted(r))
    BY <2>2, WantedEffect
  <2>4. Eases(p)
    BY <2>1, <2>2, <2>3, WantedEased
  <2> QED
    BY <1>e, <2>4
<1> QED
  BY <1>1, <1>2, <1>3, <1>4, <1>5, <1>6, <1>7 DEF Uploading

\* The page p goes on at ui, with the copy it has or the record it has read, to
\* end the session.
LEMMA FinalHonest ==
  ASSUME Going, NEW p \in Page, OnlyPage(p), UNCHANGED <<taken, lost>>,
         record'.phase = "none" <=> record.phase = "none",
         record'.phase = "none" => record' = record, Claims(record') => Complete,
         NEW ui \in {"confirm-put", "final-put", "ending"}, page'[p].ui = ui,
         page'[p].copy \in {page[p].copy, record}, page'[p].recorder = page[p].recorder,
         page'[p].writes = page[p].writes, page'[p].failed = page[p].failed,
         ui \in {"confirm-put", "final-put"} => record.phase # "none",
         ui = "confirm-put" => page[p].recorder = "off",
         ui \in {"final-put", "ending"} => (Claims(page'[p].copy) => taken \subseteq server.stored)
  PROVE  Honest'
<1> PICK a, b : a = page[p] /\ b = page'[p]
  OBVIOUS
<1>1. RecordHonest /\ PageHonest(p, a) /\ (p \notin Recorders => Bystander(a))
  BY DEF Going, Honest
<1>2. Claims(b.copy) => Complete
  BY <1>1 DEF PageHonest, RecordHonest
<1>3. Complete => Complete'
  BY DEF Complete, Going, OnlyPage
<1>4. ui \notin RecorderUi \cup Tails
  BY DEF RecorderUi, Tails
<1>5. /\ b.copy.phase # "none" => record.phase # "none"
      /\ b.copy.phase = "none" => b.copy.disp = "none"
  BY <1>1 DEF PageHonest, RecordHonest
<1>6. b.recorder = "on" => ~lost /\ (~b.failed => taken \subseteq Saved' \cup Written(p, b))
  BY <1>1 DEF PageHonest, Going, Written
<1>7. b.ui \in PutUi => record.phase # "none"
  BY DEF PutUi, PlainPut
<1>8. PageHonest(p, b)'
  BY <1>2, <1>3, <1>4, <1>5, <1>6, <1>7 DEF PageHonest, Going, Written
<1>9. PageHonest(p, page[p])'
  BY <1>8 DEF PageHonest, Written
<1>10. p \notin Recorders => Bystander(page'[p])
  BY <1>1, <1>4 DEF Bystander
<1> QED
  BY <1>9, <1>10, CalmStep

LEMMA EndingHonest ==
  ASSUME Going, OneRecorder, server'.phase # "ended", NEW p \in Page, Ending(p)
  PROVE  Honest'
<1>0. page \in [Page -> PageState] /\ page[p] \in PageState /\ server \in ServerType
  BY DEF Going, IInv, TypeOK, ServerType
<1>h. RecordHonest /\ PageHonest(p, page[p]) /\ Agrees(page[p], server)
  BY DEF Going, Honest, IInv, Agreement
<1>e. ASSUME Eases(p), UNCHANGED <<taken, lost, record>> PROVE Honest'
  BY <1>e, EasedStep DEF Eases
<1>u. "idle" \in Elsewhere /\ "idle" \notin RecorderUi /\ "final" \in Elsewhere /\ "final" \notin RecorderUi \cup Tails
  BY DEF Elsewhere, UiState, PutUi, PlainPut, RecorderUi, Tails
<1>1. CASE Confirm(p)
  <2>1. UNCHANGED <<taken, lost, record>> /\ page[p].recorder = "off" /\ record.phase = "flush_uncertain"
    BY <1>1 DEF Confirm, Only, store, heard
  <2>2. page' = [page EXCEPT ![p].ui = "confirm-put", ![p].copy = record]
    BY <1>1 DEF Confirm, Read
  <2>3. /\ OnlyPage(p) /\ page'[p].ui = "confirm-put" /\ page'[p].copy = record
        /\ page'[p].recorder = page[p].recorder
        /\ page'[p].writes = page[p].writes /\ page'[p].failed = page[p].failed
    BY <1>0, <2>2 DEF PageState, OnlyPage
  <2>4. Claims(record') => Complete
    BY <1>h, <2>1 DEF RecordHonest
  <2> QED
    BY <2>1, <2>3, <2>4, FinalHonest
<1>2. CASE ConfirmPuts(p)
  <2>1. /\ page[p].ui = "confirm-put" /\ record' = [page[p].copy EXCEPT !.phase = "loss_confirmed"]
        /\ UNCHANGED <<taken, lost>>
    BY <1>2 DEF ConfirmPuts, At, heard
  <2>2. /\ OnlyPage(p) /\ page'[p].ui = "final" /\ page'[p].copy = NoRecord /\ page'[p].recorder = page[p].recorder
        /\ page'[p].writes = page[p].writes
    BY <1>0, <1>2 DEF ConfirmPuts, PageState, OnlyPage
  <2>3. page[p].recorder = "off"
    BY <1>h, <2>1 DEF PageHonest
  <2>4. Eased(p, page[p], page'[p])
    BY <1>0, <1>u, <2>2, <2>3, MovedEased
  <2>5. page[p].ui \in PutUi
    BY <2>1 DEF PutUi
  <2> QED
    BY <2>1, <2>2, <2>4, <2>5, EasedPut
<1>3. CASE End(p)
  <2>1. UNCHANGED <<taken, lost, record>>
    BY <1>3 DEF End, Only, store, heard
  <2>2. CASE Read(p, "idle")
    <3>1. page' = [page EXCEPT ![p].ui = "idle", ![p].copy = NoRecord]
      BY <2>2 DEF Read
    <3>2. "idle" \notin PlainPut
      BY DEF PlainPut
    <3> QED
      BY <1>e, <1>u, <2>1, <3>1, <3>2, SetEased
  <2>3. CASE ~Read(p, "idle")
    <3> DEFINE r == [page[p] EXCEPT !.ui = "final-drain", !.copy = record]
    <3>1. page' = [page EXCEPT ![p] = DrainIfWanted(r)]
      BY <1>3, <2>3 DEF End
    <3>2. r \in PageState
      <4>1. record \in Record
        BY DEF Going, IInv, TypeOK
      <4> QED
        BY <1>0, <4>1 DEF PageState, UiState
    <3>3. /\ r.recorder = page[p].recorder /\ r.writes = page[p].writes /\ r.failed = page[p].failed
          /\ r.ui = "final-drain" /\ r.copy = record
      BY <1>0 DEF PageState
    <3> HIDE DEF r
    <3>4. Untouched(r, DrainIfWanted(r))
      BY <3>2, WantedEffect
    <3>5. Eases(p)
      BY <3>1, <3>2, <3>3, <3>4, WantedEased
    <3> QED
      BY <1>e, <2>1, <3>5
  <2> QED
    BY <2>2, <2>3
<1>4. CASE FinalChecks(p)
  <2>1. UNCHANGED <<taken, lost, record, jobs, server>>
    BY <1>4 DEF FinalChecks, Only, store, heard, world
  <2>2. CASE Goto(p, "idle")
    <3>1. page' = [page EXCEPT ![p].ui = "idle", ![p].copy = NoRecord]
      BY <2>2 DEF Goto
    <3>2. "idle" \notin PlainPut
      BY DEF PlainPut
    <3> QED
      BY <1>e, <1>u, <2>1, <3>1, <3>2, SetEased
  <2>3. ASSUME NEW ui \in {"final-put", "ending"}, Goto(p, ui), jobs = {},
               ui = "final-put" => page[p].copy.phase # "none"
        PROVE  Honest'
    <3>1. page' = [page EXCEPT ![p].ui = ui, ![p].copy = page[p].copy]
      BY <1>0, <2>3 DEF Goto
    <3>2. /\ OnlyPage(p) /\ page'[p].ui = ui /\ page'[p].copy = page[p].copy
          /\ page'[p].recorder = page[p].recorder
          /\ page'[p].writes = page[p].writes /\ page'[p].failed = page[p].failed
      BY <1>0, <3>1 DEF PageState, OnlyPage
    <3>3. Claims(page[p].copy) => taken \subseteq server.stored
      BY <1>h, <2>3 DEF PageHonest, Complete, Saved
    <3>4. ui = "final-put" => record.phase # "none"
      BY <1>h, <2>3 DEF PageHonest
    <3>5. Claims(record') => Complete
      BY <1>h, <2>1 DEF RecordHonest
    <3> QED
      BY <2>1, <3>2, <3>3, <3>4, <3>5, FinalHonest
  <2> QED
    BY <1>4, <2>2, <2>3 DEF FinalChecks
<1>5. CASE FinalPuts(p)
  <2>1. /\ page[p].ui = "final-put" /\ record' = [phase |-> "end_pending", disp |-> Disposition(page[p].copy)]
        /\ UNCHANGED <<taken, lost, jobs, server>>
    BY <1>5 DEF FinalPuts, At, heard, world
  <2>2. page' = [page EXCEPT ![p].ui = "ending", ![p].copy = page[p].copy]
    BY <1>0, <1>5 DEF FinalPuts, Goto
  <2>3. /\ OnlyPage(p) /\ page'[p].ui = "ending" /\ page'[p].copy = page[p].copy
        /\ page'[p].recorder = page[p].recorder
        /\ page'[p].writes = page[p].writes /\ page'[p].failed = page[p].failed
    BY <1>0, <2>2 DEF PageState, OnlyPage
  <2>4. record.phase # "none" /\ (Claims(page[p].copy) => taken \subseteq server.stored)
    BY <1>h, <2>1 DEF PageHonest, PutUi
  <2>5. Claims(record') => Complete
    <3>1. Claims(record') => Claims(page[p].copy)
      BY <2>1 DEF Claims, Disposition
    <3> QED
      BY <1>h, <3>1 DEF PageHonest
  <2>6. record'.phase # "none"
    BY <2>1
  <2> QED
    BY <2>1, <2>3, <2>4, <2>5, <2>6, FinalHonest
<1>6. CASE EndSucceeds(p)
  <2>1. server'.phase = "ended"
    BY <1>0, <1>6 DEF EndSucceeds, Ends, ServerType
  <2> QED
    BY <2>1
<1>7. CASE EndFails(p)
  <2>1. UNCHANGED <<taken, lost, record>>
    BY <1>7 DEF EndFails, store, heard
  <2>2. page' = [page EXCEPT ![p].ui = "idle", ![p].copy = NoRecord]
    BY <1>7 DEF EndFails, Goto
  <2>3. "idle" \notin PlainPut
    BY DEF PlainPut
  <2> QED
    BY <1>e, <1>u, <2>1, <2>2, <2>3, SetEased
<1>8. CASE DeleteRecord(p) \/ HearEnded(p) \/ AckChecks(p) \/ AckDeletes(p)
  BY <1>h, <1>8 DEF DeleteRecord, HearEnded, AckChecks, AckDeletes, At, SessionHasEnded, Agrees, Going
<1> QED
  BY <1>1, <1>2, <1>3, <1>4, <1>5, <1>6, <1>7, <1>8 DEF Ending

\* The first write of p is over: it has saved its chunk, or failed.
LEMMA WriteHonest ==
  ASSUME Going, NEW p \in Page, WriteReads(p) \/ WritePuts(p) \/ WriteFails(p)
  PROVE  Honest'
<1> DEFINE v == page[p].writes
<1>0. /\ page \in [Page -> PageState] /\ page[p] \in PageState
      /\ v \in Seq(Write) /\ v # <<>> /\ Head(v) = v[1]
  BY DEF Going, IInv, TypeOK, PageState, WriteReads, WritePuts, WriteFails
<1>1. UNCHANGED <<taken, lost, record>>
  BY DEF WriteReads, WritePuts, WriteFails, Only, heard, store
<1>2. 1 \in 1..Len(v) /\ \A i \in 1..Len(v) : v[i] \in Write
  <2>1. 1 \in 1..Len(v)
    <3> HIDE DEF v
    <3> QED
      BY <1>0, LenProperties, EmptySeq
  <2>2. \A i \in 1..Len(v) : v[i] \in Write
    BY <1>0
  <2> QED
    BY <2>1, <2>2
<1>3. /\ OnlyPage(p) /\ page'[p].recorder = page[p].recorder
      /\ page'[p].ui = page[p].ui /\ page'[p].copy = page[p].copy
  BY <1>0 DEF WriteReads, WritePuts, WriteFails, PageState, OnlyPage
<1>4. ASSUME NEW w, w = Tail(v) PROVE \A i \in 1..Len(v) : i = 1 \/ \E j \in 1..Len(w) : w[j] = v[i]
  <2>1. Len(v) = Len(w) + 1 /\ Len(w) \in Nat /\ \A j \in 1..Len(w) : w[j] = v[j + 1]
    BY <1>0, <1>4, LenProperties
  <2>2. ASSUME NEW i \in 1..Len(v), i # 1 PROVE i - 1 \in 1..Len(w) /\ w[i - 1] = v[i]
    BY <2>1, <2>2
  <2> QED
    BY <2>2
<1>5. page'[p].failed \/ (page'[p].failed = page[p].failed /\ Written(p, page[p]) \subseteq Saved' \cup Written(p, page'[p]))
  <2>1. CASE page'[p].writes = [v EXCEPT ![1].at = "put"] /\ page'[p].failed = page[p].failed
    <3> DEFINE w == page'[p].writes
    <3>1. w \in Seq(Write)
      BY DEF Going, IInv, TypeOK, PageState
    <3>2. DOMAIN w = DOMAIN v /\ \A i \in 1..Len(v) : w[i].n = v[i].n
      BY <1>0, <1>2, <2>1 DEF Write
    <3>3. Len(w) = Len(v)
      BY <1>0, <3>1, <3>2, LenProperties
    <3> HIDE DEF w
    <3>4. Written(p, page[p]) = {<<p, w[i].n>> : i \in 1..Len(w)}
      BY <3>2, <3>3 DEF Written
    <3> QED
      BY <2>1, <3>4 DEF Written, w
  <2>2. CASE WritePuts(p)
    <3>1. page'[p].writes = Tail(v) /\ page'[p].failed = page[p].failed /\ jobs' = jobs \cup {<<p, v[1].n>>}
      BY <1>0, <2>2 DEF WritePuts, PageState
    <3> PICK w : w = page'[p].writes
      OBVIOUS
    <3>2. \A i \in 1..Len(v) : <<p, v[i].n>> \in Saved' \/ \E j \in 1..Len(w) : w[j] = v[i]
      <4> TAKE i \in 1..Len(v)
      <4>1. CASE i = 1
        BY <3>1, <4>1 DEF Saved
      <4>2. CASE i # 1
        BY <1>4, <3>1, <4>2
      <4> QED
        BY <4>1, <4>2
    <3> QED
      BY <3>1, <3>2 DEF Written
  <2>3. CASE page'[p].failed
    BY <2>3
  <2>4. ASSUME WriteReads(p) \/ WriteFails(p), ~page'[p].failed
        PROVE  page'[p].writes = [v EXCEPT ![1].at = "put"] /\ page'[p].failed = page[p].failed
    <3>1. ~WriteFails(p)
      BY <1>0, <2>4 DEF WriteFails, PageState
    <3>2. page' = [page EXCEPT ![p].writes[1].at = "put"] \/ page' = [page EXCEPT ![p].writes = Tail(@), ![p].failed = TRUE]
      BY <2>4, <3>1 DEF WriteReads
    <3>3. page' = [page EXCEPT ![p].writes[1].at = "put"]
      BY <1>0, <2>4, <3>2 DEF PageState
    <3> QED
      BY <1>0, <3>3 DEF PageState
  <2> QED
    BY <2>1, <2>2, <2>3, <2>4
<1>6. ~Bystander(page[p]) /\ page[p].failed \in BOOLEAN /\ page'[p].failed \in BOOLEAN
  BY <1>0 DEF Bystander, Going, IInv, TypeOK, PageState
<1>7. Eased(p, page[p], page'[p])
  <2> PICK a, b : a = page[p] /\ b = page'[p]
    OBVIOUS
  <2>1. b.failed \/ (~a.failed /\ Written(p, a) \subseteq Saved' \cup Written(p, b))
    BY <1>5, <1>6
  <2>2. ~Bystander(a) /\ b.recorder = a.recorder /\ b.ui = a.ui /\ b.copy = a.copy
    BY <1>3, <1>6
  <2>3. Eased(p, a, b)
    BY <2>1, <2>2 DEF Eased
  <2> QED
    BY <2>3
<1> QED
  BY <1>1, <1>3, <1>7, EasedStep

\* The recorder of p delivers, at its end too: p becomes r, with its last chunk.
LEMMA DeliveredHonest ==
  ASSUME Going, OneRecorder, NEW p \in Page, NEW r \in PageState, Delivered(p, r),
         page[p].recorder = "on", UNCHANGED <<record, jobs, server>>,
         r.copy = page[p].copy, r.failed = page[p].failed, r.writes = page[p].writes,
         \/ r.ui = page[p].ui /\ (r.ui = "flush" => r.recorder = "on")
         \/ r.ui \in {"unexpected", "tail", "stop-failed"} /\ r.recorder = "off",
         r.recorder = "on" \/ r.ui = "tail" => lost' = lost
  PROVE  Honest'
<1>0. page \in [Page -> PageState] /\ p \in Recorders /\ ~Complete
  BY DEF Going, IInv, TypeOK, Honest, Bystander, Complete
<1>1. RecordHonest /\ PageHonest(p, page[p])
  BY DEF Going, Honest
<1>2. record.phase # "none" /\ ~Claims(r.copy)
  BY <1>0, <1>1 DEF RecordHonest, PageHonest
<1>3. r.ui \notin {"begin-put", "confirm-put", "tail-put"} /\ (r.ui = "tail" => r.recorder = "off")
  BY <1>1 DEF PageHonest, Tails
<1>4. ~lost /\ (~r.failed => taken \subseteq Saved \cup Written(p, r))
  BY <1>1 DEF PageHonest, Written
<1>5. PICK b \in PageState :
        /\ page'[p] = b /\ OnlyPage(p)
        /\ b.ui = r.ui /\ b.copy = r.copy /\ b.recorder = r.recorder /\ b.failed = r.failed
        /\ taken' \subseteq taken \cup Written(p, b) /\ Written(p, r) \subseteq Written(p, b)
  <2>1. CASE page' = [page EXCEPT ![p] = r] /\ UNCHANGED taken
    BY <1>0, <2>1 DEF OnlyPage
  <2>2. CASE ~(page' = [page EXCEPT ![p] = r] /\ UNCHANGED taken)
    <3> DEFINE w == [n |-> r.next, at |-> "read"]
               b == [r EXCEPT !.next = @ + 1, !.writes = Append(@, w)]
    <3>1. page' = [page EXCEPT ![p] = b] /\ taken' = taken \cup {<<p, r.next>>} /\ r.next <= MaxChunks
      BY <2>2 DEF Delivered
    <3>2. /\ b.ui = r.ui /\ b.copy = r.copy /\ b.recorder = r.recorder /\ b.failed = r.failed
          /\ b.writes = Append(r.writes, w) /\ w.n = r.next
      BY DEF PageState
    <3>3. w \in Write /\ r.writes \in Seq(Write)
      BY <3>1, UploadAssumption DEF Write, PageState
    <3>4. page'[p] = b /\ OnlyPage(p)
      BY <1>0, <3>1 DEF OnlyPage
    <3> HIDE DEF b
    <3>5. b \in PageState
      BY <3>4 DEF Going, IInv, TypeOK
    <3> HIDE DEF w
    <3>6. /\ Len(b.writes) = Len(r.writes) + 1 /\ Len(r.writes) \in Nat
          /\ \A i \in 1..Len(r.writes) : b.writes[i] = r.writes[i]
          /\ b.writes[Len(r.writes) + 1] = w
      BY <3>2, <3>3, AppendProperties, LenProperties
    <3>7. <<p, r.next>> \in Written(p, b)
      <4>1. Len(r.writes) + 1 \in 1..Len(b.writes)
        BY <3>6
      <4> QED
        BY <3>2, <3>6, <4>1 DEF Written
    <3>8. Written(p, r) \subseteq Written(p, b)
      <4>1. \A i \in 1..Len(r.writes) : i \in 1..Len(b.writes) /\ b.writes[i] = r.writes[i]
        BY <3>6
      <4> QED
        BY <4>1 DEF Written
    <3> QED
      BY <3>1, <3>2, <3>4, <3>5, <3>7, <3>8
  <2> QED
    BY <2>1, <2>2
<1>6. b.copy.phase = "none" => b.copy.disp = "none"
  BY <1>1, <1>5 DEF PageHonest
<1>7. b.recorder = "on" \/ b.ui \in Tails =>
        ~lost' /\ (~b.failed => taken' \subseteq Saved' \cup Written(p, b))
  BY <1>3, <1>4, <1>5 DEF Going, Tails
<1>8. PageHonest(p, b)'
  BY <1>2, <1>3, <1>5, <1>6, <1>7 DEF PageHonest, Written, Tails
<1>9. PageHonest(p, page[p])'
  BY <1>5, <1>8 DEF PageHonest, Written
<1> QED
  BY <1>0, <1>5, <1>9, RecorderStep

LEMMA RecordingHonest ==
  ASSUME Going, OneRecorder, NEW p \in Page, Recording(p)
  PROVE  Honest'
<1>0. page \in [Page -> PageState] /\ page[p] \in PageState /\ jobs \subseteq Chunk /\ record \in Record
  BY DEF Going, IInv, TypeOK
<1>h. RecordHonest /\ PageHonest(p, page[p]) /\ (p \notin Recorders => Bystander(page[p]))
  BY DEF Going, Honest
<1>e. ASSUME Eases(p), UNCHANGED <<taken, lost, record>> PROVE Honest'
  BY <1>e, EasedStep DEF Eases
<1>1. CASE Begin(p)
  <2>1. /\ UNCHANGED <<taken, lost, record, jobs, server>> /\ record.phase = "none"
        /\ page[p].ui = "idle" /\ page[p].recorder = "off" /\ p \in Recorders
    BY <1>1 DEF Begin, MayBegin, Only, store, heard, At, world
  <2>2. /\ OnlyPage(p) /\ page'[p].ui = "begin-put" /\ page'[p].copy = page[p].copy /\ page'[p].recorder = "off"
    BY <1>0, <1>1, <2>1 DEF Begin, PageState, OnlyPage
  <2> PICK b : b = page'[p]
    OBVIOUS
  <2>3. Claims(b.copy) => Complete
    BY <1>h, <2>2 DEF PageHonest
  <2>4. Complete => Complete'
    BY <2>1, <2>2 DEF Complete, Saved, OnlyPage
  <2>5. "begin-put" \notin Tails \cup PutUi
    BY DEF Tails, PutUi, PlainPut
  <2>6. PageHonest(p, b)'
    BY <1>h, <2>1, <2>2, <2>3, <2>4, <2>5 DEF PageHonest, Tails
  <2>7. PageHonest(p, page[p])'
    BY <2>6 DEF PageHonest, Written
  <2>8. Claims(record') => Complete
    BY <1>h, <2>1 DEF RecordHonest
  <2> QED
    BY <2>1, <2>2, <2>7, <2>8, CalmStep
<1>2. CASE BeginPuts(p)
  <2>1. p \in Recorders
    BY <1>h, <1>2 DEF BeginPuts, At, Bystander, RecorderUi
  <2> QED
    BY <1>2, <2>1, BegunStep
<1>3. CASE WriteReads(p) \/ WritePuts(p) \/ WriteFails(p)
  BY <1>3, WriteHonest
<1>4. CASE Deliver(p)
  <2>1. Delivered(p, page[p]) /\ page[p].recorder = "on" /\ UNCHANGED <<record, jobs, server, lost>>
    BY <1>4 DEF Deliver, store, world
  <2> QED
    BY <1>0, <2>1, DeliveredHonest
<1>5. CASE RecorderDies(p)
  <2> DEFINE ui == IF page[p].ui = "idle" THEN "unexpected" ELSE page[p].ui
             r == [page[p] EXCEPT !.recorder = "off", !.ui = ui]
  <2>1. ui \in UiState /\ (ui = "unexpected" \/ (ui = page[p].ui /\ ui = "stop-put"))
    BY <1>0, <1>5 DEF PageState, UiState, RecorderDies
  <2>2. Delivered(p, r) /\ page[p].recorder = "on" /\ UNCHANGED <<record, jobs, server, lost>>
    BY <1>5 DEF RecorderDies, store, world
  <2> HIDE DEF ui
  <2>3. r \in PageState
    BY <1>0, <2>1 DEF PageState
  <2>4. r.ui = ui /\ r.recorder = "off" /\ r.copy = page[p].copy /\ r.failed = page[p].failed /\ r.writes = page[p].writes
    BY <1>0 DEF PageState
  <2> HIDE DEF r
  <2> QED
    BY <2>1, <2>2, <2>3, <2>4, DeliveredHonest
<1>6. CASE UnexpectedReads(p)
  <2>1. UNCHANGED <<taken, lost, record>> /\ page[p].ui = "unexpected"
    BY <1>6 DEF UnexpectedReads, Only, store, heard, At
  <2>2. CASE record.phase = "recording"
    <3>1. page' = [page EXCEPT ![p].ui = "unexpected-put", ![p].copy = record]
      BY <1>6, <2>2 DEF UnexpectedReads, Read
    <3>2. "unexpected-put" \in PlainPut /\ page[p].ui \in RecorderUi
      BY <2>1 DEF PlainPut, RecorderUi
    <3> QED
      BY <1>e, <2>1, <2>2, <3>1, <3>2, SetEased
  <2>3. CASE record.phase # "recording"
    <3> DEFINE r == [page[p] EXCEPT !.ui = "idle"]
    <3>1. page' = [page EXCEPT ![p] = Retried(r)]
      BY <1>6, <2>3 DEF UnexpectedReads
    <3>2. /\ r \in PageState /\ r.ui = "idle" /\ r.copy = page[p].copy /\ r.recorder = page[p].recorder
          /\ r.writes = page[p].writes /\ r.failed = page[p].failed
      BY <1>0 DEF PageState, UiState
    <3> HIDE DEF r
    <3>3. Untouched(r, Retried(r))
      BY <1>0, <3>2, RetriedEffect
    <3>4. Eases(p)
      BY <3>1, <3>2, <3>3, WantedEased
    <3> QED
      BY <1>e, <2>1, <3>4
  <2> QED
    BY <2>2, <2>3
<1>7. CASE UnexpectedPuts(p)
  <2> DEFINE r == [page[p] EXCEPT !.ui = "idle", !.copy = NoRecord]
  <2>1. /\ UNCHANGED <<taken, lost>> /\ page[p].ui = "unexpected-put"
        /\ record' = [page[p].copy EXCEPT !.phase = "flush_uncertain"]
    BY <1>7 DEF UnexpectedPuts, At, heard
  <2>2. page' = [page EXCEPT ![p] = Retried(r)]
    BY <1>7 DEF UnexpectedPuts
  <2>3. NoRecord \in Record
    BY DEF NoRecord, Record
  <2>4. /\ r \in PageState /\ r.ui = "idle" /\ r.copy = NoRecord /\ r.recorder = page[p].recorder
        /\ r.writes = page[p].writes /\ r.failed = page[p].failed
    BY <1>0, <2>3 DEF PageState, UiState
  <2> HIDE DEF r
  <2>5. Untouched(r, Retried(r))
    BY <1>0, <2>4, RetriedEffect
  <2>6. Eases(p)
    BY <2>2, <2>4, <2>5, WantedEased
  <2>7. page[p].ui \in PutUi
    BY <2>1 DEF PutUi, PlainPut
  <2> QED
    BY <2>1, <2>6, <2>7, EasedPut DEF Eases
<1> QED
  BY <1>1, <1>2, <1>3, <1>4, <1>5, <1>6, <1>7 DEF Recording

LEMMA StoppingHonest ==
  ASSUME Going, OneRecorder, NEW p \in Page, Stopping(p)
  PROVE  Honest'
<1>0. page \in [Page -> PageState] /\ page[p] \in PageState /\ jobs \subseteq Chunk /\ record \in Record
  BY DEF Going, IInv, TypeOK
<1>h. RecordHonest /\ PageHonest(p, page[p]) /\ (p \notin Recorders => Bystander(page[p]))
  BY DEF Going, Honest
<1>e. ASSUME Eases(p), UNCHANGED <<taken, lost, record>> PROVE Honest'
  BY <1>e, EasedStep DEF Eases
<1>u. /\ {"idle", "stop-failed"} \subseteq Elsewhere
      /\ {"idle", "stop-failed"} \cap (PlainPut \cup Tails) = {}
      /\ {"stop-put", "uncertain-put", "stop-failed-put"} \subseteq PlainPut
      /\ {"stop-put", "uncertain-put", "stop-failed-put", "flush", "tail", "tail-put", "stop-failed"} \subseteq RecorderUi
      /\ "idle" \notin RecorderUi
  BY DEF Elsewhere, UiState, PutUi, PlainPut, RecorderUi, Tails
\* The operation goes on at ui with the record it has read.
<1>r. ASSUME NEW ui \in {"stop-failed", "uncertain-put", "stop-put"}, Read(p, ui), UNCHANGED <<taken, lost, record>>,
             page[p].ui \in RecorderUi \/ page[p].recorder = "on", ui # "stop-failed" => record.phase # "none"
      PROVE  Honest'
  <2>1. page' = [page EXCEPT ![p].ui = ui, ![p].copy = record]
    BY <1>r DEF Read
  <2>2. ui \in Elsewhere \cup PlainPut /\ (ui \in PlainPut => record.phase # "none")
    BY <1>r, <1>u
  <2>3. Eases(p)
    BY <1>r, <2>1, <2>2, SetEased
  <2> QED
    BY <1>e, <1>r, <2>3
\* It puts the record it has read, and goes on at ui.
<1>p. ASSUME NEW ui \in {"stop-failed", "idle"}, NEW phase \in {"stop_requested", "flush_uncertain"}, Put(p, phase, ui),
             UNCHANGED <<taken, lost>>, page[p].ui \in PlainPut, page[p].ui \in RecorderUi
      PROVE  Honest'
  <2>1. /\ page' = [page EXCEPT ![p].ui = ui, ![p].copy = NoRecord]
        /\ record' = [page[p].copy EXCEPT !.phase = phase]
    BY <1>p DEF Put
  <2>2. ui \in Elsewhere /\ ui \notin PlainPut /\ page[p].ui \in PutUi
    BY <1>p, <1>u DEF PutUi
  <2>3. Eases(p)
    BY <1>p, <2>1, <2>2, SetEased
  <2> QED
    BY <1>p, <2>1, <2>2, <2>3, EasedPut DEF Eases
<1>1. CASE Stop(p)
  <2>1. UNCHANGED <<taken, lost, record>> /\ page[p].recorder = "on"
    BY <1>1 DEF Stop, Only, store, heard
  <2> QED
    BY <1>1, <1>r, <2>1 DEF Stop
<1>2. CASE StopPuts(p)
  <2>1. UNCHANGED <<taken, lost, jobs, server>> /\ page[p].ui = "stop-put" /\ page[p].ui \in PlainPut
    BY <1>2 DEF StopPuts, At, heard, world, PlainPut
  <2>2. CASE page[p].recorder # "on"
    BY <1>2, <1>p, <1>u, <2>1, <2>2 DEF StopPuts
  <2>3. CASE page[p].recorder = "on"
    <3>1. /\ page' = [page EXCEPT ![p].ui = "flush", ![p].copy = NoRecord]
          /\ record' = [page[p].copy EXCEPT !.phase = "stop_requested"]
      BY <1>2, <2>3 DEF StopPuts, Put
    <3>2. /\ OnlyPage(p) /\ page'[p].ui = "flush" /\ page'[p].copy = NoRecord /\ page'[p].recorder = "on"
          /\ page'[p].writes = page[p].writes /\ page'[p].failed = page[p].failed
      BY <1>0, <2>3, <3>1 DEF PageState, OnlyPage
    <3>3. record'.phase = "stop_requested" /\ record'.disp = page[p].copy.disp /\ record.phase # "none"
      <4>1. page[p].copy \in Record
        BY <1>0 DEF PageState
      <4> QED
        BY <1>h, <2>1, <3>1, <4>1 DEF Record, PageHonest, PutUi
    <3>4. Claims(record') => Complete
      BY <1>h, <3>3 DEF Claims, PageHonest
    <3> PICK b : b = page'[p]
      OBVIOUS
    <3>5. ~lost /\ (~b.failed => taken \subseteq Saved' \cup Written(p, b))
      BY <1>h, <2>1, <2>3, <3>2 DEF PageHonest, Going, Written
    <3>6. ~Claims(NoRecord) /\ NoRecord.disp = "none" /\ NoRecord.phase = "none"
      BY DEF Claims, NoRecord
    <3>7. "flush" \notin Tails \cup PutUi
      BY DEF Tails, PutUi, PlainPut
    <3>8. PageHonest(p, b)'
      BY <2>1, <3>2, <3>3, <3>5, <3>6, <3>7 DEF PageHonest, Written
    <3>9. PageHonest(p, page[p])' /\ p \in Recorders
      BY <1>h, <2>3, <3>8 DEF PageHonest, Written, Bystander
    <3> QED
      BY <2>1, <2>3, <3>2, <3>3, <3>4, <3>9, CalmStep
  <2> QED
    BY <2>2, <2>3
<1>3. CASE Flush(p) \/ FlushFails(p)
  <2> DEFINE r == [page[p] EXCEPT !.recorder = "off", !.ui = "tail"]
             f == [page[p] EXCEPT !.recorder = "off", !.ui = "stop-failed"]
  <2>1. (Delivered(p, r) /\ lost' = lost) \/ Delivered(p, f)
    BY <1>3 DEF Flush, FlushFails
  <2>2. UNCHANGED <<record, jobs, server>> /\ page[p].ui = "flush"
    BY <1>3 DEF Flush, FlushFails, store, world, At
  <2>3. page[p].recorder = "on"
    BY <1>h, <2>2 DEF PageHonest
  <2>4. r \in PageState
    BY <1>0 DEF PageState, UiState
  <2>5. f \in PageState
    BY <1>0 DEF PageState, UiState
  <2>6. /\ r.ui = "tail" /\ r.recorder = "off" /\ r.copy = page[p].copy /\ r.failed = page[p].failed /\ r.writes = page[p].writes
        /\ f.ui = "stop-failed" /\ f.recorder = "off" /\ f.copy = page[p].copy /\ f.failed = page[p].failed /\ f.writes = page[p].writes
    BY <1>0 DEF PageState
  <2> HIDE DEF r, f
  <2>7. CASE Delivered(p, r) /\ lost' = lost
    BY <2>2, <2>3, <2>4, <2>6, <2>7, DeliveredHonest
  <2>8. CASE Delivered(p, f)
    BY <2>2, <2>3, <2>5, <2>6, <2>8, DeliveredHonest
  <2> QED
    BY <2>1, <2>7, <2>8
<1>4. CASE TailReads(p)
  <2>1. UNCHANGED <<taken, lost, record, jobs, server>> /\ page[p].ui = "tail" /\ page[p].writes = <<>>
    BY <1>4 DEF TailReads, Only, store, heard, world, At, Settled
  <2>2. CASE ~TailIsSafe(p)
    BY <1>4, <1>r, <1>u, <2>1, <2>2 DEF TailReads
  <2>3. CASE TailIsSafe(p)
    <3>1. page' = [page EXCEPT ![p].ui = "tail-put", ![p].copy = record] /\ record.phase = "stop_requested" /\ ~page[p].failed
      BY <1>4, <2>3 DEF TailReads, TailIsSafe, Read
    <3>2. /\ OnlyPage(p) /\ page'[p].ui = "tail-put" /\ page'[p].copy = record /\ page'[p].recorder = page[p].recorder
          /\ page'[p].writes = page[p].writes /\ page'[p].failed = page[p].failed
      BY <1>0, <3>1 DEF PageState, OnlyPage
    <3>3. Written(p, page[p]) = {}
      <4> DEFINE w == <<>>
      <4>1. Len(w) = 0 /\ 1..Len(w) = {}
        OBVIOUS
      <4> QED
        BY <2>1, <4>1 DEF Written
    <3>4. page[p].recorder = "off" /\ ~lost /\ taken \subseteq Saved
      BY <1>h, <2>1, <3>1, <3>3 DEF PageHonest, Tails
    <3>5. Claims(record) => Complete
      BY <1>h DEF RecordHonest
    <3>6. Complete => Complete'
      BY <2>1, <3>2 DEF Complete, Saved, OnlyPage
    <3> PICK b : b = page'[p]
      OBVIOUS
    <3>7. b.ui = "tail-put" /\ b.copy = record /\ b.recorder = "off"
      BY <3>2, <3>4
    <3>8. taken' \subseteq Saved' /\ ~lost'
      BY <2>1, <3>4 DEF Saved
    <3>9. PageHonest(p, b)'
      BY <2>1, <3>1, <3>5, <3>6, <3>7, <3>8 DEF PageHonest, Tails, PutUi
    <3>10. PageHonest(p, page[p])' /\ p \in Recorders
      BY <1>h, <1>u, <2>1, <3>9 DEF PageHonest, Written, Bystander
    <3> QED
      BY <2>1, <3>1, <3>2, <3>5, <3>10, CalmStep
  <2> QED
    BY <2>2, <2>3
<1>5. CASE TailPuts(p)
  <2> DEFINE r == [page[p] EXCEPT !.ui = "idle", !.copy = NoRecord]
  <2>1. /\ UNCHANGED <<taken, lost>> /\ page[p].ui = "tail-put"
        /\ record' = [page[p].copy EXCEPT !.phase = "tail_durable"]
    BY <1>5 DEF TailPuts, At, heard
  <2>2. page' = [page EXCEPT ![p] = Retried(r)]
    BY <1>5 DEF TailPuts
  <2>3. NoRecord \in Record
    BY DEF NoRecord, Record
  <2>4. /\ r \in PageState /\ r.ui = "idle" /\ r.copy = NoRecord /\ r.recorder = page[p].recorder
        /\ r.writes = page[p].writes /\ r.failed = page[p].failed
    BY <1>0, <2>3 DEF PageState, UiState
  <2> HIDE DEF r
  <2>5. Untouched(r, Retried(r))
    BY <1>0, <2>4, RetriedEffect
  <2>6. Eases(p)
    BY <2>2, <2>4, <2>5, WantedEased
  <2>7. page[p].ui \in PutUi
    BY <2>1 DEF PutUi
  <2> QED
    BY <2>1, <2>6, <2>7, EasedPut DEF Eases
<1>6. CASE UncertainPuts(p)
  <2>1. UNCHANGED <<taken, lost>> /\ page[p].ui = "uncertain-put"
    BY <1>6 DEF UncertainPuts, At, heard
  <2> QED
    BY <1>6, <1>p, <1>u, <2>1 DEF UncertainPuts
<1>7. CASE StopFailedPuts(p)
  <2>1. UNCHANGED <<taken, lost>> /\ page[p].ui = "stop-failed-put"
    BY <1>7 DEF StopFailedPuts, At, heard
  <2> QED
    BY <1>7, <1>p, <1>u, <2>1 DEF StopFailedPuts
<1>8. CASE StopFailedReads(p)
  <2> DEFINE more == record.phase \in {"recording", "stop_requested"}
             ui == IF more THEN "stop-failed-put" ELSE "idle"
             copy == IF more THEN record ELSE NoRecord
  <2>1. /\ page' = [page EXCEPT ![p].ui = ui, ![p].copy = copy, ![p].recorder = "off"]
        /\ lost' = (lost \/ page[p].recorder = "on") /\ UNCHANGED <<record, jobs, server, taken>>
        /\ page[p].ui = "stop-failed"
    BY <1>8 DEF StopFailedReads, store, world, At
  <2>2. \/ ui = "stop-failed-put" /\ copy = record /\ record.phase # "none"
        \/ ui = "idle" /\ copy = NoRecord
    OBVIOUS
  <2> HIDE DEF ui, copy
  <2>3. /\ OnlyPage(p) /\ page'[p].ui = ui /\ page'[p].copy = copy /\ page'[p].recorder = "off"
        /\ page'[p].writes = page[p].writes /\ page'[p].failed = page[p].failed
    BY <1>0, <2>1 DEF PageState, OnlyPage
  <2>4. ui \notin Tails
    BY <1>u, <2>2 DEF Tails
  <2>5. Bystander(page[p]) => Bystander(page'[p])
    BY <1>u, <2>1 DEF Bystander
  <2>6. Eased(p, page[p], page'[p])
    BY <1>u, <2>2, <2>3, <2>4, <2>5 DEF Eased
  <2> QED
    BY <2>1, <2>3, <2>4, <2>6, GoneHonest DEF Eases
<1> QED
  BY <1>1, <1>2, <1>3, <1>4, <1>5, <1>6, <1>7, <1>8 DEF Stopping

LEMMA IdleHonest ==
  ASSUME Going, UNCHANGED <<page, record, taken, lost>>
  PROVE  Honest'
<1>1. Complete => Complete'
  BY DEF Complete, Going
<1>2. RecordHonest'
  BY <1>1 DEF RecordHonest, Going, Honest
<1>3. ASSUME NEW p \in Page PROVE PageHonest(p, page[p])'
  <2> PICK a : a = page[p]
    OBVIOUS
  <2>1. PageHonest(p, a)
    BY DEF Going, Honest
  <2>2. PageHonest(p, a)'
    BY <1>1, <2>1 DEF PageHonest, Going, Written
  <2> QED
    BY <2>2 DEF PageHonest, Written
<1> QED
  BY <1>2, <1>3 DEF Honest, Going

LEMMA HonestStep == OneRecorder /\ IInv /\ Honest /\ [Next]_vars => Honest'
<1> SUFFICES ASSUME OneRecorder, IInv, Honest, [Next]_vars, server'.phase # "ended" PROVE Honest'
  BY DEF Honest
<1>1. Going
  <2>1. IInv'
    BY Step
  <2>2. ServerGrows
    BY ServerStep
  <2>3. jobs \subseteq jobs' \cup server'.stored
    BY JobsStep
  <2> QED
    BY <2>1, <2>2, <2>3 DEF Going, ServerGrows, Saved
<1>2. ASSUME NEW p \in Page, Loading(p) \/ Recording(p) \/ Stopping(p) \/ Uploading(p) \/ Ending(p)
      PROVE  Honest'
  BY <1>1, <1>2, LoadingHonest, RecordingHonest, StoppingHonest, UploadingHonest, EndingHonest
<1>3. ASSUME NEW c \in Chunk, ServeLate(c) PROVE Honest'
  BY <1>1, <1>3, IdleHonest DEF ServeLate, store, heard
<1>4. CASE OthersEnd
  BY <1>1, <1>4, IdleHonest DEF OthersEnd, store, heard
<1>5. CASE UNCHANGED vars
  BY <1>1, <1>5, IdleHonest DEF vars
<1> QED
  BY <1>2, <1>3, <1>4, <1>5 DEF Next

\* Only the end that carries the disposition of a page makes the tail durable.
LEMMA DurableEnd ==
  ASSUME IInv, Honest, [Next]_vars, server.disp # "durable", server'.disp = "durable"
  PROVE  taken \subseteq server.stored /\ ~lost /\ \A p \in Page : page[p].recorder = "off"
<1>0. server \in ServerType
  BY DEF IInv, TypeOK, ServerType
<1>1. server' # server
  OBVIOUS
<1>2. ASSUME NEW c, Served(c) PROVE FALSE
  BY <1>0, <1>2 DEF Served, ServerType
<1>3. ASSUME NEW disp, NEW phase, Ends(disp, phase) PROVE disp = "durable" /\ server.phase # "ended"
  BY <1>0, <1>3 DEF Ends, ServerType
<1>4. ASSUME NEW p \in Page, Ending(p)
      PROVE  server.phase # "ended" /\ page[p].ui = "ending" /\ Disposition(page[p].copy) = "durable"
  <2>1. CASE EndSucceeds(p) \/ EndFails(p)
    <3>1. page[p].ui = "ending"
      BY <2>1 DEF EndSucceeds, EndFails, At
    <3>2. \E phase : Ends(Disposition(page[p].copy), phase)
      BY <1>1, <2>1 DEF EndSucceeds, EndFails
    <3> QED
      BY <1>3, <3>1, <3>2
  <2>2. CASE ~(EndSucceeds(p) \/ EndFails(p))
    BY <1>1, <1>4, <2>2 DEF Ending, Confirm, ConfirmPuts, End, FinalChecks, FinalPuts, DeleteRecord, HearEnded,
       AckChecks, AckDeletes, Only, world
  <2> QED
    BY <2>1, <2>2
<1>5. ASSUME NEW p \in Page, Loading(p) \/ Recording(p) \/ Stopping(p) PROVE FALSE
  BY <1>1, <1>5 DEF Loading, Load, InitializeReads, InitializePuts, Unload, RecordWriteFails, OtherWriteFails,
     Recording, Begin, BeginPuts, Deliver, WriteReads, WritePuts, WriteFails, RecorderDies, UnexpectedReads,
     UnexpectedPuts, Stopping, Stop, StopPuts, Flush, FlushFails, TailReads, TailPuts, UncertainPuts,
     StopFailedReads, StopFailedPuts, Only, world
<1>6. ASSUME NEW p \in Page, Uploading(p) PROVE FALSE
  <2>1. CASE Serve(p)
    BY <1>2, <2>1 DEF Serve
  <2> QED
    BY <1>1, <1>6, <2>1 DEF Uploading, DrainLists, UploadFails, DeleteJob, CountFailure, DrainWriteFails, Retry,
       RetryPuts, Only, world
<1>7. ASSUME NEW c \in Chunk, ServeLate(c) PROVE FALSE
  BY <1>2, <1>7 DEF ServeLate
<1>8. CASE OthersEnd
  BY <1>3, <1>8 DEF OthersEnd
<1>9. ASSUME NEW p \in Page, Ending(p)
      PROVE  taken \subseteq server.stored /\ ~lost /\ \A q \in Page : page[q].recorder = "off"
  BY <1>4, <1>9, EndIsComplete
<1>10. ~UNCHANGED vars
  BY <1>1 DEF vars
<1> QED
  BY <1>5, <1>6, <1>7, <1>8, <1>9, <1>10 DEF Next

\* If the session is recorded on one page, whatever fails and in whatever order the
\* flows of the pages go on: when the service is told that the tail is durable, it has
\* every chunk the recorder delivered, and nothing is still recorded or was lost
\* (requestStop, markTailDurable, finalizeSession).
THEOREM DurableTailIsComplete == ASSUME OneRecorder PROVE Spec => DurableEndIsComplete
<1>1. Init => IInv /\ Honest
  <2> SUFFICES ASSUME Init PROVE Honest
    BY Initially
  <2>1. /\ record.phase = "none" /\ record.disp = "none" /\ taken = {} /\ ~lost
        /\ \A p \in Page : page[p] = Blank
    BY DEF Init, NoRecord
  <2>2. RecordHonest
    BY <2>1 DEF RecordHonest, Claims, Blank
  <2>3. ASSUME NEW p \in Page PROVE PageHonest(p, page[p]) /\ Bystander(page[p])
    BY <2>1 DEF PageHonest, Bystander, Blank, NoRecord, Claims, Tails, PutUi, PlainPut, RecorderUi
  <2> QED
    BY <2>2, <2>3 DEF Honest
<1>2. IInv /\ Honest /\ [Next]_vars => (IInv /\ Honest)'
  BY Step, HonestStep
<1>3. IInv /\ Honest /\ [Next]_vars =>
        [server.disp # "durable" /\ server'.disp = "durable" =>
           /\ taken \subseteq server.stored /\ ~lost
           /\ \A p \in Page : page[p].recorder = "off"]_vars
  BY DurableEnd
<1> QED
  BY <1>1, <1>2, <1>3, PTL DEF Spec, DurableEndIsComplete

=============================================================================
