------------------------------- MODULE StreamCopy ------------------------------
(***************************************************************************)
(* Target.CopyTable: the copy of one table.  Four parties interleave:       *)
(*                                                                          *)
(*  - the caller's goroutine, which runs CopyTable and, inside it, pgx's    *)
(*    CopyFrom (pgx: external, modelled from how CopyTable uses it);        *)
(*  - the producer, the goroutine newStreamCopySource starts: it runs       *)
(*    Source.StreamTable and pushes each row into a bounded channel;        *)
(*  - the encoder, the goroutine pgx starts: it pulls rows through Next and *)
(*    Values, checks Err after each buffer, and hands the buffer over;      *)
(*  - the PostgreSQL session that executes the COPY (external).             *)
(*                                                                          *)
(* Rows are numbered in the order the source query returns them.  A row's   *)
(* columns are left out: both the SELECT list and the COPY list are         *)
(* table.Columns in the same order.                                         *)
(***************************************************************************)
EXTENDS Naturals, Sequences

CONSTANTS
    NumRows,            (* rows the source query returns when it is not cut short *)
    Capacity            (* capacity of the rows channel: 128 in the code *)

ASSUME NumRowsAssumption == NumRows \in Nat
ASSUME CapacityAssumption == Capacity \in Nat \ {0}

VARIABLES
    ctxDone,            (* the run's context is cancelled (SIGINT, SIGTERM) *)
    copyCancelled,      (* cancelCopy has been called *)
    main,               (* where the caller's goroutine is *)
    copyErr,            (* CopyFrom ended with an error *)
    result,             (* what CopyTable returned *)
    prod,               (* where the producer goroutine is *)
    scanned,            (* rows the producer has read from the source *)
    streamErr,          (* what StreamTable returned to the producer *)
    rows,               (* streamCopySource.rows: the buffered channel *)
    closed,             (* the channel is closed *)
    err,                (* streamCopySource.err *)
    finished,           (* streamCopySource.finished *)
    current,            (* streamCopySource.current *)
    enc,                (* where the encoder goroutine is *)
    buf,                (* rows encoded and not yet handed to the connection *)
    pipe,               (* how the encoder closed its end of the pipe *)
    endMsg,             (* CopyDone or CopyFail, once sent *)
    srv,                (* the COPY as the PostgreSQL session sees it *)
    sent,               (* rows handed to the connection *)
    fault               (* history: something failed or was cancelled *)

mainVars == <<copyCancelled, main, copyErr, result>>
prodVars == <<prod, scanned, streamErr, closed>>
encVars  == <<finished, current, enc, buf, pipe, sent>>
chanVars == <<rows, err>>
srvVars  == <<endMsg, srv>>
vars == <<ctxDone, fault, mainVars, prodVars, encVars, chanVars, srvVars>>

NoErr == "none"
NoRow == 0
Errors == {NoErr, "source", "canceled"}

AllRows == [i \in 1..NumRows |-> i]

TypeOK ==
    /\ ctxDone \in BOOLEAN
    /\ copyCancelled \in BOOLEAN
    /\ main \in {"acquire", "prepare", "streaming", "awaiting", "draining",
                 "cancel", "check", "returned"}
    /\ copyErr \in BOOLEAN
    /\ result \in {"pending", "ok", "error"}
    /\ prod \in {"idle", "query", "next", "send", "setErr", "close", "done"}
    /\ scanned \in 0..NumRows
    /\ streamErr \in Errors
    /\ rows \in Seq(1..NumRows) /\ Len(rows) <= Capacity
    /\ closed \in BOOLEAN
    /\ err \in Errors
    /\ finished \in BOOLEAN
    /\ current \in 0..NumRows
    /\ enc \in {"idle", "next", "values", "check", "write", "done"}
    /\ buf \in Seq(1..NumRows)
    /\ pipe \in {"open", "eof", "error"}
    /\ endMsg \in {"none", "done", "fail"}
    /\ srv \in {"idle", "copying", "committed", "aborted"}
    /\ sent \in Seq(1..NumRows)
    /\ fault \in BOOLEAN

Init ==
    /\ ctxDone = FALSE /\ fault = FALSE
    /\ copyCancelled = FALSE /\ main = "acquire" /\ copyErr = FALSE /\ result = "pending"
    /\ prod = "idle" /\ scanned = 0 /\ streamErr = NoErr /\ closed = FALSE
    /\ finished = FALSE /\ current = NoRow /\ enc = "idle" /\ buf = <<>> /\ pipe = "open"
    /\ sent = <<>>
    /\ rows = <<>> /\ err = NoErr
    /\ endMsg = "none" /\ srv = "idle"

-------------------------------------------------------------------------------
(* The environment and the contexts. *)

\* The process receives SIGINT or SIGTERM while the table is being copied.
CancelRun ==
    /\ ~ctxDone /\ result = "pending"
    /\ ctxDone' = TRUE /\ fault' = TRUE
    /\ UNCHANGED <<mainVars, prodVars, encVars, chanVars, srvVars>>

\* Mutant: the copy's context is cancelled as soon as the copy starts.
CopyCtxDoneEarly == ctxDone \/ main # "acquire"

\* copyCtx is derived from the run's context and cancelled by cancelCopy.
CopyCtxDone == ctxDone \/ copyCancelled

\* setErr: the first error is kept, nil is ignored.
SetErr(e) == err' = IF err = NoErr THEN e ELSE err

-------------------------------------------------------------------------------
(* The producer: StreamTable and the goroutine around it. *)

\* Mutant: rows.Err is not consulted after the row loop.
RowsErrIgnored == NoErr

\* rows.Err after a loop that a failed read ended early.
RowsErr == "source"

\* Mutant: the source query runs under context.Background.
SourceIgnoresCancel == FALSE

\* The source query runs under the run's context, not under copyCtx.
SourceSeesCancel == ctxDone

\* Mutant: handleRow waits for the channel only.
SendIgnoresCancel == FALSE

\* handleRow's select also waits on copyCtx.
SendSeesCancel == CopyCtxDone

\* Mutant: the channel takes one row more than it was made for.
CanPushOffByOne == Len(rows) <= Capacity

CanPush == Len(rows) < Capacity

StreamEnds(e) ==
    /\ prod' = "setErr"
    /\ streamErr' = e
    /\ UNCHANGED <<ctxDone, mainVars, scanned, closed, encVars, chanVars, srvVars>>

QueryOk ==
    /\ prod = "query"
    /\ prod' = "next"
    /\ UNCHANGED <<ctxDone, fault, mainVars, scanned, streamErr, closed, encVars, chanVars, srvVars>>

QueryFail ==
    /\ prod = "query"
    /\ fault' = TRUE
    /\ StreamEnds("source")

\* rows.Next, rows.Scan into the shared scan slice, a fresh copy of the row.
ScanRow ==
    /\ prod = "next" /\ scanned < NumRows
    /\ scanned' = scanned + 1
    /\ prod' = "send"
    /\ UNCHANGED <<ctxDone, fault, mainVars, streamErr, closed, encVars, chanVars, srvVars>>

ScanEnd ==
    /\ prod = "next" /\ scanned = NumRows
    /\ StreamEnds(NoErr)
    /\ UNCHANGED fault

\* The driver loses the connection, or a row cannot be scanned.
ScanFail ==
    /\ prod = "next"
    /\ fault' = TRUE
    /\ StreamEnds(RowsErr)

\* The driver gives up on the query, or on the next row, once its context is done.
SourceCancelled ==
    /\ prod \in {"query", "next"} /\ SourceSeesCancel
    /\ StreamEnds("canceled")
    /\ UNCHANGED fault

\* Mutant: the select has a default case, so a full channel loses the row.
PushOrDropRow ==
    /\ prod = "send"
    /\ rows' = IF CanPush THEN Append(rows, scanned) ELSE rows
    /\ prod' = "next"
    /\ UNCHANGED <<ctxDone, fault, mainVars, scanned, streamErr, closed, encVars, err, srvVars>>

PushRow ==
    /\ prod = "send" /\ CanPush
    /\ rows' = Append(rows, scanned)
    /\ prod' = "next"
    /\ UNCHANGED <<ctxDone, fault, mainVars, scanned, streamErr, closed, encVars, err, srvVars>>

SendCancelled ==
    /\ prod = "send" /\ SendSeesCancel
    /\ StreamEnds("canceled")
    /\ UNCHANGED fault

StoreErr ==
    /\ prod = "setErr"
    /\ SetErr(streamErr)
    /\ prod' = "close"
    /\ UNCHANGED <<ctxDone, fault, mainVars, scanned, streamErr, closed, encVars, rows, srvVars>>

CloseRows ==
    /\ prod = "close"
    /\ closed' = TRUE
    /\ prod' = "done"
    /\ UNCHANGED <<ctxDone, fault, mainVars, scanned, streamErr, encVars, chanVars, srvVars>>

-------------------------------------------------------------------------------
(* The encoder: pgx pulling the rows out of streamCopySource. *)

\* Mutant: the channel is closed before the stream's error is stored.
RowsClosedEarly == prod \in {"setErr", "close", "done"}

\* Mutant: the producer never closes the channel.
RowsNeverClosed == FALSE

\* A receive from the empty channel reports that it is closed.
RowsClosed == closed

NextRow ==
    /\ enc = "next" /\ ~finished /\ rows # <<>>
    /\ current' = Head(rows)
    /\ rows' = Tail(rows)
    /\ enc' = "values"
    /\ UNCHANGED <<ctxDone, fault, mainVars, prodVars, finished, buf, pipe, sent, err, srvVars>>

NextClosed ==
    /\ enc = "next" /\ ~finished /\ rows = <<>> /\ RowsClosed
    /\ finished' = TRUE
    /\ enc' = "check"
    /\ UNCHANGED <<ctxDone, fault, mainVars, prodVars, current, buf, pipe, sent, chanVars, srvVars>>

\* The select may choose the context even when a row is ready.
NextCancelled ==
    /\ enc = "next" /\ ~finished /\ CopyCtxDone
    /\ SetErr("canceled")
    /\ finished' = TRUE
    /\ enc' = "check"
    /\ UNCHANGED <<ctxDone, fault, mainVars, prodVars, current, buf, pipe, sent, rows, srvVars>>

\* Values, then pgx encodes the row; it stops to flush when its buffer is full.
EncodeRow ==
    /\ enc = "values"
    /\ buf' = Append(buf, current)
    /\ current' = NoRow
    /\ enc' \in {"next", "check"}
    /\ UNCHANGED <<ctxDone, fault, mainVars, prodVars, finished, pipe, sent, chanVars, srvVars>>

\* A value has no encoding for the column's type.
EncodeFail ==
    /\ enc = "values"
    /\ current' = NoRow
    /\ pipe' = "error" /\ enc' = "done"
    /\ fault' = TRUE
    /\ UNCHANGED <<ctxDone, mainVars, prodVars, finished, buf, sent, chanVars, srvVars>>

\* Mutant: pgx would stream on whatever Err says.
ErrUnseen == FALSE

ErrSeen == err # NoErr

CheckErrFails ==
    /\ enc = "check" /\ ErrSeen
    /\ pipe' = "error" /\ enc' = "done"
    /\ UNCHANGED <<ctxDone, fault, mainVars, prodVars, finished, current, buf, sent, chanVars, srvVars>>

CheckErrPasses ==
    /\ enc = "check" /\ ~ErrSeen
    /\ IF buf # <<>>
       THEN enc' = "write" /\ UNCHANGED pipe
       ELSE enc' = "done" /\ pipe' = "eof"
    /\ UNCHANGED <<ctxDone, fault, mainVars, prodVars, finished, current, buf, sent, chanVars, srvVars>>

\* The connection takes the buffer; after the last one the pipe is closed.
Write ==
    /\ enc = "write" /\ main = "streaming"
    /\ sent' = sent \o buf
    /\ buf' = <<>>
    /\ IF finished
       THEN enc' = "done" /\ pipe' = "eof"
       ELSE enc' = "next" /\ UNCHANGED pipe
    /\ UNCHANGED <<ctxDone, fault, mainVars, prodVars, finished, current, chanVars, srvVars>>

\* CopyFrom has stopped reading.
WriteFails ==
    /\ enc = "write" /\ main = "draining"
    /\ enc' = "done" /\ pipe' = "error"
    /\ UNCHANGED <<ctxDone, fault, mainVars, prodVars, finished, current, buf, sent, chanVars, srvVars>>

-------------------------------------------------------------------------------
(* The caller: CopyTable, and CopyFrom up to its return. *)

CopyFromStops(failed) ==
    /\ main' = "draining"
    /\ copyErr' = failed
    /\ UNCHANGED <<ctxDone, copyCancelled, result, prodVars, encVars, chanVars>>

Acquire ==
    /\ main = "acquire"
    /\ main' = "prepare"
    /\ prod' = "query"
    /\ UNCHANGED <<ctxDone, fault, copyCancelled, copyErr, result, scanned, streamErr, closed,
                   encVars, chanVars, srvVars>>

\* No connection: CopyTable returns before the stream exists.
AcquireFail ==
    /\ main = "acquire"
    /\ main' = "returned" /\ result' = "error"
    /\ fault' = TRUE
    /\ UNCHANGED <<ctxDone, copyCancelled, copyErr, prodVars, encVars, chanVars, srvVars>>

\* pgx describes the target columns, starts the encoder and sends the COPY.
Prepare ==
    /\ main = "prepare"
    /\ main' = "streaming" /\ enc' = "next" /\ srv' = "copying"
    /\ UNCHANGED <<ctxDone, fault, copyCancelled, copyErr, result, prodVars, finished, current,
                   buf, pipe, sent, chanVars, endMsg>>

\* The producer is running, but nothing will ever read from it.
PrepareFail ==
    /\ main = "prepare"
    /\ main' = "cancel" /\ copyErr' = TRUE
    /\ fault' = TRUE
    /\ UNCHANGED <<ctxDone, copyCancelled, result, prodVars, encVars, chanVars, srvVars>>

SendCopyDone ==
    /\ main = "streaming" /\ pipe = "eof"
    /\ endMsg' = "done" /\ main' = "awaiting"
    /\ UNCHANGED <<ctxDone, fault, copyCancelled, copyErr, result, prodVars, encVars, chanVars, srv>>

SendCopyFail ==
    /\ main = "streaming" /\ pipe = "error"
    /\ endMsg' = "fail" /\ main' = "awaiting"
    /\ UNCHANGED <<ctxDone, fault, copyCancelled, copyErr, result, prodVars, encVars, chanVars, srv>>

\* The server's verdict arrives: an error at any time, success after CopyDone.
ServerAnswers ==
    /\ \/ main = "streaming" /\ srv = "aborted"
       \/ main = "awaiting" /\ srv \in {"committed", "aborted"}
    /\ CopyFromStops(srv = "aborted")
    /\ UNCHANGED <<fault, srvVars>>

\* pgx closes the connection when its context is done.
ContextBreaksConn ==
    /\ main \in {"streaming", "awaiting"} /\ CopyCtxDone
    /\ CopyFromStops(TRUE)
    /\ UNCHANGED <<fault, srvVars>>

NetworkBreaksConn ==
    /\ main \in {"streaming", "awaiting"}
    /\ fault' = TRUE
    /\ CopyFromStops(TRUE)
    /\ UNCHANGED srvVars

\* CopyFrom waits for its encoder goroutine before it returns.
EncoderJoined ==
    /\ main = "draining" /\ enc = "done"
    /\ main' = "cancel"
    /\ UNCHANGED <<ctxDone, fault, copyCancelled, copyErr, result, prodVars, encVars, chanVars, srvVars>>

CancelCopy ==
    /\ main = "cancel"
    /\ copyCancelled' = TRUE
    /\ main' = "check"
    /\ UNCHANGED <<ctxDone, fault, copyErr, result, prodVars, encVars, chanVars, srvVars>>

\* CopyFrom's error first, then copySource.Err.
Return ==
    /\ main = "check"
    /\ main' = "returned"
    /\ result' = IF copyErr \/ err # NoErr THEN "error" ELSE "ok"
    /\ UNCHANGED <<ctxDone, fault, copyCancelled, copyErr, prodVars, encVars, chanVars, srvVars>>

-------------------------------------------------------------------------------
(* The PostgreSQL session. *)

ServerEnds(verdict) ==
    /\ srv' = verdict
    /\ UNCHANGED <<ctxDone, mainVars, prodVars, encVars, chanVars, endMsg>>

ServerCommit ==
    /\ srv = "copying" /\ endMsg = "done"
    /\ ServerEnds("committed")
    /\ UNCHANGED fault

\* CopyFail, or a client that went away without having ended the COPY.
ServerRollback ==
    /\ srv = "copying"
    /\ \/ endMsg = "fail"
       \/ endMsg = "none" /\ main \notin {"streaming", "awaiting"}
    /\ ServerEnds("aborted")
    /\ UNCHANGED fault

\* A violated constraint, a bad value, no space left, a crash.
ServerError ==
    /\ srv = "copying"
    /\ fault' = TRUE
    /\ ServerEnds("aborted")

-------------------------------------------------------------------------------
\* Steps of the code itself.
ProducerStep == PushRow \/ SendCancelled \/ StoreErr \/ CloseRows
EncoderStep ==
    \/ NextRow \/ NextClosed \/ NextCancelled \/ EncodeRow
    \/ CheckErrFails \/ CheckErrPasses \/ WriteFails
CallerStep == SendCopyDone \/ SendCopyFail \/ EncoderJoined \/ CancelCopy \/ Return

\* Steps that wait for SQL Server or PostgreSQL to respond.
SourceStep == QueryOk \/ ScanRow \/ ScanEnd
TargetStep == Acquire \/ Prepare \/ Write \/ ServerAnswers
ServerStep == ServerCommit \/ ServerRollback

\* Steps by which a cancelled context ends a wait.
AbandonStep ==
    \/ SourceCancelled \/ ContextBreaksConn
    \/ ctxDone /\ (AcquireFail \/ PrepareFail)

FaultStep ==
    \/ CancelRun \/ QueryFail \/ ScanFail \/ EncodeFail
    \/ AcquireFail \/ PrepareFail \/ NetworkBreaksConn \/ ServerError

Next ==
    \/ ProducerStep \/ EncoderStep \/ CallerStep
    \/ SourceStep \/ TargetStep \/ ServerStep \/ AbandonStep
    \/ FaultStep

Spec == Init /\ [][Next]_vars

\* Go runs every runnable goroutine; either server may stop responding for good.
HungSpec ==
    /\ Spec
    /\ WF_vars(ProducerStep) /\ WF_vars(EncoderStep) /\ WF_vars(CallerStep)
    /\ WF_vars(AbandonStep)

\* Neither server stops responding.
ServersRespond == WF_vars(SourceStep) /\ WF_vars(TargetStep) /\ WF_vars(ServerStep)

-------------------------------------------------------------------------------
(* Properties. *)

\* PostgreSQL commits the COPY only with every source row, each once and in
\* order.  An interrupted source query must never look like the end of the
\* table: setErr runs before the deferred close of the channel, and pgx asks
\* Err after each buffer.
CommittedIsComplete == srv = "committed" => sent = AllRows

\* Until the encoder gives up, the rows sent, encoded, held by the encoder and
\* waiting in the channel are, in that order, the first rows of the table; and
\* together with the one in the producer's hand they are all the rows read so
\* far.  The channel neither drops, repeats nor reorders a row.
Follows(s, k) == \A i \in 1..Len(s) : s[i] = k + i      (* rows k + 1, k + 2, ... *)
Held == IF current = NoRow THEN 0 ELSE 1
InHand == IF prod = "send" THEN 1 ELSE 0
Taken == Len(sent) + Len(buf) + Held

RowsConserved ==
    pipe # "error" =>
        /\ Follows(sent, 0)
        /\ Follows(buf, Len(sent))
        /\ current # NoRow => current = Taken
        /\ Follows(rows, Taken)
        /\ streamErr = NoErr => scanned = Taken + Len(rows) + InHand

\* When CopyFrom has succeeded the producer has ended without an error, so
\* cancelCopy, which comes before the last look at copySource.Err, cannot turn
\* the success into "context canceled".
CancelComesTooLate ==
    main \in {"cancel", "check"} /\ ~copyErr => prod = "done" /\ err = NoErr

\* CopyTable reports an error only when something failed or the run was
\* cancelled: no interleaving of the goroutines makes a healthy copy fail.
NoSpuriousError == result = "error" => fault

\* When both servers respond CopyTable returns: nobody waits for ever on the channel,
\* the pipe or the server, whatever fails and whenever the run is cancelled.
Termination == ServersRespond => <>(main = "returned")

\* The producer CopyTable leaves behind on an error ends too when both servers
\* respond; CopyTable does not wait for it.
ProducerStops == ServersRespond => (main = "returned" ~> prod \in {"idle", "done"})

\* Cancelling the run ends CopyTable and the producer even when neither server
\* ever responds again.
CancelUnblocks == ctxDone ~> main = "returned" /\ prod \in {"idle", "done"}

-------------------------------------------------------------------------------
(* The inductive invariant behind the safety properties. *)

\* Who is active while the caller is where it is.
Phases ==
    /\ main = "acquire" => prod = "idle"
    /\ main \in {"acquire", "prepare"} => enc = "idle" /\ pipe = "open" /\ srv = "idle"
    /\ main \in {"cancel", "check", "returned"} => enc \in {"idle", "done"}
    /\ main # "returned" => result = "pending"
    /\ copyCancelled => main \in {"check", "returned"}
    /\ main \in {"check", "returned"} /\ srv # "idle" => copyCancelled
    /\ endMsg # "none" => main \notin {"acquire", "prepare", "streaming"}
    /\ enc = "values" <=> current # NoRow
    /\ enc = "check" /\ ~finished => buf # <<>>
    /\ pipe # "open" => enc = "done"
    /\ prod = "send" => scanned > 0
    /\ closed => prod = "done"

\* How the end of the source query reaches the end of the COPY.
StreamEnded ==
    /\ prod \notin {"setErr", "close", "done"} => streamErr = NoErr
    /\ prod \in {"setErr", "close", "done"} /\ streamErr = NoErr => scanned = NumRows
    /\ prod \in {"close", "done"} /\ err = NoErr => streamErr = NoErr
    /\ finished /\ err = NoErr => closed /\ rows = <<>>
    /\ finished /\ enc = "write" => err = NoErr
    /\ pipe = "eof" => finished /\ err = NoErr /\ buf = <<>>

\* What is true once an end-of-COPY message, a verdict or a result exists.
Verdicts ==
    /\ endMsg = "done" => pipe = "eof"
    /\ srv = "committed" => endMsg = "done"
    /\ (main \in {"draining", "cancel", "check"} \/ copyCancelled) /\ ~copyErr =>
           srv = "committed"
    /\ result = "ok" => srv = "committed"

\* Whatever makes CopyTable fail goes back to a failure or a cancellation.
FaultRecorded ==
    (\/ ctxDone \/ copyErr \/ streamErr # NoErr \/ err # NoErr
     \/ pipe = "error" \/ endMsg = "fail" \/ srv = "aborted" \/ result = "error")
    => fault

\* What every step of the copy preserves; it implies the properties above.
IInv == TypeOK /\ Phases /\ StreamEnded /\ RowsConserved /\ Verdicts /\ FaultRecorded

-------------------------------------------------------------------------------
(* The refinement. *)

Contract == INSTANCE TableCopy WITH
    table <- IF srv = "committed" THEN sent ELSE <<>>,
    outcome <- result

\* CopyTable keeps the contract of TableCopy: the table is loaded in one step,
\* with every row, and success is reported only once it is.
KeepsContract == Contract!Spec

================================================================================
