---------------------------- MODULE StreamCopyProof ----------------------------
(***************************************************************************)
(* Proofs about StreamCopy, for every number of rows and every capacity of  *)
(* the channel: IInv is inductive, the safety properties follow from it,    *)
(* and CopyTable keeps the contract of TableCopy.                           *)
(***************************************************************************)
EXTENDS StreamCopy, SequenceTheorems, TLAPS

USE NumRowsAssumption, CapacityAssumption

-------------------------------------------------------------------------------
(* Runs of consecutive row numbers. *)

\* A row pushed behind rows k + 1, k + 2, ... continues them.
LEMMA FollowsAppend ==
    ASSUME NEW s \in Seq(1..NumRows), NEW k \in Nat, NEW e \in 1..NumRows,
           Follows(s, k), e = k + Len(s) + 1
    PROVE  Follows(Append(s, e), k)
BY AppendProperties DEF Follows

\* Taking the first of rows k + 1, k + 2, ... yields row k + 1 and leaves the rest.
LEMMA FollowsTail ==
    ASSUME NEW s \in Seq(1..NumRows), s # <<>>, NEW k \in Nat, Follows(s, k)
    PROVE  Head(s) = k + 1 /\ Follows(Tail(s), k + 1)
<1>1. /\ Len(s) \in Nat \ {0} /\ Head(s) = s[1] /\ Len(Tail(s)) = Len(s) - 1
      /\ \A i \in 1..Len(Tail(s)) : Tail(s)[i] = s[i + 1]
  BY HeadTailProperties
<1> QED BY <1>1 DEF Follows

\* A buffer that continues the rows sent so far can be sent behind them.
LEMMA FollowsConcat ==
    ASSUME NEW s \in Seq(1..NumRows), NEW t \in Seq(1..NumRows), NEW k \in Nat,
           Follows(s, k), Follows(t, k + Len(s))
    PROVE  Follows(s \o t, k)
<1>1. /\ Len(s) \in Nat /\ Len(t) \in Nat /\ Len(s \o t) = Len(s) + Len(t)
      /\ \A i \in 1..Len(s) + Len(t) :
            (s \o t)[i] = IF i <= Len(s) THEN s[i] ELSE t[i - Len(s)]
  BY ConcatProperties
<1> QED BY <1>1 DEF Follows

\* PushRow appends the next row to the channel.
LEMMA PushRowRows ==
    IInv /\ PushRow =>
        /\ rows' \in Seq(1..NumRows) /\ Len(rows') = Len(rows) + 1
        /\ pipe # "error" => Follows(rows', Taken)
<1> SUFFICES ASSUME IInv, PushRow
             PROVE  /\ rows' \in Seq(1..NumRows) /\ Len(rows') = Len(rows) + 1
                    /\ pipe # "error" => Follows(rows', Taken)
  OBVIOUS
<1>1. rows \in Seq(1..NumRows) /\ scanned \in 1..NumRows /\ rows' = Append(rows, scanned)
  BY DEF IInv, TypeOK, Phases, PushRow
<1>2. pipe # "error" => Taken \in Nat /\ Follows(rows, Taken) /\ scanned = Taken + Len(rows) + 1
  BY DEF IInv, TypeOK, StreamEnded, RowsConserved, InHand, Taken, Held, PushRow
<1> QED BY <1>1, <1>2, FollowsAppend, AppendProperties

\* NextRow takes the oldest row out of the channel.
LEMMA NextRowRows ==
    IInv /\ NextRow =>
        /\ rows' \in Seq(1..NumRows) /\ Len(rows') \in Nat /\ Len(rows') < Len(rows)
        /\ current' \in 1..NumRows
        /\ RowsConserved'
<1> SUFFICES ASSUME IInv, NextRow
             PROVE  /\ rows' \in Seq(1..NumRows) /\ Len(rows') \in Nat /\ Len(rows') < Len(rows)
                    /\ current' \in 1..NumRows
                    /\ RowsConserved'
  OBVIOUS
<1>1. /\ rows \in Seq(1..NumRows) /\ rows # <<>> /\ current = 0
      /\ current' = Head(rows) /\ rows' = Tail(rows)
  BY DEF IInv, TypeOK, Phases, NextRow, NoRow
<1>2. /\ rows' \in Seq(1..NumRows) /\ Len(rows) \in Nat /\ Len(rows') = Len(rows) - 1
      /\ current' \in 1..NumRows /\ Len(rows') \in Nat
  BY <1>1, HeadTailProperties, LenProperties
<1>3. Taken \in Nat /\ Taken' = Taken + 1
  <2>1. sent' = sent /\ buf' = buf /\ Held = 0 /\ Held' = 1
    BY <1>1, <1>2 DEF NextRow, Held, NoRow
  <2>2. Len(sent) \in Nat /\ Len(buf) \in Nat
    BY LenProperties DEF IInv, TypeOK
  <2> QED BY <2>1, <2>2 DEF Taken
<1>4. pipe # "error" => current' = Taken' /\ Follows(rows', Taken')
  BY <1>1, <1>3, FollowsTail DEF IInv, RowsConserved
<1>5. RowsConserved'
  BY <1>2, <1>3, <1>4 DEF IInv, RowsConserved, InHand, NextRow, prodVars
<1> QED BY <1>2, <1>5

\* EncodeRow appends the encoder's row to its buffer.
LEMMA EncodeRowRows ==
    IInv /\ EncodeRow =>
        /\ buf' \in Seq(1..NumRows) /\ buf' # <<>> /\ Len(buf') = Len(buf) + 1
        /\ pipe # "error" => Follows(buf', Len(sent))
<1> SUFFICES ASSUME IInv, EncodeRow
             PROVE  /\ buf' \in Seq(1..NumRows) /\ buf' # <<>> /\ Len(buf') = Len(buf) + 1
                    /\ pipe # "error" => Follows(buf', Len(sent))
  OBVIOUS
<1>1. buf \in Seq(1..NumRows) /\ current \in 1..NumRows /\ buf' = Append(buf, current)
  BY DEF IInv, TypeOK, Phases, EncodeRow, NoRow
<1>2. pipe # "error" =>
          Len(sent) \in Nat /\ Follows(buf, Len(sent)) /\ current = Len(sent) + Len(buf) + 1
  BY DEF IInv, TypeOK, Phases, RowsConserved, Taken, Held, EncodeRow
<1> QED BY <1>1, <1>2, FollowsAppend, AppendProperties

\* Write sends the buffer behind the rows sent before and empties it.
LEMMA WriteRows ==
    IInv /\ Write =>
        /\ sent' \in Seq(1..NumRows) /\ Len(sent') = Len(sent) + Len(buf)
        /\ buf' \in Seq(1..NumRows) /\ Len(buf') = 0 /\ Follows(buf', Len(sent'))
        /\ pipe # "error" => Follows(sent', 0)
<1> SUFFICES ASSUME IInv, Write
             PROVE  /\ sent' \in Seq(1..NumRows) /\ Len(sent') = Len(sent) + Len(buf)
                    /\ buf' \in Seq(1..NumRows) /\ Len(buf') = 0 /\ Follows(buf', Len(sent'))
                    /\ pipe # "error" => Follows(sent', 0)
  OBVIOUS
<1>1. sent \in Seq(1..NumRows) /\ buf \in Seq(1..NumRows) /\ sent' = sent \o buf /\ buf' = <<>>
  BY DEF IInv, TypeOK, Write
<1>2. pipe # "error" => Follows(sent, 0) /\ Follows(buf, 0 + Len(sent))
  BY <1>1, LenProperties DEF IInv, RowsConserved
<1>3. Len(buf') = 0 /\ buf' \in Seq(1..NumRows) /\ Follows(buf', Len(sent'))
  BY <1>1 DEF Follows
<1> QED BY <1>1, <1>2, <1>3, FollowsConcat, ConcatProperties

-------------------------------------------------------------------------------
(* IInv is inductive: one lemma for each group of actions. *)

\* CopyTable starts in a state that satisfies the inductive invariant.
LEMMA InitIInv == Init => IInv
<1> SUFFICES ASSUME Init PROVE IInv
  OBVIOUS
<1> USE DEF Init, NoErr, NoRow, Errors
<1>1. TypeOK
  <2>1. /\ rows \in Seq(1..NumRows) /\ Len(rows) <= Capacity
        /\ buf \in Seq(1..NumRows) /\ sent \in Seq(1..NumRows)
    OBVIOUS
  <2>2. scanned \in 0..NumRows /\ current \in 0..NumRows
    OBVIOUS
  <2> QED BY <2>1, <2>2 DEF TypeOK
<1>2. RowsConserved
  BY DEF RowsConserved, Follows, Taken, Held, InHand
<1>3. Phases /\ StreamEnded /\ Verdicts /\ FaultRecorded
  BY DEF Phases, StreamEnded, Verdicts, FaultRecorded
<1> QED BY <1>1, <1>2, <1>3 DEF IInv

\* Steps of the producer preserve the inductive invariant.
LEMMA ProducerStepIInv == IInv /\ ProducerStep => IInv'
<1> SUFFICES ASSUME IInv, ProducerStep PROVE IInv'
  OBVIOUS
<1> USE DEF IInv, TypeOK, Phases, StreamEnded, RowsConserved, Verdicts, FaultRecorded,
            Held, InHand, Taken, NoErr, NoRow, Errors,
            mainVars, prodVars, encVars, chanVars, srvVars
<1>1. CASE PushRow
  BY <1>1, PushRowRows DEF PushRow, CanPush
<1>2. CASE SendCancelled
  BY <1>2 DEF SendCancelled, StreamEnds, SendSeesCancel, CopyCtxDone
<1>3. CASE StoreErr
  BY <1>3 DEF StoreErr, SetErr
<1>4. CASE CloseRows
  BY <1>4 DEF CloseRows
<1> QED BY <1>1, <1>2, <1>3, <1>4 DEF ProducerStep

\* Steps of the encoder preserve the inductive invariant.
LEMMA EncoderStepIInv == IInv /\ EncoderStep => IInv'
<1> SUFFICES ASSUME IInv, EncoderStep PROVE IInv'
  OBVIOUS
<1> USE DEF IInv, TypeOK, Phases, StreamEnded, RowsConserved, Verdicts, FaultRecorded,
            Held, InHand, Taken, NoErr, NoRow, Errors,
            mainVars, prodVars, encVars, chanVars, srvVars
<1>1. CASE NextRow
  <2>1. TypeOK' /\ Phases'
    BY <1>1, NextRowRows DEF NextRow
  <2>2. StreamEnded' /\ Verdicts' /\ FaultRecorded'
    BY <1>1 DEF NextRow
  <2>3. RowsConserved'
    BY <1>1, NextRowRows
  <2> QED BY <2>1, <2>2, <2>3
<1>2. CASE NextClosed
  BY <1>2 DEF NextClosed, RowsClosed
<1>3. CASE NextCancelled
  BY <1>3 DEF NextCancelled, SetErr, CopyCtxDone
<1>4. CASE EncodeRow
  <2>1. TypeOK' /\ Phases'
    BY <1>4, EncodeRowRows DEF EncodeRow
  <2>2. StreamEnded' /\ Verdicts' /\ FaultRecorded'
    BY <1>4 DEF EncodeRow
  <2>3. RowsConserved'
    BY <1>4, EncodeRowRows DEF EncodeRow
  <2> QED BY <2>1, <2>2, <2>3
<1>5. CASE CheckErrFails
  BY <1>5 DEF CheckErrFails, ErrSeen
<1>6. CASE CheckErrPasses
  BY <1>6 DEF CheckErrPasses, ErrSeen
<1>7. CASE WriteFails
  BY <1>7 DEF WriteFails
<1> QED BY <1>1, <1>2, <1>3, <1>4, <1>5, <1>6, <1>7 DEF EncoderStep

\* Steps of the caller preserve the inductive invariant.
LEMMA CallerStepIInv == IInv /\ CallerStep => IInv'
<1> SUFFICES ASSUME IInv, CallerStep PROVE IInv'
  OBVIOUS
<1> USE DEF IInv, TypeOK, Phases, StreamEnded, RowsConserved, Verdicts, FaultRecorded,
            Held, InHand, Taken, NoErr, NoRow, Errors,
            mainVars, prodVars, encVars, chanVars, srvVars
<1>1. CASE SendCopyDone
  BY <1>1 DEF SendCopyDone
<1>2. CASE SendCopyFail
  BY <1>2 DEF SendCopyFail
<1>3. CASE EncoderJoined
  BY <1>3 DEF EncoderJoined
<1>4. CASE CancelCopy
  BY <1>4 DEF CancelCopy
<1>5. CASE Return
  BY <1>5 DEF Return
<1> QED BY <1>1, <1>2, <1>3, <1>4, <1>5 DEF CallerStep

\* Steps of the source preserve the inductive invariant.
LEMMA SourceStepIInv == IInv /\ SourceStep => IInv'
<1> SUFFICES ASSUME IInv, SourceStep PROVE IInv'
  OBVIOUS
<1> USE DEF IInv, TypeOK, Phases, StreamEnded, RowsConserved, Verdicts, FaultRecorded,
            Held, InHand, Taken, NoErr, NoRow, Errors,
            mainVars, prodVars, encVars, chanVars, srvVars
<1>1. CASE QueryOk
  BY <1>1 DEF QueryOk
<1>2. CASE ScanRow
  BY <1>2 DEF ScanRow
<1>3. CASE ScanEnd
  BY <1>3 DEF ScanEnd, StreamEnds
<1> QED BY <1>1, <1>2, <1>3 DEF SourceStep

\* Steps of the target preserve the inductive invariant.
LEMMA TargetStepIInv == IInv /\ TargetStep => IInv'
<1> SUFFICES ASSUME IInv, TargetStep PROVE IInv'
  OBVIOUS
<1> USE DEF IInv, TypeOK, Phases, StreamEnded, RowsConserved, Verdicts, FaultRecorded,
            Held, InHand, Taken, NoErr, NoRow, Errors,
            mainVars, prodVars, encVars, chanVars, srvVars
<1>1. CASE Acquire
  BY <1>1 DEF Acquire
<1>2. CASE Prepare
  BY <1>2 DEF Prepare
<1>3. CASE Write
  <2>1. TypeOK' /\ Phases'
    BY <1>3, WriteRows DEF Write
  <2>2. StreamEnded' /\ Verdicts' /\ FaultRecorded'
    BY <1>3 DEF Write
  <2>3. RowsConserved'
    BY <1>3, WriteRows DEF Write
  <2> QED BY <2>1, <2>2, <2>3
<1>4. CASE ServerAnswers
  BY <1>4 DEF ServerAnswers, CopyFromStops
<1> QED BY <1>1, <1>2, <1>3, <1>4 DEF TargetStep

\* Steps of the PostgreSQL session preserve the inductive invariant.
LEMMA ServerStepIInv == IInv /\ ServerStep => IInv'
<1> SUFFICES ASSUME IInv, ServerStep PROVE IInv'
  OBVIOUS
<1> USE DEF IInv, TypeOK, Phases, StreamEnded, RowsConserved, Verdicts, FaultRecorded,
            Held, InHand, Taken, NoErr, NoRow, Errors,
            mainVars, prodVars, encVars, chanVars, srvVars
<1>1. CASE ServerCommit
  BY <1>1 DEF ServerCommit, ServerEnds
<1>2. CASE ServerRollback
  BY <1>2 DEF ServerRollback, ServerEnds
<1> QED BY <1>1, <1>2 DEF ServerStep

\* Steps of an abandoned wait preserve the inductive invariant.
LEMMA AbandonStepIInv == IInv /\ AbandonStep => IInv'
<1> SUFFICES ASSUME IInv, AbandonStep PROVE IInv'
  OBVIOUS
<1> USE DEF IInv, TypeOK, Phases, StreamEnded, RowsConserved, Verdicts, FaultRecorded,
            Held, InHand, Taken, NoErr, NoRow, Errors,
            mainVars, prodVars, encVars, chanVars, srvVars
<1>1. CASE SourceCancelled
  BY <1>1 DEF SourceCancelled, StreamEnds, SourceSeesCancel
<1>2. CASE ContextBreaksConn
  BY <1>2 DEF ContextBreaksConn, CopyFromStops, CopyCtxDone
<1>3. CASE AcquireFail
  BY <1>3 DEF AcquireFail
<1>4. CASE PrepareFail
  BY <1>4 DEF PrepareFail
<1> QED BY <1>1, <1>2, <1>3, <1>4 DEF AbandonStep

\* Steps of a failure preserve the inductive invariant.
LEMMA FaultStepIInv == IInv /\ FaultStep => IInv'
<1> SUFFICES ASSUME IInv, FaultStep PROVE IInv'
  OBVIOUS
<1> USE DEF IInv, TypeOK, Phases, StreamEnded, RowsConserved, Verdicts, FaultRecorded,
            Held, InHand, Taken, NoErr, NoRow, Errors,
            mainVars, prodVars, encVars, chanVars, srvVars
<1>1. CASE CancelRun
  BY <1>1 DEF CancelRun
<1>2. CASE QueryFail
  BY <1>2 DEF QueryFail, StreamEnds
<1>3. CASE ScanFail
  BY <1>3 DEF ScanFail, StreamEnds, RowsErr
<1>4. CASE EncodeFail
  BY <1>4 DEF EncodeFail
<1>5. CASE AcquireFail
  BY <1>5 DEF AcquireFail
<1>6. CASE PrepareFail
  BY <1>6 DEF PrepareFail
<1>7. CASE NetworkBreaksConn
  BY <1>7 DEF NetworkBreaksConn, CopyFromStops
<1>8. CASE ServerError
  BY <1>8 DEF ServerError, ServerEnds
<1> QED BY <1>1, <1>2, <1>3, <1>4, <1>5, <1>6, <1>7, <1>8 DEF FaultStep

\* Every step preserves the inductive invariant.
LEMMA NextIInv == IInv /\ [Next]_vars => IInv'
<1> SUFFICES ASSUME IInv, [Next]_vars PROVE IInv'
  OBVIOUS
<1>1. CASE Next
  BY <1>1, ProducerStepIInv, EncoderStepIInv, CallerStepIInv, SourceStepIInv, TargetStepIInv,
     ServerStepIInv, AbandonStepIInv, FaultStepIInv DEF Next
<1>2. CASE UNCHANGED vars
  BY <1>2 DEF vars, mainVars, prodVars, encVars, chanVars, srvVars, IInv, TypeOK, Phases,
              StreamEnded, RowsConserved, Follows, Verdicts, FaultRecorded, Held, InHand, Taken
<1> QED BY <1>1, <1>2

\* IInv holds in every state of every copy.
THEOREM Invariance == Spec => []IInv
BY InitIInv, NextIInv, PTL DEF Spec

-------------------------------------------------------------------------------
(* What follows from IInv. *)

\* Every variable keeps its type; the channel never holds more than Capacity rows.
THEOREM TypeCorrect == Spec => []TypeOK
<1>1. IInv => TypeOK
  BY DEF IInv
<1> QED BY <1>1, Invariance, PTL

\* The channel and the encoder lose, repeat and reorder nothing.
THEOREM Conservation == Spec => []RowsConserved
<1>1. IInv => RowsConserved
  BY DEF IInv
<1> QED BY <1>1, Invariance, PTL

\* A committed COPY holds every row of the source table.
LEMMA IInvComplete == IInv => CommittedIsComplete
<1> SUFFICES ASSUME IInv, srv = "committed" PROVE sent = AllRows
  BY DEF CommittedIsComplete
<1>1. pipe = "eof" /\ enc = "done"
  BY DEF IInv, Verdicts, Phases
<1>2. finished /\ err = NoErr /\ buf = <<>> /\ rows = <<>> /\ prod = "done" /\ current = NoRow
  BY <1>1 DEF IInv, StreamEnded, Phases
<1>3. streamErr = NoErr /\ scanned = NumRows
  BY <1>2 DEF IInv, StreamEnded
<1>4. sent \in Seq(1..NumRows) /\ Follows(sent, 0)
  BY <1>1 DEF IInv, TypeOK, RowsConserved
<1>5. Len(sent) = NumRows
  BY <1>1, <1>2, <1>3, <1>4, LenProperties DEF IInv, RowsConserved, Taken, Held, InHand
<1>6. \A i \in 1..NumRows : sent[i] = i
  <2>1. \A i \in 1..Len(sent) : sent[i] = 0 + i
    BY <1>4 DEF Follows
  <2> QED BY <2>1, <1>5
<1>7. sent \in [1..NumRows -> 1..NumRows]
  BY <1>4, <1>5, LenProperties
<1> QED BY <1>6, <1>7 DEF AllRows

\* PostgreSQL never commits a truncated table.
THEOREM CommittedComplete == Spec => []CommittedIsComplete
BY Invariance, IInvComplete, PTL

\* cancelCopy cannot turn a successful copy into an error.
THEOREM CancelTooLate == Spec => []CancelComesTooLate
<1>1. IInv => CancelComesTooLate
  BY DEF IInv, Verdicts, Phases, StreamEnded, CancelComesTooLate
<1> QED BY <1>1, Invariance, PTL

\* A healthy copy never reports an error.
THEOREM OnlyRealErrors == Spec => []NoSpuriousError
<1>1. IInv => NoSpuriousError
  BY DEF IInv, FaultRecorded, NoSpuriousError
<1> QED BY <1>1, Invariance, PTL

-------------------------------------------------------------------------------
(* CopyTable implements TableCopy. *)

\* The copy starts as the contract does: no row visible, no result.
LEMMA InitContract == Init => Contract!Init
BY DEF Init, Contract!Init

\* Committing the COPY is the contract's Load.
LEMMA CommitLoads == IInv /\ CommittedIsComplete' /\ ServerCommit => Contract!Load
<1> SUFFICES ASSUME IInv, CommittedIsComplete', ServerCommit PROVE Contract!Load
  OBVIOUS
<1>1. srv' = "committed" /\ srv = "copying" /\ result' = result
  BY DEF ServerCommit, ServerEnds, mainVars
<1>2. result # "ok"
  BY <1>1 DEF IInv, Verdicts
<1>3. sent' = AllRows
  BY <1>1 DEF CommittedIsComplete, AllRows
<1> QED BY <1>1, <1>2, <1>3 DEF Contract!Load, Contract!AllRows, AllRows

\* Returning reports success for a loaded table only.
LEMMA ReturnReports == IInv /\ (Return \/ AcquireFail) => Contract!ReportOk \/ Contract!ReportError
<1> SUFFICES ASSUME IInv, Return \/ AcquireFail PROVE Contract!ReportOk \/ Contract!ReportError
  OBVIOUS
<1>1. result = "pending" /\ srv' = srv /\ sent' = sent
  BY DEF IInv, Phases, Return, AcquireFail, encVars, srvVars
<1>2. CASE result' = "error"
  BY <1>1, <1>2 DEF Contract!ReportError
<1>3. CASE result' # "error"
  <2>1. result' = "ok" /\ srv = "committed"
    BY <1>3 DEF Return, AcquireFail, IInv, Verdicts
  <2>2. sent = AllRows
    BY <2>1, IInvComplete DEF CommittedIsComplete
  <2> QED BY <1>1, <2>1, <2>2 DEF Contract!ReportOk, Contract!AllRows, AllRows
<1> QED BY <1>2, <1>3

\* Every other step leaves what a reader of the table sees, and the result, alone.
LEMMA OthersStutter ==
    IInv /\ [Next]_vars /\ ~ServerCommit /\ ~Return /\ ~AcquireFail => UNCHANGED Contract!vars
<1> SUFFICES ASSUME IInv, [Next]_vars, ~ServerCommit, ~Return, ~AcquireFail
             PROVE  UNCHANGED Contract!vars
  OBVIOUS
<1> USE DEF mainVars, prodVars, encVars, chanVars, srvVars
<1>1. /\ result' = result
      /\ srv # "committed" => srv' # "committed"
      /\ srv = "committed" => srv' = "committed" /\ sent' = sent
  <2>1. srv = "committed" => enc = "done" /\ main \notin {"acquire", "prepare"}
    BY DEF IInv, Verdicts, Phases
  <2>2. CASE ProducerStep
    BY <2>2 DEF ProducerStep, PushRow, SendCancelled, StreamEnds, StoreErr, CloseRows
  <2>3. CASE EncoderStep
    BY <2>3 DEF EncoderStep, NextRow, NextClosed, NextCancelled, EncodeRow, CheckErrFails,
                CheckErrPasses, WriteFails
  <2>4. CASE CallerStep
    BY <2>4 DEF CallerStep, SendCopyDone, SendCopyFail, EncoderJoined, CancelCopy
  <2>5. CASE SourceStep
    BY <2>5 DEF SourceStep, QueryOk, ScanRow, ScanEnd, StreamEnds
  <2>6. CASE TargetStep
    BY <2>1, <2>6 DEF TargetStep, Acquire, Prepare, Write, ServerAnswers, CopyFromStops
  <2>7. CASE ServerStep
    BY <2>7 DEF ServerStep, ServerRollback, ServerEnds
  <2>8. CASE AbandonStep
    BY <2>8 DEF AbandonStep, SourceCancelled, StreamEnds, ContextBreaksConn, CopyFromStops,
                PrepareFail
  <2>9. CASE FaultStep
    BY <2>9 DEF FaultStep, CancelRun, QueryFail, ScanFail, StreamEnds, EncodeFail, PrepareFail,
                NetworkBreaksConn, CopyFromStops, ServerError, ServerEnds
  <2>10. CASE UNCHANGED vars
    BY <2>10 DEF vars
  <2> QED BY <2>2, <2>3, <2>4, <2>5, <2>6, <2>7, <2>8, <2>9, <2>10 DEF Next
<1> QED BY <1>1 DEF Contract!vars

\* CopyTable, with every interleaving of its goroutines, every failure and every
\* cancellation, keeps the contract the loader relies on.
THEOREM Refinement == Spec => KeepsContract
<1>1. IInv /\ CommittedIsComplete' /\ [Next]_vars => [Contract!Next]_(Contract!vars)
  BY CommitLoads, ReturnReports, OthersStutter DEF Contract!Next
<1> QED BY <1>1, InitContract, Invariance, CommittedComplete, PTL DEF Spec, KeepsContract, Contract!Spec

================================================================================
