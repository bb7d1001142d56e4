--------------------------- MODULE ConvertProofs ---------------------------
(***************************************************************************)
(* Proofs about Convert, for any calls, quotes, batches, small assets,     *)
(* numbers of retries and faults, from ConvertAssumption only.             *)
(***************************************************************************)
EXTENDS Convert, FiniteSetTheorems, TLAPS

-----------------------------------------------------------------------------
(* Types *)

\* A user's trade takes no small assets.
CallsTakeNothing == \A c \in Calls : recs[c] = {}

\* A trade that has begun has a quote: a batch its own, a call one of the user's.
OwnQuote ==
  /\ \A c \in Calls : of[c] \in Quotes \cup {None}
  /\ \A b \in Batches : of[b] \in {b, None}
  /\ \A t \in Trades : pc[t] # "idle" => of[t] # None

\* A task gets to the transfer only before its last retry.
RetriesLeft == \A t \in Trades : task[t].step = "transfer" => task[t].retry < MaxRetries

PaymentType == [step : {"none", "read", "checked"}, saw : Int]

TaskType == [step : {"none", "queued", "transfer"}, retry : 0..MaxRetries]

Typed == TypeOK /\ CallsTakeNothing /\ OwnQuote /\ RetriesLeft

LEMMA TasksTyped == NoTask \in TaskType /\ Queued(0) \in TaskType
BY ConvertAssumption DEF NoTask, Queued, TaskType

\* The steps that pay keep the types of the ledger.
LEMMA PayTyped ==
  ASSUME Typed, NEW t \in Trades, CommitAllowed(t), Pay(t)
  PROVE  /\ moved' \in [Trades -> 0..1]
         /\ status' \in [Trades -> {"none", "unknown", "succeeded", "failed"}]
         /\ late' \subseteq Trades /\ paying' \in [Trades -> PaymentType]
         /\ balance' \in 0..Funds /\ blocked' \in 0..Funds /\ pool' \in Int
<1>1. /\ moved' \in [Trades -> 0..1]
      /\ status' \in [Trades -> {"none", "unknown", "succeeded", "failed"}]
      /\ late' \subseteq Trades
  BY DEF Typed, TypeOK, CommitAllowed, Pay
<1>2. paying' \in [Trades -> PaymentType]
  BY DEF Typed, TypeOK, Pay, PaymentType, NoPayment
<1>3. size[t] \in Nat /\ (t \in Calls => ~ AllowNegative(t))
  BY ConvertAssumption DEF Typed, TypeOK, AllowNegative
<1>4. balance' \in 0..Funds /\ blocked' \in 0..Funds /\ pool' \in Int
  BY <1>3, ConvertAssumption DEF Typed, TypeOK, CommitAllowed, Pay, wallet
<1> QED BY <1>1, <1>2, <1>4

\* Looking at a wallet, or giving the payment up, keeps its type.
LEMMA PaymentTyped ==
  ASSUME Typed, NEW t \in Trades, paying' = [paying EXCEPT ![t] = NoPayment] \/ Paying(t)
  PROVE  paying' \in [Trades -> PaymentType]
<1>0. paying \in [Trades -> PaymentType] /\ balance \in Int /\ pool \in Int
  BY ConvertAssumption DEF Typed, TypeOK, PaymentType
<1>1. PICK p : paying' = [paying EXCEPT ![t] = p]
               /\ p \in {NoPayment, [step |-> "read", saw |-> IF t \in Calls THEN balance ELSE pool],
                         [step |-> "checked", saw |-> 0]}
  BY DEF Paying, GetUserWallet, CheckActive
<1>2. p \in PaymentType
  BY <1>0, <1>1 DEF PaymentType, NoPayment
<1> QED BY <1>0, <1>1, <1>2

\* Records taken by a batch refer to a batch.
LEMMA TakeTyped ==
  ASSUME Typed, NEW t \in Trades, TakeRecords(t)
  PROVE  /\ record' \in [Records -> {"none", "created", "in_progress", "succeeded", "failed"}]
         /\ link' \in [Records -> Batches \cup {None}]
         /\ recs' = recs
BY DEF Typed, TypeOK, CallsTakeNothing, TakeRecords, Trades

LEMMA RollbackTyped ==
  ASSUME Typed, NEW t \in Trades, Rollback(t)
  PROVE  /\ pc' \in [Trades -> {"idle", "call", "transfer", "over"}]
         /\ recs' \in [Trades -> SUBSET Records]
         /\ \A c \in Calls : recs'[c] = {}
BY DEF Typed, TypeOK, CallsTakeNothing, Rollback, Trades

\* The steps of create_trade that only the trade itself takes part in keep it
\* with its quote.
LEMMA OwnQuoteStays ==
  ASSUME Typed, UNCHANGED of, NEW t \in Trades, pc[t] # "idle",
         NEW s, pc' = [pc EXCEPT ![t] = s]
  PROVE  OwnQuote'
BY DEF Typed, TypeOK, OwnQuote

\* Every step keeps the types.
LEMMA TypedStep == Typed /\ [Next]_vars => Typed'
<1> SUFFICES ASSUME Typed, [Next]_vars PROVE Typed'
  OBVIOUS
<1> USE DEF Typed, RetriesLeft
<1>1. CASE UNCHANGED vars
  BY <1>1 DEF vars, TypeOK, CallsTakeNothing, OwnQuote, calling, rows, cache, outside,
     wallet, small, history
<1>2. ASSUME NEW c \in Calls, NEW q \in Quotes, StartTrade(c, q) PROVE Typed'
  <2>1. c \in Trades /\ c \notin Batches /\ q # None
    BY ConvertAssumption DEF Trades
  <2>2. TypeOK' /\ CallsTakeNothing'
    BY <1>2, <2>1, ConvertAssumption DEF StartTrade, TypeOK, CallsTakeNothing, rows, cache,
       outside, wallet, small
  <2>3. OwnQuote'
    BY <1>2, <2>1 DEF StartTrade, OwnQuote, TypeOK, Trades
  <2> QED BY <1>2, <2>2, <2>3 DEF StartTrade
<1>3. ASSUME NEW b \in Batches, StartBatch(b) PROVE Typed'
  <2>1. PICK rs \in SUBSET Waiting :
          /\ Cardinality(rs) <= MaxBatch
          /\ recs' = [recs EXCEPT ![b] = rs]
          /\ size' = [size EXCEPT ![b] = Cardinality(rs)]
    BY <1>3 DEF StartBatch
  <2>2. rs \subseteq Records
    BY DEF Waiting
  <2>3. Cardinality(rs) \in 0..MaxBatch
    <3>1. IsFiniteSet(rs)
      BY <2>2, FS_Subset, ConvertAssumption
    <3>2. Cardinality(rs) \in Nat
      BY <3>1, FS_CardinalityType
    <3> QED BY <2>1, <3>2, ConvertAssumption
  <2>4. b \notin Calls /\ b \in Trades /\ b # None
    BY ConvertAssumption DEF Trades
  <2>5. TypeOK' /\ CallsTakeNothing'
    BY <1>3, <2>1, <2>2, <2>3, <2>4
    DEF StartBatch, TypeOK, CallsTakeNothing, rows, cache, outside, wallet, history
  <2>6. OwnQuote'
    BY <1>3, <2>4 DEF StartBatch, OwnQuote, TypeOK, Trades
  <2> QED BY <1>3, <2>5, <2>6 DEF StartBatch
<1>4. ASSUME NEW t \in Trades, Running(t) PROVE Typed'
  <2>1. pc[t] # "idle" /\ of[t] \in Quotes \cup Batches
    BY <1>4 DEF Running, MakerAnswers, ConversionFails, ConversionTimesOut, Transfer,
       TransferFails, OwnQuote, TypeOK
  <2>2. OwnQuote'
    BY <1>4, <2>1, OwnQuoteStays DEF Running, MakerAnswers, ConversionFails,
       ConversionTimesOut, Transfer, TransferFails, Rollback
  <2>3. CASE MakerAnswers(t)
    BY <2>1, <2>2, <2>3 DEF MakerAnswers, TypeOK, CallsTakeNothing, rows, cache, wallet, small,
       history
  <2>4. CASE ConversionFails(t)
    BY <2>1, <2>2, <2>4, RollbackTyped DEF ConversionFails, NoAnswer, Rollback, TypeOK,
       CallsTakeNothing, rows, cache, outside, wallet, history
  <2>5. CASE TransferFails(t)
    BY <2>2, <2>5, RollbackTyped, PaymentTyped DEF TransferFails, Rollback, TypeOK, PaymentType,
       CallsTakeNothing, rows, cache, outside, wallet, history
  <2>6. CASE ConversionTimesOut(t)
    <3>1. /\ task' \in [Trades -> TaskType] /\ RetriesLeft'
          /\ faults' \in 0..MaxFaults
      <4>1. CASE task' = [task EXCEPT ![t] = Queued(0)] /\ UNCHANGED faults
        BY <4>1, TasksTyped DEF TypeOK, TaskType, Queued
      <4>2. CASE faults < MaxFaults /\ faults' = faults + 1 /\ UNCHANGED task
        BY <4>2, ConvertAssumption DEF TypeOK, TaskType
      <4> QED BY <2>6, <4>1, <4>2 DEF ConversionTimesOut
    <3>2. expired' \subseteq Quotes \cup Batches /\ dropped' = dropped
          /\ maker' \subseteq Quotes \cup Batches /\ inflight' \subseteq Quotes \cup Batches
      BY <2>1, <2>6 DEF ConversionTimesOut, Invalidate, NoAnswer, outside, TypeOK
    <3> QED BY <2>2, <2>6, <3>1, <3>2, TakeTyped
      DEF ConversionTimesOut, TypeOK, TaskType, CallsTakeNothing, wallet, history
  <2>7. CASE Transfer(t)
    <3>1. CommitAllowed(t) /\ Pay(t) /\ TakeRecords(t)
      BY <2>7 DEF Transfer
    <3> QED BY <2>1, <2>2, <2>7, <3>1, PayTyped, TakeTyped
      DEF Transfer, Invalidate, TypeOK, PaymentType, CallsTakeNothing, outside
  <2> QED BY <1>4, <2>3, <2>4, <2>5, <2>6, <2>7 DEF Running
<1>5. ASSUME NEW t \in Trades, TaskStep(t) PROVE Typed'
  <2>1. OwnQuote'
    BY <1>5 DEF TaskStep, GiveUp, ConversionFound, ConversionNotFound, TaskTransfers,
       TaskTransferFails, calling, OwnQuote
  <2>2. CASE GiveUp(t)
    BY <2>1, <2>2, ConvertAssumption DEF GiveUp, NoTask, TypeOK, CallsTakeNothing, calling,
       cache, outside, wallet, small, history
  <2>3. CASE ConversionFound(t)
    BY <2>1, <2>3 DEF ConversionFound, TypeOK, CallsTakeNothing, calling, rows, cache, outside,
       wallet, small, history
  <2>4. CASE ConversionNotFound(t) \/ TaskTransferFails(t)
    <3>1. task[t].retry + 1 \in 0..MaxRetries
      BY <2>4, ConvertAssumption DEF ConversionNotFound, TaskTransferFails, TypeOK
    <3>2. task' \in [Trades -> TaskType] /\ RetriesLeft'
      <4>1. task' = [task EXCEPT ![t] = Queued(task[t].retry + 1)]
        BY <2>4 DEF ConversionNotFound, TaskTransferFails, Again, TypeOK
      <4>2. /\ Queued(task[t].retry + 1) \in TaskType
            /\ Queued(task[t].retry + 1).step # "transfer"
        BY <3>1 DEF Queued, TaskType
      <4> QED BY <4>1, <4>2 DEF TypeOK, TaskType
    <3>3. paying' \in [Trades -> PaymentType]
      BY <2>4, PaymentTyped DEF ConversionNotFound, TaskTransferFails, calling, TypeOK,
         PaymentType
    <3> QED BY SMTT(30), <2>1, <2>4, <3>2, <3>3 DEF ConversionNotFound, TaskTransferFails,
       TypeOK, TaskType, PaymentType, CallsTakeNothing, calling, rows, cache, outside, wallet,
       small, history
  <2>5. CASE TaskTransfers(t)
    <3>1. CommitAllowed(t) /\ Pay(t)
      BY <2>5 DEF TaskTransfers
    <3>2. task' \in [Trades -> TaskType] /\ RetriesLeft'
      BY <2>5, TasksTyped DEF TaskTransfers, TypeOK, TaskType, NoTask
    <3> QED BY <2>1, <2>5, <3>1, <3>2, PayTyped
      DEF TaskTransfers, TypeOK, TaskType, PaymentType, CallsTakeNothing, cache, outside, small
  <2> QED BY <1>5, <2>2, <2>3, <2>4, <2>5 DEF TaskStep
<1>6. ASSUME NEW t \in Trades, FailOldUnknownTrades(t) \/ LoseTask(t) \/ Paying(t)
      PROVE  Typed'
  <2>1. CASE FailOldUnknownTrades(t)
    BY <2>1 DEF FailOldUnknownTrades, TypeOK, CallsTakeNothing, OwnQuote, calling, cache,
       outside, wallet, small, history
  <2>2. CASE LoseTask(t)
    <3>1. task' \in [Trades -> TaskType] /\ RetriesLeft' /\ faults' \in 0..MaxFaults
      BY <2>2, TasksTyped, ConvertAssumption DEF LoseTask, TypeOK, TaskType, NoTask
    <3>2. paying' \in [Trades -> PaymentType]
      BY <2>2, PaymentTyped DEF LoseTask
    <3> QED BY <2>2, <3>1, <3>2 DEF LoseTask, TypeOK, TaskType, PaymentType, CallsTakeNothing,
            OwnQuote, rows, cache, outside, wallet, small, history
  <2>3. CASE Paying(t)
    <3>1. paying' \in [Trades -> PaymentType]
      BY <2>3, PaymentTyped
    <3> QED BY <2>3, <3>1 DEF Paying, GetUserWallet, CheckActive, TypeOK, PaymentType,
            CallsTakeNothing, OwnQuote, rows, cache, outside, wallet, small, history
  <2> QED BY <1>6, <2>1, <2>2, <2>3
<1>7. ASSUME NEW q \in Quotes \cup Batches, MakerConverts(q) \/ LoseQuote(q) PROVE Typed'
  BY <1>7, ConvertAssumption DEF MakerConverts, LoseQuote, TypeOK, CallsTakeNothing, OwnQuote,
     calling, rows, cache, outside, wallet, small, history
<1>8. ASSUME NEW r \in Records, SmallAssetConvert(r) PROVE Typed'
  BY <1>8 DEF SmallAssetConvert, TypeOK, CallsTakeNothing, OwnQuote, calling, rows, cache,
     outside, wallet, small, history
<1>9. ASSUME UpdateSmallAssets PROVE Typed'
  <2>1. \A r \in Records : RecordAfter(r) \in {"none", "created", "in_progress", "succeeded",
                                             "failed"}
    BY DEF RecordAfter, TypeOK
  <2> QED BY <1>9, <2>1 DEF UpdateSmallAssets, TypeOK, CallsTakeNothing, OwnQuote, calling,
     rows, cache, outside, wallet, history
<1>10. ASSUME UseWallet PROVE Typed'
  BY <1>10, ConvertAssumption DEF UseWallet, TypeOK, CallsTakeNothing, OwnQuote, calling, rows,
     cache, outside, small, history
<1> QED BY <1>1, <1>2, <1>3, <1>4, <1>5, <1>6, <1>7, <1>8, <1>9, <1>10 DEF Next

LEMMA TypedInit == Init => Typed
BY ConvertAssumption DEF Init, Typed, TypeOK, CallsTakeNothing, OwnQuote, RetriesLeft, NoTask,
   NoPayment, Trades

\* Rows, tasks, quotes and wallets keep their types in every behaviour.
THEOREM TypeCorrect == Spec => []TypeOK
BY TypedInit, TypedStep, PTL DEF Spec, Typed

-----------------------------------------------------------------------------
(* A trade is succeeded exactly when its money has moved *)

\* Before create_trade is over there is no row and no task, and a task is about a
\* trade whose money has not moved.
Fresh ==
  \A t \in Trades :
    /\ pc[t] # "over" => status[t] = "none" /\ task[t] = NoTask
    /\ task[t] # NoTask => moved[t] = 0

PaidInv == Typed /\ Fresh /\ SucceededIffMoved

LEMMA TaskSteps ==
  \A k : NoTask.step = "none" /\ Queued(k) # NoTask
BY DEF NoTask, Queued

\* A step about trade t keeps what is said of the others.
LEMMA PaidLocal ==
  ASSUME PaidInv, NEW t \in Trades,
         \A u \in Trades \ {t} : /\ pc'[u] = pc[u] /\ status'[u] = status[u]
                                 /\ task'[u] = task[u] /\ moved'[u] = moved[u],
         pc'[t] # "over" => status'[t] = "none" /\ task'[t] = NoTask,
         task'[t] # NoTask => moved'[t] = 0,
         (status'[t] = "succeeded") <=> (moved'[t] = 1)
  PROVE  Fresh' /\ SucceededIffMoved'
BY DEF PaidInv, Fresh, SucceededIffMoved

LEMMA PaidStep == PaidInv /\ [Next]_vars => PaidInv'
<1> SUFFICES ASSUME PaidInv, [Next]_vars PROVE Fresh' /\ SucceededIffMoved'
  BY TypedStep DEF PaidInv
<1>0. TypeOK
  BY DEF PaidInv, Typed
<1>1. ASSUME UNCHANGED <<pc, status, task, moved>> PROVE Fresh' /\ SucceededIffMoved'
  BY <1>1 DEF PaidInv, Fresh, SucceededIffMoved
<1>2. CASE UNCHANGED vars
  BY <1>1, <1>2 DEF vars, calling, rows
<1>3. ASSUME NEW c \in Calls, NEW q \in Quotes, StartTrade(c, q)
      PROVE  Fresh' /\ SucceededIffMoved'
  <2>1. c \in Trades
    BY DEF Trades
  <2> QED BY <1>0, <1>3, <2>1, PaidLocal DEF StartTrade, rows, TypeOK, PaidInv, Fresh,
          SucceededIffMoved
<1>4. ASSUME NEW b \in Batches, StartBatch(b) PROVE Fresh' /\ SucceededIffMoved'
  <2>1. b \in Trades
    BY DEF Trades
  <2> QED BY <1>0, <1>4, <2>1, PaidLocal DEF StartBatch, rows, TypeOK, PaidInv, Fresh,
          SucceededIffMoved
<1>5. ASSUME NEW t \in Trades, Running(t) PROVE Fresh' /\ SucceededIffMoved'
  <2>1. status[t] = "none" /\ task[t] = NoTask /\ moved[t] = 0
    <3>1. pc[t] \in {"call", "transfer"}
      BY <1>5 DEF Running, MakerAnswers, ConversionFails, ConversionTimesOut, Transfer,
         TransferFails
    <3>2. status[t] = "none" /\ task[t] = NoTask
      BY <3>1 DEF PaidInv, Fresh
    <3> QED BY <1>0, <3>2 DEF TypeOK, PaidInv, SucceededIffMoved
  <2>2. CASE MakerAnswers(t) \/ ConversionFails(t) \/ TransferFails(t)
    <3>1. UNCHANGED <<status, task, moved>> /\ \E s : pc' = [pc EXCEPT ![t] = s]
      BY <2>2 DEF MakerAnswers, ConversionFails, TransferFails, Rollback, rows
    <3> QED BY SMTT(30), <1>0, <2>1, <3>1, PaidLocal DEF TypeOK
  <2>3. CASE ConversionTimesOut(t)
    <3>1. task' = task \/ task' = [task EXCEPT ![t] = Queued(0)]
      BY <2>3 DEF ConversionTimesOut
    <3>2. /\ status'[t] = "unknown" /\ pc'[t] = "over" /\ moved' = moved
          /\ \A u \in Trades \ {t} : status'[u] = status[u] /\ pc'[u] = pc[u]
      BY <1>0, <2>3 DEF ConversionTimesOut, TypeOK
    <3> QED BY <1>0, <2>1, <3>1, <3>2, PaidLocal DEF TypeOK
  <2>4. CASE Transfer(t)
    BY <1>0, <2>1, <2>4, PaidLocal DEF Transfer, Pay, TypeOK
  <2> QED BY <1>5, <2>2, <2>3, <2>4 DEF Running
<1>6. ASSUME NEW t \in Trades, TaskStep(t) PROVE Fresh' /\ SucceededIffMoved'
  <2>1. task[t] # NoTask /\ moved[t] = 0 /\ pc[t] = "over" /\ status[t] # "succeeded"
    <3>1. task[t].step \in {"queued", "transfer"}
      BY <1>6 DEF TaskStep, GiveUp, ConversionFound, ConversionNotFound, TaskTransfers,
         TaskTransferFails
    <3>2. task[t] # NoTask
      BY <3>1, TaskSteps
    <3>3. moved[t] = 0 /\ pc[t] = "over"
      BY <3>2 DEF PaidInv, Fresh
    <3> QED BY <3>2, <3>3 DEF PaidInv, SucceededIffMoved
  <2>2. CASE GiveUp(t)
    BY <1>0, <2>1, <2>2, PaidLocal DEF GiveUp, calling, TypeOK
  <2>3. CASE ConversionFound(t) \/ ConversionNotFound(t) \/ TaskTransferFails(t)
    <3>1. UNCHANGED <<pc, status, moved>> /\ \E k : task' = [task EXCEPT ![t] = k]
      BY <2>3 DEF ConversionFound, ConversionNotFound, TaskTransferFails, Again, calling, rows
    <3> QED BY <1>0, <2>1, <3>1, PaidLocal DEF TypeOK
  <2>4. CASE TaskTransfers(t)
    BY <1>0, <2>1, <2>4, PaidLocal DEF TaskTransfers, Pay, calling, TypeOK
  <2> QED BY <1>6, <2>2, <2>3, <2>4 DEF TaskStep
<1>7. ASSUME NEW t \in Trades, FailOldUnknownTrades(t) \/ LoseTask(t) \/ Paying(t)
      PROVE  Fresh' /\ SucceededIffMoved'
  <2>1. CASE FailOldUnknownTrades(t) \/ LoseTask(t)
    BY <1>0, <2>1, PaidLocal DEF FailOldUnknownTrades, Stale, LoseTask, calling, rows, TypeOK,
       PaidInv, Fresh, SucceededIffMoved
  <2>2. CASE Paying(t)
    BY <1>1, <2>2 DEF Paying, GetUserWallet, CheckActive, rows
  <2> QED BY <1>7, <2>1, <2>2
<1>8. ASSUME NEW q \in Quotes \cup Batches, MakerConverts(q) \/ LoseQuote(q)
      PROVE  Fresh' /\ SucceededIffMoved'
  BY <1>1, <1>8 DEF MakerConverts, LoseQuote, calling, rows
<1>9. ASSUME NEW r \in Records, SmallAssetConvert(r) PROVE Fresh' /\ SucceededIffMoved'
  BY <1>1, <1>9 DEF SmallAssetConvert, calling, rows
<1>10. ASSUME UpdateSmallAssets \/ UseWallet PROVE Fresh' /\ SucceededIffMoved'
  BY <1>1, <1>10 DEF UpdateSmallAssets, UseWallet, calling, rows
<1> QED BY <1>2, <1>3, <1>4, <1>5, <1>6, <1>7, <1>8, <1>9, <1>10 DEF Next

LEMMA PaidInit == Init => PaidInv
BY TypedInit DEF Init, PaidInv, Fresh, SucceededIffMoved

\* A trade is shown as succeeded exactly when its transactions were made: request,
\* task and cron write the same row, each from what it has read, in any order.
THEOREM SuccessMeansMoved == Spec => []SucceededIffMoved
<1>1. PaidInv => SucceededIffMoved
  BY DEF PaidInv
<1> QED BY <1>1, PaidInit, PaidStep, PTL DEF Spec

-----------------------------------------------------------------------------
(* Every trade whose money moved has a conversion of its own *)

\* A trade that may still move money, or has done so.
Active(t) == pc[t] \in {"call", "transfer"} \/ task[t] # NoTask \/ moved[t] = 1

\* Who is about to transfer has been told of the conversion.
Told ==
  \A t \in Trades :
    pc[t] = "transfer" \/ task[t].step = "transfer" \/ moved[t] = 1 => of[t] \in maker

\* A quote is invalidated before its trade leaves the request.
Spent == \A t \in Trades : task[t] # NoTask \/ moved[t] = 1 => of[t] \in expired

\* No two trades are active with one quote, unless two requests met on it.
Exclusive ==
  \A t, u \in Trades :
    t # u /\ of[t] = of[u] /\ of[t] \notin shared => ~ (Active(t) /\ Active(u))

QuoteInv == Told /\ Spent /\ Exclusive

\* A step that makes no trade active and takes nothing back keeps QuoteInv.
LEMMA QuoteLocal ==
  ASSUME PaidInv, QuoteInv, UNCHANGED <<of, shared>>,
         maker \subseteq maker', expired \subseteq expired',
         NEW t \in Trades,
         \A u \in Trades \ {t} : pc'[u] = pc[u] /\ task'[u] = task[u] /\ moved'[u] = moved[u],
         Active(t)' => Active(t),
         pc'[t] = "transfer" \/ task'[t].step = "transfer" \/ moved'[t] = 1 => of[t] \in maker',
         task'[t] # NoTask \/ moved'[t] = 1 => of[t] \in expired'
  PROVE  QuoteInv'
<1>1. Told'
  BY DEF QuoteInv, Told
<1>2. Spent'
  BY DEF QuoteInv, Spent
<1>3. \A u \in Trades : Active(u)' => Active(u)
  BY DEF Active
<1>4. Exclusive'
  BY <1>3 DEF QuoteInv, Exclusive
<1> QED BY <1>1, <1>2, <1>4 DEF QuoteInv

\* A new trade meets no active one on its quote without being noticed.
LEMMA QuoteTaken ==
  ASSUME PaidInv, PaidInv', QuoteInv, NEW t \in Trades, NEW q \in Quotes \cup Batches,
         pc[t] = "idle", pc' = [pc EXCEPT ![t] = "call"], of' = [of EXCEPT ![t] = q],
         UNCHANGED <<task, moved, maker, expired>>, shared \subseteq shared',
         q \notin shared' => \A u \in Trades \ {t} : of[u] = q => ~ Active(u)
  PROVE  QuoteInv'
<1>0. task[t] = NoTask /\ moved[t] = 0
  <2>1. status[t] = "none" /\ task[t] = NoTask
    BY DEF PaidInv, Fresh
  <2> QED BY <2>1 DEF PaidInv, SucceededIffMoved, Typed, TypeOK
<1>1. /\ pc'[t] = "call" /\ of'[t] = q
      /\ \A u \in Trades \ {t} : pc'[u] = pc[u] /\ of'[u] = of[u]
  BY DEF PaidInv, Typed, TypeOK
<1>2. Told'
  BY <1>0, <1>1, TaskSteps DEF QuoteInv, Told
<1>3. Spent'
  BY <1>0, <1>1 DEF QuoteInv, Spent
<1>4. \A u \in Trades \ {t} : Active(u)' => Active(u)
  BY <1>1 DEF Active
<1>5. Exclusive'
  BY <1>1, <1>4 DEF QuoteInv, Exclusive
<1> QED BY <1>2, <1>3, <1>5 DEF QuoteInv

LEMMA QuoteStep == PaidInv /\ QuoteInv /\ [Next]_vars => QuoteInv'
<1> SUFFICES ASSUME PaidInv, QuoteInv, [Next]_vars PROVE QuoteInv'
  OBVIOUS
<1>0. TypeOK /\ PaidInv'
  BY PaidStep DEF PaidInv, Typed
<1>1. ASSUME UNCHANGED <<pc, of, task, moved, expired, shared>>, maker \subseteq maker'
      PROVE  QuoteInv'
  BY <1>1 DEF QuoteInv, Told, Spent, Exclusive, Active
<1>2. CASE UNCHANGED vars
  BY <1>1, <1>2 DEF vars, calling, rows, cache, outside, history
<1>3. ASSUME NEW c \in Calls, NEW q \in Quotes, StartTrade(c, q) PROVE QuoteInv'
  <2>1. c \in Trades
    BY DEF Trades
  <2>2. ASSUME NEW u \in Trades \ {c}, of[u] = q, q \notin shared' PROVE ~ Active(u)
    <3>1. Using(q) = {} /\ q \notin expired
      BY <1>3, <2>2 DEF StartTrade, Available
    <3>2. pc[u] \notin {"call", "transfer"}
      BY <2>2, <3>1 DEF Using
    <3>3. task[u] = NoTask /\ moved[u] # 1
      BY <2>2, <3>1 DEF QuoteInv, Spent
    <3> QED BY <3>2, <3>3 DEF Active
  <2>3. /\ pc[c] = "idle" /\ pc' = [pc EXCEPT ![c] = "call"] /\ of' = [of EXCEPT ![c] = q]
        /\ UNCHANGED <<task, moved, maker, expired>> /\ shared \subseteq shared'
    BY <1>3 DEF StartTrade, rows, cache, outside
  <2> QED BY <1>0, <2>1, <2>2, <2>3, QuoteTaken
<1>4. ASSUME NEW b \in Batches, StartBatch(b) PROVE QuoteInv'
  <2>1. b \in Trades
    BY DEF Trades
  <2>2. \A u \in Trades \ {b} : of[u] # b
    BY ConvertAssumption DEF PaidInv, Typed, OwnQuote, Trades
  <2>3. /\ pc[b] = "idle" /\ pc' = [pc EXCEPT ![b] = "call"] /\ of' = [of EXCEPT ![b] = b]
        /\ UNCHANGED <<task, moved, maker, expired>> /\ shared \subseteq shared'
    BY <1>4 DEF StartBatch, rows, cache, outside, history
  <2> QED BY <1>0, <2>1, <2>2, <2>3, QuoteTaken
<1>5. ASSUME NEW t \in Trades, Running(t) PROVE QuoteInv'
  <2>1. pc[t] \in {"call", "transfer"}
    BY <1>5 DEF Running, MakerAnswers, ConversionFails, ConversionTimesOut, Transfer,
       TransferFails
  <2>2. task[t] = NoTask /\ moved[t] # 1 /\ Active(t)
    <3>1. status[t] = "none" /\ task[t] = NoTask
      BY <2>1 DEF PaidInv, Fresh
    <3> QED BY <2>1, <3>1 DEF PaidInv, SucceededIffMoved, Active
  <2>3. /\ \A u \in Trades \ {t} : pc'[u] = pc[u] /\ task'[u] = task[u] /\ moved'[u] = moved[u]
        /\ UNCHANGED <<of, shared>>
        /\ maker \subseteq maker' /\ expired \subseteq expired'
    BY <1>0, <1>5 DEF Running, MakerAnswers, ConversionFails, ConversionTimesOut, Transfer,
       TransferFails, NoAnswer, Rollback, Invalidate, Pay, TypeOK, rows, cache, outside, history
  <2>4. pc'[t] = "transfer" \/ task'[t].step = "transfer" \/ moved'[t] = 1 => of[t] \in maker'
    <3>1. CASE MakerAnswers(t)
      BY <3>1 DEF MakerAnswers
    <3>2. CASE ConversionFails(t) \/ TransferFails(t)
      BY <1>0, <2>2, <3>2, TaskSteps DEF ConversionFails, TransferFails, Rollback, rows, TypeOK
    <3>3. CASE ConversionTimesOut(t)
      <4>1. task'[t] = NoTask \/ task'[t] = Queued(0)
        BY <1>0, <2>2, <3>3 DEF ConversionTimesOut, TypeOK
      <4>2. task'[t].step # "transfer"
        BY <4>1 DEF NoTask, Queued
      <4> QED BY <1>0, <2>2, <3>3, <4>2 DEF ConversionTimesOut, TypeOK
    <3>4. CASE Transfer(t)
      BY <3>4 DEF Transfer, outside, QuoteInv, Told
    <3> QED BY <1>5, <3>1, <3>2, <3>3, <3>4 DEF Running
  <2>5. task'[t] # NoTask \/ moved'[t] = 1 => of[t] \in expired'
    BY <1>5, <2>2 DEF Running, MakerAnswers, ConversionFails, ConversionTimesOut, Transfer,
       TransferFails, Invalidate, rows
  <2> QED BY <2>2, <2>3, <2>4, <2>5, QuoteLocal
<1>6. ASSUME NEW t \in Trades, TaskStep(t) \/ LoseTask(t) PROVE QuoteInv'
  <2>1. task[t] # NoTask
    <3>1. CASE TaskStep(t)
      <4>1. task[t].step \in {"queued", "transfer"}
        BY <3>1 DEF TaskStep, GiveUp, ConversionFound, ConversionNotFound, TaskTransfers,
           TaskTransferFails
      <4> QED BY <4>1, TaskSteps
    <3>2. CASE LoseTask(t)
      BY <3>2 DEF LoseTask
    <3> QED BY <1>6, <3>1, <3>2
  <2>2. Active(t) /\ of[t] \in expired
    BY <2>1 DEF Active, QuoteInv, Spent
  <2>3. /\ \A u \in Trades \ {t} : pc'[u] = pc[u] /\ task'[u] = task[u] /\ moved'[u] = moved[u]
        /\ UNCHANGED <<pc, of, shared, maker, expired>>
    BY <1>0, <1>6 DEF TaskStep, GiveUp, ConversionFound, ConversionNotFound, TaskTransfers,
       TaskTransferFails, Again, Pay, LoseTask, TypeOK, calling, rows, cache, outside, history
  <2>4. task'[t].step = "transfer" \/ moved'[t] = 1 => of[t] \in maker
    <3>1. CASE GiveUp(t) \/ LoseTask(t)
      BY <1>0, <3>1, TaskSteps DEF GiveUp, LoseTask, rows, TypeOK, QuoteInv, Told
    <3>2. CASE ConversionFound(t)
      BY <3>2 DEF ConversionFound
    <3>3. CASE ConversionNotFound(t) \/ TaskTransferFails(t)
      <4>1. task'[t].step = "queued" /\ moved' = moved
        BY <1>0, <3>3 DEF ConversionNotFound, TaskTransferFails, Again, Queued, rows, TypeOK
      <4> QED BY <4>1 DEF QuoteInv, Told
    <3>4. CASE TaskTransfers(t)
      BY <3>4 DEF TaskTransfers, QuoteInv, Told
    <3> QED BY <1>6, <3>1, <3>2, <3>3, <3>4 DEF TaskStep
  <2>5. pc'[t] # "transfer"
    BY <2>1, <2>3 DEF PaidInv, Fresh
  <2> QED BY <2>2, <2>3, <2>4, <2>5, QuoteLocal
<1>7. ASSUME NEW t \in Trades, FailOldUnknownTrades(t) \/ Paying(t) PROVE QuoteInv'
  BY <1>1, <1>7 DEF FailOldUnknownTrades, Paying, GetUserWallet, CheckActive, calling, rows,
     cache, outside, history
<1>8. ASSUME NEW q \in Quotes \cup Batches, MakerConverts(q) \/ LoseQuote(q) PROVE QuoteInv'
  BY <1>1, <1>8 DEF MakerConverts, LoseQuote, calling, rows, cache, outside, history
<1>9. ASSUME NEW r \in Records, SmallAssetConvert(r) PROVE QuoteInv'
  BY <1>1, <1>9 DEF SmallAssetConvert, calling, rows, cache, outside, history
<1>10. ASSUME UpdateSmallAssets \/ UseWallet PROVE QuoteInv'
  BY <1>1, <1>10 DEF UpdateSmallAssets, UseWallet, calling, rows, cache, outside, history
<1> QED BY <1>2, <1>3, <1>4, <1>5, <1>6, <1>7, <1>8, <1>9, <1>10 DEF Next

\* Money moves only against a conversion of the market maker, and two trades share
\* one only if two requests were using the same quote at once.
THEOREM MoneyIsBacked == Spec => []BackedByConversion
<1>1. Init => QuoteInv
  BY TaskSteps DEF Init, QuoteInv, Told, Spent, Exclusive, Active
<1>2. PaidInv /\ QuoteInv => BackedByConversion
  <2> SUFFICES ASSUME PaidInv, QuoteInv, NEW t \in Trades, moved[t] = 1
               PROVE  /\ of[t] \in maker
                      /\ of[t] \notin shared => \A u \in Trades \ {t} :
                                                  of[u] = of[t] => moved[u] = 0
    BY DEF BackedByConversion
  <2>1. \A u \in Trades : moved[u] = 0 \/ moved[u] = 1
    BY DEF PaidInv, Typed, TypeOK
  <2> QED BY <2>1 DEF QuoteInv, Told, Exclusive, Active
<1> QED BY <1>1, <1>2, PaidInit, PaidStep, QuoteStep, PTL DEF Spec

-----------------------------------------------------------------------------
(* A small asset is converted once *)

\* A batch that is creating its trade and has its records locked.
Locked(b) == pc[b] \in {"call", "transfer"}

\* A batch that was failed, whatever became of it afterwards.
GivenUp(b) == status[b] = "failed" \/ b \in late

\* One batch at a time, with records that wait; before, a batch has none.
OneBatch ==
  /\ \A a, b \in Batches : Locked(a) /\ Locked(b) => a = b
  /\ \A b \in Batches : Locked(b) => recs[b] \subseteq Waiting
  /\ \A b \in Batches : pc[b] = "idle" => recs[b] = {}

\* A record that was taken refers to a batch that took it; it is failed or
\* succeeded only as that batch was.
LinkHolds ==
  \A r \in Records : record[r] \in {"in_progress", "succeeded", "failed"} =>
    /\ link[r] \in Batches /\ r \in recs[link[r]] /\ pc[link[r]] = "over"
    /\ record[r] = "failed" => GivenUp(link[r])
    /\ record[r] = "succeeded" => moved[link[r]] = 1

\* Of the batches that took a record, all but the last were given up.
OthersGivenUp ==
  \A r \in Records, b \in Batches : r \in recs[b] /\ pc[b] = "over" =>
    /\ record[r] \in {"in_progress", "succeeded", "failed"}
    /\ link[r] = b \/ GivenUp(b)

AssetInv == OneBatch /\ LinkHolds /\ OthersGivenUp

\* What is given up or moved stays so, whoever writes the row.
GivenUpStays ==
  \A b \in Batches : (GivenUp(b) => GivenUp(b)') /\ (moved[b] = 1 => moved'[b] = 1)

LEMMA StaysGivenUp == PaidInv /\ [Next]_vars => GivenUpStays
<1> SUFFICES ASSUME PaidInv, [Next]_vars PROVE GivenUpStays
  OBVIOUS
<1>0. TypeOK
  BY DEF PaidInv, Typed
<1>1. ASSUME UNCHANGED <<status, moved, late>> PROVE GivenUpStays
  BY <1>1 DEF GivenUpStays, GivenUp
<1>2. ASSUME NEW t \in Trades, Pay(t), moved[t] = 0 PROVE GivenUpStays
  <2>1. /\ \A b \in Batches \ {t} : status'[b] = status[b] /\ moved'[b] = moved[b]
        /\ moved'[t] = 1 /\ late \subseteq late'
        /\ status[t] = "failed" => t \in late'
    BY <1>0, <1>2 DEF Pay, TypeOK, Trades
  <2> QED BY <2>1 DEF GivenUpStays, GivenUp
<1>3. ASSUME NEW t \in Trades, NEW s, status' = [status EXCEPT ![t] = s],
             UNCHANGED <<moved, late>>, status[t] # "failed" \/ s = "failed"
      PROVE  GivenUpStays
  <2>1. \A b \in Batches : status[b] = "failed" => status'[b] = "failed"
    BY <1>0, <1>3 DEF TypeOK, Trades
  <2> QED BY <1>3, <2>1 DEF GivenUpStays, GivenUp
<1>4. CASE UNCHANGED vars
  BY <1>1, <1>4 DEF vars, rows, history
<1>5. ASSUME NEW c \in Calls, NEW q \in Quotes, StartTrade(c, q) PROVE GivenUpStays
  BY <1>1, <1>5 DEF StartTrade, rows
<1>6. ASSUME NEW b \in Batches, StartBatch(b) PROVE GivenUpStays
  BY <1>1, <1>6 DEF StartBatch, rows, history
<1>7. ASSUME NEW t \in Trades, Running(t) PROVE GivenUpStays
  <2>1. CASE MakerAnswers(t) \/ ConversionFails(t) \/ TransferFails(t)
    BY <1>1, <2>1 DEF MakerAnswers, ConversionFails, TransferFails, rows, history
  <2>2. CASE ConversionTimesOut(t)
    <3>1. status[t] = "none"
      BY <2>2 DEF ConversionTimesOut, PaidInv, Fresh
    <3> QED BY <1>3, <2>2, <3>1 DEF ConversionTimesOut, history
  <2>3. CASE Transfer(t)
    BY <1>2, <2>3 DEF Transfer, CommitAllowed
  <2> QED BY <1>7, <2>1, <2>2, <2>3 DEF Running
<1>8. ASSUME NEW t \in Trades, TaskStep(t) PROVE GivenUpStays
  BY <1>1, <1>2, <1>3, <1>8 DEF TaskStep, GiveUp, ConversionFound, ConversionNotFound,
     TaskTransfers, TaskTransferFails, CommitAllowed, rows, history
<1>9. ASSUME NEW t \in Trades, FailOldUnknownTrades(t) \/ LoseTask(t) \/ Paying(t)
      PROVE  GivenUpStays
  BY <1>1, <1>3, <1>9 DEF FailOldUnknownTrades, LoseTask, Paying, GetUserWallet, CheckActive,
     rows, history
<1>10. ASSUME NEW q \in Quotes \cup Batches, MakerConverts(q) \/ LoseQuote(q)
       PROVE  GivenUpStays
  BY <1>1, <1>10 DEF MakerConverts, LoseQuote, rows, history
<1>11. ASSUME NEW r \in Records, SmallAssetConvert(r) PROVE GivenUpStays
  BY <1>1, <1>11 DEF SmallAssetConvert, rows, history
<1>12. ASSUME UpdateSmallAssets \/ UseWallet PROVE GivenUpStays
  BY <1>1, <1>12 DEF UpdateSmallAssets, UseWallet, rows, history
<1> QED BY <1>4, <1>5, <1>6, <1>7, <1>8, <1>9, <1>10, <1>11, <1>12 DEF Next

\* A step that changes no record keeps AssetInv.
LEMMA AssetsUntouched ==
  ASSUME AssetInv, GivenUpStays, UNCHANGED <<pc, record, link, recs>>
  PROVE  AssetInv'
<1>1. OneBatch'
  BY DEF AssetInv, OneBatch, Locked, Waiting
<1>2. LinkHolds'
  BY DEF AssetInv, LinkHolds, GivenUpStays
<1>3. OthersGivenUp'
  BY DEF AssetInv, OthersGivenUp, GivenUpStays
<1> QED BY <1>1, <1>2, <1>3 DEF AssetInv

\* A trade that ends with its records commits them: they are now the last batch's.
LEMMA AssetsTaken ==
  ASSUME PaidInv, AssetInv, GivenUpStays, NEW t \in Trades, Locked(t), TakeRecords(t),
         pc' = [pc EXCEPT ![t] = "over"]
  PROVE  AssetInv'
<1>0. TypeOK /\ CallsTakeNothing
  BY DEF PaidInv, Typed
<1>1. pc'[t] = "over" /\ \A u \in Trades \ {t} : pc'[u] = pc[u]
  BY <1>0 DEF TypeOK
<1>2. /\ recs' = recs
      /\ \A r \in Records : /\ r \in recs[t] => record'[r] = "in_progress" /\ link'[r] = t
                            /\ r \notin recs[t] => record'[r] = record[r] /\ link'[r] = link[r]
  BY <1>0 DEF TakeRecords, TypeOK
<1>3. \A r \in recs[t] : t \in Batches /\ record[r] \in {"created", "failed"}
  BY <1>0 DEF CallsTakeNothing, Trades, AssetInv, OneBatch, Waiting
<1>4. OneBatch'
  <2>1. \A b \in Batches : Locked(b)' => b # t /\ Locked(b)
    BY <1>1 DEF Locked, Trades
  <2>2. ASSUME NEW b \in Batches, Locked(b)' PROVE recs'[b] \subseteq Waiting'
    <3>1. b # t /\ Locked(b) /\ recs[b] \subseteq Waiting
      BY <2>1, <2>2 DEF AssetInv, OneBatch
    <3>2. recs[t] = {}
      BY <1>3, <3>1 DEF AssetInv, OneBatch
    <3> QED BY <1>2, <3>1, <3>2 DEF Waiting
  <2>3. \A b \in Batches : pc'[b] = "idle" => recs'[b] = {}
    BY <1>1, <1>2 DEF AssetInv, OneBatch, Trades
  <2>4. \A a, b \in Batches : Locked(a)' /\ Locked(b)' => a = b
    BY <2>1 DEF AssetInv, OneBatch
  <2> QED BY <2>2, <2>3, <2>4 DEF OneBatch
<1>5. LinkHolds'
  <2> SUFFICES ASSUME NEW r \in Records, record'[r] \in {"in_progress", "succeeded", "failed"}
               PROVE  /\ link'[r] \in Batches /\ r \in recs'[link'[r]]
                      /\ pc'[link'[r]] = "over"
                      /\ record'[r] = "failed" => status'[link'[r]] = "failed" \/ link'[r] \in late'
                      /\ record'[r] = "succeeded" => moved'[link'[r]] = 1
    BY DEF LinkHolds, GivenUp
  <2>1. CASE r \in recs[t]
    BY <1>1, <1>2, <1>3, <2>1
  <2>2. CASE r \notin recs[t]
    <3>1. /\ link'[r] = link[r] /\ link[r] \in Batches /\ r \in recs[link[r]]
          /\ pc[link[r]] = "over"
          /\ record'[r] = "failed" => GivenUp(link[r])
          /\ record'[r] = "succeeded" => moved[link[r]] = 1
      BY <1>2, <2>2 DEF AssetInv, LinkHolds
    <3>2. pc'[link[r]] = "over"
      BY <1>1, <3>1 DEF Trades
    <3> QED BY <1>2, <3>1, <3>2 DEF GivenUpStays, GivenUp
  <2> QED BY <2>1, <2>2
<1>6. OthersGivenUp'
  <2> SUFFICES ASSUME NEW r \in Records, NEW b \in Batches, r \in recs[b], pc'[b] = "over"
               PROVE  /\ record'[r] \in {"in_progress", "succeeded", "failed"}
                      /\ link'[r] = b \/ GivenUp(b)'
    BY <1>2 DEF OthersGivenUp
  <2>1. CASE b = t
    BY <1>2, <2>1
  <2>2. CASE b # t /\ r \notin recs[t]
    BY <1>1, <1>2, <2>2 DEF AssetInv, OthersGivenUp, GivenUpStays, Trades
  <2>3. CASE b # t /\ r \in recs[t]
    <3>1. record[r] = "failed"
      BY <1>1, <1>3, <2>3 DEF AssetInv, OthersGivenUp, Trades
    <3>2. GivenUp(b)
      BY <1>1, <2>3, <3>1 DEF AssetInv, OthersGivenUp, LinkHolds, Trades
    <3> QED BY <1>2, <2>3, <3>2 DEF GivenUpStays
  <2> QED BY <2>1, <2>2, <2>3
<1> QED BY <1>4, <1>5, <1>6 DEF AssetInv

\* A transaction that is rolled back leaves the records as they were.
LEMMA AssetsReleased ==
  ASSUME PaidInv, AssetInv, GivenUpStays, NEW t \in Trades, Locked(t), Rollback(t)
  PROVE  AssetInv'
<1>0. TypeOK
  BY DEF PaidInv, Typed
<1>1. /\ pc'[t] = "over" /\ recs'[t] = {} /\ record' = record /\ link' = link
      /\ \A u \in Trades \ {t} : pc'[u] = pc[u] /\ recs'[u] = recs[u]
  BY <1>0 DEF TypeOK, Rollback
<1>2. \A b \in Batches : b \in Trades
  BY DEF Trades
<1>3. OneBatch'
  BY <1>1, <1>2 DEF AssetInv, OneBatch, Locked, Waiting
<1>4. LinkHolds'
  <2>1. pc[t] # "over"
    BY DEF Locked
  <2> QED BY <1>1, <1>2, <2>1 DEF AssetInv, LinkHolds, GivenUpStays
<1>5. OthersGivenUp'
  BY <1>1, <1>2 DEF AssetInv, OthersGivenUp, GivenUpStays
<1> QED BY <1>3, <1>4, <1>5 DEF AssetInv

LEMMA AssetStep == PaidInv /\ AssetInv /\ [Next]_vars => AssetInv'
<1> SUFFICES ASSUME PaidInv, AssetInv, [Next]_vars PROVE AssetInv'
  OBVIOUS
<1>0. TypeOK /\ GivenUpStays /\ \A b \in Batches : b \in Trades
  BY StaysGivenUp DEF PaidInv, Typed, Trades
<1>1. CASE UNCHANGED vars
  BY <1>0, <1>1, AssetsUntouched DEF vars, calling, small
<1>2. ASSUME NEW c \in Calls, NEW q \in Quotes, StartTrade(c, q) PROVE AssetInv'
  <2>1. UNCHANGED <<record, link, recs>> /\ \A b \in Batches : pc'[b] = pc[b]
    BY <1>0, <1>2, ConvertAssumption DEF StartTrade, small, TypeOK
  <2>2. OneBatch'
    BY <2>1 DEF AssetInv, OneBatch, Locked, Waiting
  <2>3. LinkHolds'
    BY <1>0, <2>1 DEF AssetInv, LinkHolds, GivenUpStays
  <2>4. OthersGivenUp'
    BY <1>0, <2>1 DEF AssetInv, OthersGivenUp, GivenUpStays
  <2> QED BY <2>2, <2>3, <2>4 DEF AssetInv
<1>3. ASSUME NEW b \in Batches, StartBatch(b) PROVE AssetInv'
  <2>1. PICK rs \in SUBSET Waiting : recs' = [recs EXCEPT ![b] = rs]
    BY <1>3 DEF StartBatch
  <2>2. /\ pc[b] = "idle" /\ pc'[b] = "call" /\ recs[b] = {} /\ recs'[b] \subseteq Waiting
        /\ \A a \in Batches \ {b} : pc'[a] = pc[a] /\ recs'[a] = recs[a]
        /\ \A a \in Batches : ~ Locked(a)
        /\ UNCHANGED <<record, link>>
    BY <1>0, <1>3, <2>1 DEF StartBatch, TypeOK, AssetInv, OneBatch, Locked
  <2>3. OneBatch'
    BY <2>2 DEF AssetInv, OneBatch, Locked, Waiting
  <2>4. LinkHolds'
    BY <1>0, <2>2 DEF AssetInv, LinkHolds, GivenUpStays
  <2>5. OthersGivenUp'
    BY <1>0, <2>2 DEF AssetInv, OthersGivenUp, GivenUpStays
  <2> QED BY <2>3, <2>4, <2>5 DEF AssetInv
<1>4. ASSUME NEW t \in Trades, Running(t) PROVE AssetInv'
  <2>1. Locked(t)
    BY <1>4 DEF Running, MakerAnswers, ConversionFails, ConversionTimesOut, Transfer,
       TransferFails, Locked
  <2>2. CASE MakerAnswers(t)
    <3>1. /\ UNCHANGED <<record, link, recs>> /\ pc[t] = "call" /\ pc'[t] = "transfer"
          /\ \A u \in Trades \ {t} : pc'[u] = pc[u]
      BY <1>0, <2>2 DEF MakerAnswers, small, TypeOK
    <3>2. OneBatch'
      BY <1>0, <3>1 DEF AssetInv, OneBatch, Locked, Waiting
    <3>3. LinkHolds'
      BY <1>0, <3>1 DEF AssetInv, LinkHolds, GivenUpStays
    <3>4. OthersGivenUp'
      BY <1>0, <3>1 DEF AssetInv, OthersGivenUp, GivenUpStays
    <3> QED BY <3>2, <3>3, <3>4 DEF AssetInv
  <2>3. CASE ConversionFails(t) \/ TransferFails(t)
    BY <1>0, <2>1, <2>3, AssetsReleased DEF ConversionFails, TransferFails
  <2>4. CASE ConversionTimesOut(t) \/ Transfer(t)
    BY <1>0, <2>1, <2>4, AssetsTaken DEF ConversionTimesOut, Transfer
  <2> QED BY <1>4, <2>2, <2>3, <2>4 DEF Running
<1>5. ASSUME NEW t \in Trades,
             TaskStep(t) \/ FailOldUnknownTrades(t) \/ LoseTask(t) \/ Paying(t)
      PROVE  AssetInv'
  BY <1>0, <1>5, AssetsUntouched DEF TaskStep, GiveUp, ConversionFound, ConversionNotFound,
     TaskTransfers, TaskTransferFails, FailOldUnknownTrades, LoseTask, Paying, GetUserWallet,
     CheckActive, calling, small
<1>6. ASSUME NEW q \in Quotes \cup Batches, MakerConverts(q) \/ LoseQuote(q) PROVE AssetInv'
  BY <1>0, <1>6, AssetsUntouched DEF MakerConverts, LoseQuote, calling, small
<1>7. ASSUME NEW s \in Records, SmallAssetConvert(s) PROVE AssetInv'
  <2>1. /\ record[s] = "none" /\ record'[s] = "created" /\ UNCHANGED <<pc, link, recs>>
        /\ \A r \in Records \ {s} : record'[r] = record[r]
    BY <1>0, <1>7 DEF SmallAssetConvert, calling, TypeOK
  <2>2. OneBatch'
    BY <2>1 DEF AssetInv, OneBatch, Locked, Waiting
  <2>3. LinkHolds'
    BY <1>0, <2>1 DEF AssetInv, LinkHolds, GivenUpStays
  <2>4. OthersGivenUp'
    BY <1>0, <2>1 DEF AssetInv, OthersGivenUp, GivenUpStays
  <2> QED BY <2>2, <2>3, <2>4 DEF AssetInv
<1>8. ASSUME UpdateSmallAssets PROVE AssetInv'
  <2>1. /\ UNCHANGED <<pc, link, recs, status, moved, late>>
        /\ \A r \in Records : record'[r] = RecordAfter(r)
    BY <1>8 DEF UpdateSmallAssets, calling, rows, history
  <2>2. OneBatch'
    <3>1. Waiting \subseteq Waiting'
      BY <2>1 DEF Waiting, RecordAfter
    <3> QED BY <2>1, <3>1 DEF AssetInv, OneBatch, Locked
  <2>3. LinkHolds'
    <3> SUFFICES ASSUME NEW r \in Records,
                        record'[r] \in {"in_progress", "succeeded", "failed"}
                 PROVE  /\ link[r] \in Batches /\ r \in recs[link[r]] /\ pc[link[r]] = "over"
                        /\ record'[r] = "failed" => GivenUp(link[r])
                        /\ record'[r] = "succeeded" => moved[link[r]] = 1
      BY <2>1 DEF LinkHolds, GivenUp
    <3>1. CASE record'[r] = record[r]
      BY <3>1 DEF AssetInv, LinkHolds
    <3>2. CASE record'[r] # record[r]
      <4>1. record[r] = "in_progress" /\ record'[r] = status[link[r]]
        BY <2>1, <3>2 DEF RecordAfter
      <4>2. link[r] \in Batches /\ r \in recs[link[r]] /\ pc[link[r]] = "over"
        BY <4>1 DEF AssetInv, LinkHolds
      <4> QED BY <1>0, <4>1, <4>2 DEF PaidInv, SucceededIffMoved, GivenUp
    <3> QED BY <3>1, <3>2
  <2>4. OthersGivenUp'
    <3>1. \A r \in Records : record[r] \in {"in_progress", "succeeded", "failed"} =>
                              record'[r] \in {"in_progress", "succeeded", "failed"}
      BY <2>1 DEF RecordAfter
    <3> QED BY <2>1, <3>1 DEF AssetInv, OthersGivenUp, GivenUp
  <2> QED BY <2>2, <2>3, <2>4 DEF AssetInv
<1>9. ASSUME UseWallet PROVE AssetInv'
  BY <1>0, <1>9, AssetsUntouched DEF UseWallet, calling, small
<1> QED BY <1>1, <1>2, <1>3, <1>4, <1>5, <1>6, <1>7, <1>8, <1>9 DEF Next

\* A small asset is converted by one batch only, unless a trade succeeds after it
\* was failed and its records were handed to the next batch.
THEOREM AssetsConvertedOnce == Spec => []ConvertedOnce
<1>1. Init => AssetInv
  BY DEF Init, AssetInv, OneBatch, LinkHolds, OthersGivenUp, Locked, Trades
<1>2. PaidInv /\ AssetInv => ConvertedOnce
  <2> SUFFICES ASSUME PaidInv, AssetInv, NEW r \in Records
               PROVE  LET done == {b \in Batches : r \in recs[b] /\ moved[b] = 1}
                      IN /\ Cardinality(done) > 1 => done \cap late # {}
                         /\ record[r] = "succeeded" => done # {}
    BY DEF ConvertedOnce
  <2> DEFINE done == {b \in Batches : r \in recs[b] /\ moved[b] = 1}
  <2>1. ASSUME done \cap late = {} PROVE ~ (Cardinality(done) > 1)
    <3>1. \A b \in done : status[b] = "succeeded" /\ pc[b] = "over"
      BY DEF PaidInv, SucceededIffMoved, Fresh, Trades
    <3>2. done \subseteq {link[r]}
      BY <2>1, <3>1 DEF AssetInv, OthersGivenUp, GivenUp
    <3>3. IsFiniteSet({link[r]}) /\ Cardinality({link[r]}) = 1
      BY FS_Singleton
    <3>4. IsFiniteSet(done) /\ Cardinality(done) <= Cardinality({link[r]})
      BY <3>2, <3>3, FS_Subset
    <3>5. Cardinality(done) \in Nat
      BY <3>4, FS_CardinalityType
    <3> QED BY <3>3, <3>4, <3>5
  <2>2. Cardinality(done) > 1 => done \cap late # {}
    BY <2>1
  <2>3. record[r] = "succeeded" => done # {}
    BY DEF AssetInv, LinkHolds
  <2> QED BY <2>2, <2>3
<1> QED BY <1>1, <1>2, PaidInit, PaidStep, AssetStep, PTL DEF Spec
=============================================================================
