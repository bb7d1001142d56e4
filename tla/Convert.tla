------------------------------ MODULE Convert ------------------------------
(***************************************************************************)
(* Convert (xchange): a user exchanges one currency for another at the     *)
(* price of a quote, the exchange does the same at a market maker.         *)
(* create_trade asks the market maker to convert in the middle of its      *)
(* database transaction; when it does not answer in time, the trade is     *)
(* committed with status unknown and a Celery task asks again, a few       *)
(* times; a cron fails what is still unknown later.  Small assets are      *)
(* taken from the users at once and converted later, in batches, by trades *)
(* of a system user.                                                       *)
(*                                                                         *)
(* A trade is identified by the call that creates it, a conversion at the  *)
(* market maker by its quote, whose client_order_id is sent along.  Every  *)
(* user's trade and every small asset is one unit at price one.  Left out: *)
(* market limitations, the collection of the market maker's trades for     *)
(* comparison, and inactive wallets other than as a failing transfer.      *)
(*                                                                         *)
(* A payment takes three steps, since no lock is held before the last: the *)
(* wallet is read, its active balance is compared with the amount, and the *)
(* commit moves the money if the balance suffices by then.                 *)
(***************************************************************************)
EXTENDS Integers, FiniteSets

CONSTANTS Calls,      \* calls of create_trade by the user
          Quotes,     \* quotes the user has got
          Batches,    \* batch trades; the quote of a batch is the batch itself
          Records,    \* SmallAssetConvert rows
          MaxBatch,   \* records that max_base_amount allows in one trade
          MaxRetries, \* GET_MISSED_CONVERSION_STATUS_RETRIES
          Funds,      \* balance of the user's wallet at the beginning
          Scenarios,  \* which trades are made: sets of calls or batches
          MaxFaults,  \* bound on lost tasks and lost quotes
          None

Trades == Calls \cup Batches

ASSUME ConvertAssumption ==
  /\ Calls \cap Batches = {} /\ Quotes \cap Batches = {}
  /\ None \notin Trades \cup Quotes /\ Scenarios \subseteq SUBSET Trades
  /\ IsFiniteSet(Records) /\ MaxBatch \in Nat \ {0} /\ MaxRetries \in Nat
  /\ Funds \in Nat /\ MaxFaults \in Nat

VARIABLES
  live,     \* the trades of this behaviour
  pc,       \* pc[t]: step of create_trade
  of,       \* of[t]: the quote of t
  status,   \* status of the row of t, "none" if there is none
  moved,    \* moved[t]: how often the four transactions of t were made
  size,     \* size[t]: amount of t
  expired,  \* quotes that were invalidated
  dropped,  \* quotes the cache has lost
  maker,    \* quotes the market maker has converted
  inflight, \* quotes whose request may still reach it
  task,     \* task[t]: get_missed_conversion_status_task of t and its retry
  paying,   \* paying[t]: how far t is with its payment, and the balance it saw
  balance, blocked, \* the user's wallet
  pool,     \* wallet of the system user for small assets
  record,   \* record[r]: status of a small asset, "none" before it exists
  link,     \* link[r]: its related_batch_trade
  recs,     \* recs[b]: the records the batch b has locked or taken
  faults,
  shared,   \* history: quotes that two calls were using at once
  late      \* history: trades that succeeded after they had been failed

calling == <<pc, of, size, paying>>
rows == <<status, moved>>
cache == <<expired, dropped>>
outside == <<maker, inflight>>
wallet == <<balance, blocked>>
small == <<record, link, recs>>
history == <<shared, late>>
vars == <<live, calling, rows, cache, outside, task, wallet, pool, small, faults, history>>

NoTask == [step |-> "none", retry |-> 0]
NoPayment == [step |-> "none", saw |-> 0]
Queued(k) == [step |-> "queued", retry |-> k]
Available(q) == q \notin expired /\ q \notin dropped
Using(q) == {t \in Trades : of[t] = q /\ pc[t] \in {"call", "transfer"}}

-----------------------------------------------------------------------------
(* create_trade *)

\* get_quote and _check_balances, which looks at balance and not active_balance
StartTrade(c, q) ==
  /\ c \in live /\ pc[c] = "idle" /\ Available(q) /\ balance >= 1
  /\ pc' = [pc EXCEPT ![c] = "call"]
  /\ of' = [of EXCEPT ![c] = q]
  /\ size' = [size EXCEPT ![c] = 1]
  /\ shared' = IF Using(q) # {} THEN shared \cup {q} ELSE shared
  /\ UNCHANGED <<live, paying, rows, cache, outside, task, wallet, pool, small, faults, late>>

\* Mutant of Waiting: records of a running trade are taken again
WaitingAll == {r \in Records : record[r] \in {"created", "in_progress", "failed"}}

\* batch_convert: the statuses created and failed wait for a conversion.
Waiting == {r \in Records : record[r] \in {"created", "failed"}}

\* _batch_convert_by_market_maker: locks the oldest records up to the maximum,
\* gets a quote and calls create_trade for the system user.
StartBatch(b) ==
  /\ b \in live /\ pc[b] = "idle"
  /\ \A a \in Batches : pc[a] \notin {"call", "transfer"}
  /\ \E rs \in SUBSET Waiting :
       /\ rs # {} /\ Cardinality(rs) <= MaxBatch
       /\ Cardinality(rs) = MaxBatch \/ rs = Waiting
       /\ pool >= Cardinality(rs)
       /\ recs' = [recs EXCEPT ![b] = rs]
       /\ size' = [size EXCEPT ![b] = Cardinality(rs)]
  /\ pc' = [pc EXCEPT ![b] = "call"]
  /\ of' = [of EXCEPT ![b] = b]
  /\ UNCHANGED <<live, paying, rows, cache, outside, task, wallet, pool, record, link,
                 faults, history>>

\* The market maker converts a quote once; a second request is refused.
\* call_conversion_api: it answers, ...
MakerAnswers(t) ==
  /\ pc[t] = "call" /\ of[t] \notin maker
  /\ maker' = maker \cup {of[t]}
  /\ pc' = [pc EXCEPT ![t] = "transfer"]
  /\ UNCHANGED <<live, of, size, paying, rows, cache, inflight, task, wallet, pool, small,
                 faults, history>>

\* Without an answer, the request has been served, is on its way or is lost.
NoAnswer(q) ==
  \/ maker' = maker \cup {q} /\ UNCHANGED inflight
  \/ inflight' = inflight \cup {q} /\ UNCHANGED maker
  \/ UNCHANGED outside

\* The end of a transaction that leaves nothing behind.
Rollback(t) ==
  /\ pc' = [pc EXCEPT ![t] = "over"]
  /\ recs' = [recs EXCEPT ![t] = {}]
  /\ UNCHANGED <<record, link>>

\* ... refuses or breaks the connection: FailedConversion, ...
ConversionFails(t) ==
  /\ pc[t] = "call" /\ NoAnswer(of[t])
  /\ Rollback(t)
  /\ UNCHANGED <<live, of, size, paying, rows, cache, task, wallet, pool, faults, history>>

Invalidate(q) == expired' = expired \cup {q} /\ UNCHANGED dropped

\* The records of a batch are committed together with its trade.
TakeRecords(t) ==
  /\ record' = [r \in Records |-> IF r \in recs[t] THEN "in_progress" ELSE record[r]]
  /\ link' = [r \in Records |-> IF r \in recs[t] THEN t ELSE link[r]]
  /\ UNCHANGED recs

\* Mutant of ConversionTimesOut: the quote stays valid
TimesOutValid(t) ==
  /\ pc[t] = "call" /\ NoAnswer(of[t])
  /\ pc' = [pc EXCEPT ![t] = "over"]
  /\ status' = [status EXCEPT ![t] = "unknown"]
  /\ TakeRecords(t)
  /\ \/ task' = [task EXCEPT ![t] = Queued(0)] /\ UNCHANGED faults
     \/ faults < MaxFaults /\ faults' = faults + 1 /\ UNCHANGED task
  /\ UNCHANGED <<live, of, size, paying, moved, cache, wallet, pool, history>>

\* ... or takes longer than 5 seconds: ConversionTimeout.  The task is queued
\* after the commit, unless the process is killed in between.
ConversionTimesOut(t) ==
  /\ pc[t] = "call" /\ NoAnswer(of[t])
  /\ pc' = [pc EXCEPT ![t] = "over"]
  /\ status' = [status EXCEPT ![t] = "unknown"]
  /\ Invalidate(of[t]) /\ TakeRecords(t)
  /\ \/ task' = [task EXCEPT ![t] = Queued(0)] /\ UNCHANGED faults
     \/ faults < MaxFaults /\ faults' = faults + 1 /\ UNCHANGED task
  /\ UNCHANGED <<live, of, size, paying, moved, wallet, pool, history>>

-----------------------------------------------------------------------------
(* create_and_commit_wallet_transactions, in the request or in the task *)

Transferring(t) == pc[t] = "transfer" \/ task[t].step = "transfer"

\* allow_negative_balance is set when a batch is created, not in its task.
AllowNegative(t) == t \in Batches /\ pc[t] = "transfer"

\* get_user_wallet reads the wallet and does not lock it.
GetUserWallet(t) ==
  /\ Transferring(t) /\ paying[t] = NoPayment
  /\ paying' = [paying EXCEPT ![t] = [step |-> "read",
                                      saw |-> IF t \in Calls THEN balance ELSE pool]]
  /\ UNCHANGED <<live, pc, of, size, rows, cache, outside, task, wallet, pool, small, faults,
                 history>>

\* active_balance is the balance that was read without what orders and withdraws
\* block by now.
HasActive(t) ==
  \/ AllowNegative(t)
  \/ paying[t].saw - (IF t \in Calls THEN blocked ELSE 0) >= size[t]

CheckActive(t) ==
  /\ paying[t].step = "read" /\ HasActive(t)
  /\ paying' = [paying EXCEPT ![t] = [step |-> "checked", saw |-> 0]]
  /\ UNCHANGED <<live, pc, of, size, rows, cache, outside, task, wallet, pool, small, faults,
                 history>>

\* Mutant of CommitAllowed: the commit trusts the earlier look at the balance
CommitUnchecked(t) == moved[t] = 0

\* Transaction.commit: the references are unique, and the balance, of which a part
\* may be blocked, must not become negative.
CommitAllowed(t) ==
  /\ moved[t] = 0
  /\ AllowNegative(t) \/ (IF t \in Calls THEN balance ELSE pool) >= size[t]

Pay(t) ==
  /\ moved' = [moved EXCEPT ![t] = @ + 1]
  /\ status' = [status EXCEPT ![t] = "succeeded"]
  /\ late' = IF status[t] = "failed" THEN late \cup {t} ELSE late
  /\ paying' = [paying EXCEPT ![t] = NoPayment]
  /\ IF t \in Calls THEN balance' = balance - size[t] /\ UNCHANGED <<blocked, pool>>
     ELSE pool' = pool - size[t] /\ UNCHANGED wallet

Transfer(t) ==
  /\ pc[t] = "transfer" /\ paying[t].step = "checked" /\ CommitAllowed(t) /\ Pay(t)
  /\ pc' = [pc EXCEPT ![t] = "over"]
  /\ Invalidate(of[t]) /\ TakeRecords(t)
  /\ UNCHANGED <<live, of, size, outside, task, faults, shared>>

\* FailedAssetTransfer for want of funds, or a wallet is inactive, PairIsClosed:
\* the conversion stays without a trade.
TransferFails(t) ==
  /\ pc[t] = "transfer" /\ Rollback(t)
  /\ paying' = [paying EXCEPT ![t] = NoPayment]
  /\ UNCHANGED <<live, of, size, rows, cache, outside, task, wallet, pool, faults, history>>

\* A request that was given up reaches the market maker.
MakerConverts(q) ==
  /\ q \in inflight
  /\ inflight' = inflight \ {q} /\ maker' = maker \cup {q}
  /\ UNCHANGED <<live, calling, rows, cache, task, wallet, pool, small, faults, history>>

-----------------------------------------------------------------------------
(* get_missed_conversion_status_task *)

Again(t) == task' = [task EXCEPT ![t] = Queued(@.retry + 1)]

GiveUp(t) ==
  /\ task[t].step = "queued" /\ task[t].retry >= MaxRetries
  /\ status' = [status EXCEPT ![t] = "failed"]
  /\ task' = [task EXCEPT ![t] = NoTask]
  /\ UNCHANGED <<live, calling, moved, cache, outside, wallet, pool, small, faults, history>>

\* get_conversion by the client_order_id of the cached quote
ConversionFound(t) ==
  /\ task[t].step = "queued" /\ task[t].retry < MaxRetries
  /\ of[t] \notin dropped /\ of[t] \in maker
  /\ task' = [task EXCEPT ![t].step = "transfer"]
  /\ UNCHANGED <<live, calling, rows, cache, outside, wallet, pool, small, faults, history>>

\* No quote, no conversion or no answer
ConversionNotFound(t) ==
  /\ task[t].step = "queued" /\ task[t].retry < MaxRetries
  /\ Again(t)
  /\ UNCHANGED <<live, calling, rows, cache, outside, wallet, pool, small, faults, history>>

\* save() writes the status whatever the row has become meanwhile.
TaskTransfers(t) ==
  /\ task[t].step = "transfer" /\ paying[t].step = "checked" /\ CommitAllowed(t) /\ Pay(t)
  /\ task' = [task EXCEPT ![t] = NoTask]
  /\ UNCHANGED <<live, pc, of, size, cache, outside, small, faults, shared>>

TaskTransferFails(t) ==
  /\ task[t].step = "transfer" /\ Again(t)
  /\ paying' = [paying EXCEPT ![t] = NoPayment]
  /\ UNCHANGED <<live, pc, of, size, rows, cache, outside, wallet, pool, small, faults, history>>

-----------------------------------------------------------------------------
(* Crons and faults *)

\* Mutant of Stale: the cron looks at the age alone
StaleAny(t) == status[t] # "none"

\* Mutant of Stale: only trades that a task still looks after
StaleTasked(t) == status[t] = "unknown" /\ task[t] # NoTask

Stale(t) == status[t] = "unknown"

\* FailOldUnknownTradesCron; any moment may be COUNTDOWN * (RETRIES + 1) after
\* the creation, since the task may be delayed.
FailOldUnknownTrades(t) ==
  /\ Stale(t)
  /\ status' = [status EXCEPT ![t] = "failed"]
  /\ UNCHANGED <<live, calling, moved, cache, outside, task, wallet, pool, small, faults,
                 history>>

\* SmallAssetConvertor._convert: the user's asset goes to the system user.
SmallAssetConvert(r) ==
  /\ record[r] = "none" /\ live \subseteq Batches
  /\ record' = [record EXCEPT ![r] = "created"]
  /\ pool' = pool + 1
  /\ UNCHANGED <<live, calling, rows, cache, outside, task, wallet, link, recs, faults,
                 history>>

RecordAfter(r) ==
  IF record[r] = "in_progress" /\ status[link[r]] \in {"succeeded", "failed"}
  THEN status[link[r]] ELSE record[r]

\* update_small_asset_convert_status, an hour after each run of the batch cron
UpdateSmallAssets ==
  /\ \E r \in Records : RecordAfter(r) # record[r]
  /\ record' = [r \in Records |-> RecordAfter(r)]
  /\ UNCHANGED <<live, calling, rows, cache, outside, task, wallet, pool, link, recs,
                 faults, history>>

\* A worker is killed and its task is lost, or the cache loses a quote.
LoseTask(t) ==
  /\ task[t] # NoTask /\ faults < MaxFaults
  /\ task' = [task EXCEPT ![t] = NoTask] /\ faults' = faults + 1
  /\ paying' = [paying EXCEPT ![t] = NoPayment]
  /\ UNCHANGED <<live, pc, of, size, rows, cache, outside, wallet, pool, small, history>>

\* A batch has a quote once it asked for one; the user's are there if he trades.
Cached(q) == IF q \in Batches THEN of[q] = q ELSE live \cap Calls # {}

LoseQuote(q) ==
  /\ Cached(q) /\ q \notin dropped /\ faults < MaxFaults
  /\ dropped' = dropped \cup {q} /\ faults' = faults + 1
  /\ UNCHANGED <<live, calling, rows, expired, outside, task, wallet, pool, small, history>>

\* The user's other business: an order blocks what is active, releases or spends.
UseWallet ==
  /\ live \subseteq Calls
  /\ \/ blocked < balance /\ blocked' = blocked + 1 /\ UNCHANGED balance
     \/ blocked > 0 /\ blocked' = blocked - 1 /\ UNCHANGED balance
     \/ blocked > 0 /\ balance > 0 /\ blocked' = blocked - 1 /\ balance' = balance - 1
  /\ UNCHANGED <<live, calling, rows, cache, outside, task, pool, small, faults, history>>

-----------------------------------------------------------------------------
Init ==
  /\ live \in Scenarios
  /\ pc = [t \in Trades |-> "idle"] /\ of = [t \in Trades |-> None]
  /\ size = [t \in Trades |-> 0]
  /\ status = [t \in Trades |-> "none"] /\ moved = [t \in Trades |-> 0]
  /\ expired = {} /\ dropped = {} /\ maker = {} /\ inflight = {}
  /\ task = [t \in Trades |-> NoTask] /\ paying = [t \in Trades |-> NoPayment]
  /\ balance = Funds /\ blocked = 0 /\ pool = 0
  /\ record = [r \in Records |-> "none"] /\ link = [r \in Records |-> None]
  /\ recs = [t \in Trades |-> {}]
  /\ faults = 0 /\ shared = {} /\ late = {}

Running(t) ==
  \/ MakerAnswers(t) \/ ConversionFails(t) \/ ConversionTimesOut(t)
  \/ Transfer(t) \/ TransferFails(t)

TaskStep(t) ==
  \/ GiveUp(t) \/ ConversionFound(t) \/ ConversionNotFound(t)
  \/ TaskTransfers(t) \/ TaskTransferFails(t)

Paying(t) == GetUserWallet(t) \/ CheckActive(t)

Next ==
  \/ \E c \in Calls, q \in Quotes : StartTrade(c, q)
  \/ \E b \in Batches : StartBatch(b)
  \/ \E t \in Trades :
       Running(t) \/ Paying(t) \/ TaskStep(t) \/ FailOldUnknownTrades(t) \/ LoseTask(t)
  \/ \E q \in Quotes \cup Batches : MakerConverts(q) \/ LoseQuote(q)
  \/ \E r \in Records : SmallAssetConvert(r)
  \/ UpdateSmallAssets \/ UseWallet

Spec == Init /\ [][Next]_vars

\* The crons are repeated; nothing is assumed of tasks, users and market maker.
FairSpec ==
  /\ Spec
  /\ \A t \in Trades : WF_vars(FailOldUnknownTrades(t))
  /\ WF_vars(UpdateSmallAssets)

-----------------------------------------------------------------------------
(* Properties *)

\* Types of the rows, the queue and the wallets: conversions never make the user's
\* balance negative, though between the look at the wallet and the commit other
\* conversions and orders spend from it.
TypeOK ==
  /\ live \in Scenarios
  /\ pc \in [Trades -> {"idle", "call", "transfer", "over"}]
  /\ of \in [Trades -> Quotes \cup Batches \cup {None}]
  /\ size \in [Trades -> 0..MaxBatch]
  /\ status \in [Trades -> {"none", "unknown", "succeeded", "failed"}]
  /\ moved \in [Trades -> 0..1]
  /\ expired \subseteq Quotes \cup Batches /\ dropped \subseteq Quotes \cup Batches
  /\ maker \subseteq Quotes \cup Batches /\ inflight \subseteq Quotes \cup Batches
  /\ task \in [Trades -> [step : {"none", "queued", "transfer"}, retry : 0..MaxRetries]]
  /\ paying \in [Trades -> [step : {"none", "read", "checked"}, saw : Int]]
  /\ balance \in 0..Funds /\ blocked \in 0..Funds /\ pool \in Int
  /\ record \in [Records -> {"none", "created", "in_progress", "succeeded", "failed"}]
  /\ link \in [Records -> Batches \cup {None}]
  /\ recs \in [Trades -> SUBSET Records]
  /\ faults \in 0..MaxFaults /\ shared \subseteq Quotes /\ late \subseteq Trades

\* A trade is shown as succeeded exactly when its transactions were made,
\* whatever order the request, the retried task and the cron write the row in.
SucceededIffMoved ==
  \A t \in Trades : (status[t] = "succeeded") <=> (moved[t] = 1)

\* Money moves only against a conversion at the market maker, and one conversion
\* backs one trade, unless two requests were using its quote at the same time:
\* then the task of the one that timed out takes the other's conversion for its
\* own.
BackedByConversion ==
  \A t \in Trades : moved[t] = 1 =>
    /\ of[t] \in maker
    /\ of[t] \notin shared => \A u \in Trades \ {t} : of[u] = of[t] => moved[u] = 0

\* A small asset is converted by one batch trade, and shown as succeeded only
\* then; only a trade that succeeds after it was failed can convert it again.
ConvertedOnce ==
  \A r \in Records :
    LET done == {b \in Batches : r \in recs[b] /\ moved[b] = 1}
    IN /\ Cardinality(done) > 1 => done \cap late # {}
       /\ record[r] = "succeeded" => done # {}

\* No trade stays unknown, though its task may be lost, and so no small asset
\* stays in progress.
NothingStaysOpen ==
  /\ \A t \in Trades : status[t] = "unknown" ~> status[t] # "unknown"
  /\ \A r \in Records : record[r] = "in_progress" ~> record[r] # "in_progress"
=============================================================================
