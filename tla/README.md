# Verification of the trading core

This directory holds TLA+ modules for the parts of the exchange in
`core/exchange` that move money: who may write an order's row and when, how a
matching round decides which orders trade at which price with whose money, how
the proceeds of a trade reach the two wallets afterwards, how a withdraw is
verified, charged and sent, how the liquidator sells what it is handed, and how
a user's conversion is carried out at a market maker.  TLC checks the modules
on small instances; TLAPS proves for every instance all the safety properties
that the passing runs check.

Paths below are relative to `src/core/exchange/` unless they start with `src/`.

## 1. The system

### Parts of the repository

`src/core` is a Django application (PostgreSQL, Redis as cache, Celery for
tasks, cron jobs and long-running management commands).  The other top-level
directories are readers or tools: `api-fast` (public read API), `explorer` and
`app-blockchain` (blockchain explorers), `coinaddrvalidator`, `mempool`,
`tvdatafeed`, `ton-wallet-contract-v4` (third-party or vendored), `labs`,
`private-proof-of-transaction`, `sigmab-trusted-setup`, `novypay-wordpress`.

| Component | State | Operations | Talks to |
|---|---|---|---|
| Orders (`market/`) | `market_order` rows: status, matched amount, OCO pair | `create_order`, `update_status`, `_cancel_orders`, `task_cancel_order` | matcher, through the rows |
| Matcher (`matcher/matcher.py`) | Order and Wallet objects of a round; class-level dictionaries of last time, best prices and price range | `do_matching_round`, `post_processing_matcher_round` | orders, wallets, cache |
| Concurrent matcher, divider (`matcher/`) | partitions of the markets, two worker processes | `run_matcher_round`, `custom_partition_markets` | matcher |
| Trade processor (`matcher/tradeprocessor.py`, `process_trades`) | cursor and cached transaction ids (Redis); batch of a round | `do_round`, `bulk_update_trades` | trades, transactions |
| Repair cron (`market/functions.py`, `market/crons.py`) | a batch | `create_missing_transaction` | the same rows as the trade processor |
| Wallets (`wallet/models.py`) | `wallet_wallet.balance`, `Transaction` rows | `create_transaction`, `commit`, `validate_order` | everyone |
| Withdraws (`wallet/`, `process_withdraw`) | `WithdrawRequest` status and transaction, `AutomaticWithdraw` status; in memory the objects of a round and a batch per method | `wallets_withdraw`, `do_verify`, `cancel_request`, `process_withdraws`, `AutomaticWithdrawMethod.process_withdraw` | wallets, hot wallet services |
| Liquidator (`liquidator/`) | `LiquidationRequest`, `Liquidation` rows, their orders; Celery queues | `LiquidationCreator`, `OrderCreator`, the liquidation processors, `LiquidationRequestProcessor`, `DeleteEmptyLiquidation` | orders, external broker, wallets |
| Convert (`xchange/`) | `ExchangeTrade`, `SmallAssetConvert` rows; quotes in the cache; Celery queue | `create_trade`, `get_missed_conversion_status_task`, batch conversion, `FailOldUnknownTradesCron` | market maker, wallets |
| Margin, pool, staking, credit, direct debit | positions, pool capacity, requests | status machines of their own | orders, wallets, providers |
| Accounts, security, notification, charts, report, gift, ... | records | single-row operations | none of the protocols above |

### What is hard about it

* Every API request is one transaction (`ATOMIC_REQUESTS`), the matcher's round
  is another one, the stop activation a third, the trade processor and the
  cron use none across their steps.  All of them run concurrently on the same
  rows at READ COMMITTED.
* The matcher works on objects it read at the start of the round, with a
  savepoint per trade that undoes rows but not objects.
* `created_at` orders everything, but it is set before the row is visible.
* Deposits are made after the trade, by two processes that may both retry.
* Hot wallet, broker and market maker are called in the middle of a database
  transaction; an exception or a timeout does not tell what they have done.
* Celery tasks are fired after a commit and may be lost, late or doubled.
* `WithdrawRequest.save` reads the row to check the transition and writes it in
  a second statement, mostly without a lock.
* Failures: an exception rolls a round back and the process goes on with its
  dictionaries; processes are restarted; the cache expires or is lost.

The list `hazards` in `PROJECT.json` names the places, with the properties
that would catch each of them going wrong.

## 2. Modules

### OrderLifecycle

One market's order rows and the transactions that write them.  A process
(`Matcher` or a cancel request) has an open transaction (`written`), row locks
(`lock`) and a running UPDATE (`stmt`) whose rows it visits one by one in any
order: `UpdateRow` waits for the lock, re-evaluates the WHERE clause on the
version then visible and writes.  That is where an interleaving can hurt, so
nothing coarser is used.  `Deadlocked` is PostgreSQL's detector.

| Model | Code |
|---|---|
| `CreateOrder` | `MarketManager.create_order`, committed with its request; an OCO pair appears at once |
| `StartRound` | `get_market_orders`: `SELECT ... FOR NO KEY UPDATE SKIP LOCKED` |
| `CancelInMemory` | `_cancel_order` |
| `MatchTwoOrders`, `IncreaseOrderMatchedAmount`, `PairCanceled` | the savepoint of `match_two_orders`: `commit_trade` for both sides, each with the blind UPDATE of its OCO pair |
| `TradeFails` | the bare `except` of `match_two_orders` |
| `SaveRound`, `CommitRound` | `save_bulk_pending_orders`, `post_process_orders`, COMMIT |
| `ActivateStopOrders`, `CancelOcoOrderPair`, `CommitStops` | `post_processing_matcher_round` |
| `ViewCancel`, `TaskCancel`, `BatchCancel`, `CancelPair`, `CancelDone` | `orders_update_status`, `task_cancel_order`, `_cancel_orders` with `Order.update_status` |
| `RoundFails`, `StopsFail`, `CancelFails` | rollback at any point |

Abstracted: prices, funds and the order of candidates (any sell and buy of the
round may match in any amount), which stop prices are reached, and the margin
bookkeeping and publications that follow an update.

### MatchRound

The loops of `match_all_orders_v3` and `match_all_orders_before_order`, one
iteration per step, with prices, funds and priorities.  `Verdict` is the body
of the inner loop, exit by exit.  `mem`, `spent` and `newTrades` are the open
transaction; `wallet[o]` is the `cached_property` wallet object of one order;
`lastTime` and `lastBest` are the class-level dictionaries, written before
COMMIT and kept when a round fails.  Meanwhile requests save and commit orders
(two steps, because `created_at` belongs to the first) and withdraws hold,
release and pay out funds.  `ByPrice` and `ByAge` are the sorted lists of some
orders; creation times differ, so that there is one list, the one that Python's
stable sort makes of rows fetched by age.  Holding and paying are separate because in
production `WITHDRAW_CREATE_TX_VERIFY` is false: a verified request has no
transaction until it is processed.

Abstracted: amounts are integers in units of the precision, so an order is
never "trivial" and rounding down is integer division; fees come out of the
deposits.  Left out: the orderbook price range with its expansion, promotions
and inactive wallets.

### TradeProcessor

A trade is committed by the matcher with two withdraw transactions; the daemon
`process_trades` makes the two deposits with two worker threads, one step per
deposit, moves the cursor to the minimum of the last ids over the destination
currencies and only then writes the references back; the cron
`FixAddAsyncTradeTransactionCron` looks for trades between 30 minutes and 12
hours old and does the same without the cached ids.  Faults (`Fault`, bounded
by `MaxFaults`) are kills, exceptions and cache losses.  `Orphans` are trades of
a margin order that may have no `PositionOrder`: `RoundRaises` is the
`KeyError` that ends every round with such a trade in its batch before the
cursor moves, so that only the cron settles it and what comes after it.

Premise: the trades of one destination currency commit in the order of their
ids.  Ids come from one sequence and one process matches the markets of one
destination currency at a time (`divider.py` puts rial and tether markets into
different partitions, `run_with_process_on_markets` runs one partition of each
and waits for both), so it holds while one matcher runs.  It is the guard of
`CommitTrade`, and `CursorOvertakesNone` depends on it.

### Settlement

The abstract specification of the trade processor: a trade is committed once,
each of its deposits is credited at most once, one at a time, and recorded in
the row only after that; no record is lost.  `TradeProcessor` implements it with
`recorded[t]` the deposit references in the row of `t` (the substitution is in
its definition `Abstract`); `ImplementsSettlement` is the property.

### Withdraw

The coin withdraws of one wallet, each for one unit.  The settings are those of
production: cancel is enabled, `WITHDRAW_CREATE_TX_VERIFY` and
`WITHDRAW_FRAUD_ENABLED` are off.  A `save()` is two steps, its read and its
write; only the confirm views lock the row in between (`RowLocked`).
`process_withdraw` commits each statement on its own, works on objects read by
`Scan`, and keeps its batch in memory from round to round.

| Model | Code |
|---|---|
| `CreateRequest`, `ConfirmRead`, `ConfirmSave` | `wallets_withdraw`; the confirm views with `do_verify` |
| `CancelRead`, `CancelCheck`, `CancelSaveReads`, `CancelSaveWrites` | the cancel views: `is_cancelable` on what was read, then `save()` |
| `Scan`, `PassOver`, `Pick`, `EndScan`, `FlushBatch` | `process_withdraws`, `withdraw_change_states` |
| `AcceptWithdraw`, `PreProcessingWithdraw`, `SaveReads`, `SaveWrites`, `MarkRejected` | the state changes of a request before it is charged; a rejected one is marked failed by a second statement |
| `SettleReads`, `Settle`, `SettleDone` | `process_internal_transfer`, one transaction |
| `CreateTransaction`, `TransactionRefused`, `TransactionFails`, `LinkReads`, `LinkWrites` | `WithdrawRequest.create_transaction`: the charge is committed, the link is a second statement |
| `MarkSending`, `Validate`, `HotWalletSends`, `NothingToSend`, `SendFails`, `FinishReads`, `FinishWrites` | `AutomaticWithdrawMethod.process_withdraw` |
| `Crash` | the command is killed: the batch and an open transaction are lost |

`PassOver` stands for every way a round leaves a fetched request alone without
marking it: the user is restricted (`withdraw_process.py:997`), the coin or its
network is disabled (`:1010`, `:938`), the method is of no supported type
(`:953`), there is no processor for the currency, or the request is not among
the first 500 (`withdraw.py:129`).  It may happen in any round, so the safety
properties do not depend on it; `RequestsSettle` names it as its exception
(`PassedOverForGood`: from some time on every round passes the request over).

Left out: rial settlement, splitting, one-time passwords and limits, blacklists,
the rejections of `recheck_request`, the queue thread some methods use, and
operators' manual actions.  The switches that turn the whole command off
(`withdraw.py:76`) are taken to be on.  Requests older than three days are not
fetched by the code; time in the model does not reach that far.  `processing_timeout`
compares `tdelta.seconds`, which starts again every day: a request may be found
not ripe again, for three minutes; the model lets a ripe request stay ripe.

### Liquidator

One step per Celery task, because each is a transaction that locks the rows it
changes.  Two are split into a decision and a commit: the share and the cron
that deletes empty liquidations ask with a subquery whether a request has other
active liquidations, and neither sees what the other has not committed.
`overlapped` remembers the requests for which that happened.

| Model | Code |
|---|---|
| `CreateLiquidations` | `LiquidationCreator.execute` with `_split_amount_if_needed`, firing the order tasks |
| `CreateInternalOrder`, `CreateExternalOrder`, `OrderNotCreated`, `TaskFindsNothing` | `OrderCreator.process` and its two subclasses |
| `OrderMatched`, `BrokerWorks`, `SlaPasses` | the matcher, the broker (external) and time |
| `ProcessLiquidationOrders` | `InternalLiquidationProcessor` |
| `CheckExternal`, `UpdateStatus`, `SettlementNotFound`, `UpdateFails` | the task every five seconds and `ExternalLiquidationProcessor.update_status` |
| `ShareDecide`, `ShareCommit` | `update_in_progress_liquidation_request` |
| `SubmitTransactions`, `SubmitFails` | `submit_wallet_transactions_for_external_liquidations`, also as the retry |
| `DeleteDecide`, `DeleteCommit` | `DeleteEmptyLiquidation` |

Amounts are whole units, the price is one and every request is a sell; caps in
money are chosen anew in each round.  `LIQUIDATOR_EXTERNAL_CURRENCIES` is empty
at this commit, so the external half describes the code that runs when a
currency is put there.

### Convert

`create_trade` in two halves around the call of the market maker, the task that
asks again, the cron that fails what stays unknown, and the batches of small
assets of a system user, which use the same `create_trade`.  The market maker
converts a quote at most once (`client_order_id`); without an answer the request
may have been served, be under way (`inflight`) or be lost.

| Model | Code |
|---|---|
| `StartTrade`, `StartBatch` | `get_quote` and `_check_balances`; `_batch_convert_by_market_maker` |
| `MakerAnswers`, `ConversionFails`, `ConversionTimesOut`, `MakerConverts` | `call_conversion_api` and its exceptions |
| `GetUserWallet`, `CheckActive` | `create_and_commit_transaction`: the wallet is read without a lock, its active balance is checked |
| `Transfer`, `TransferFails` | `create_and_commit_wallet_transactions` in the request; `Transaction.commit` looks at the balance again (`CommitAllowed`) |
| `GiveUp`, `ConversionFound`, `ConversionNotFound`, `TaskTransfers`, `TaskTransferFails` | `get_missed_conversion_status_task` |
| `FailOldUnknownTrades`, `SmallAssetConvert`, `UpdateSmallAssets` | the crons and the small asset view |
| `LoseTask`, `LoseQuote`, `UseWallet` | faults, and the user's other orders |

Between the three steps of a payment `UseWallet` may block, release or spend.
The commit looks at the balance alone, so a conversion can be paid from funds
that an order or a withdraw has blocked since the check, and more may then be
blocked than there is; `TypeOK` says what remains, that the balance never
becomes negative.

Two histories name what the code really allows and the properties therefore
except: `shared`, quotes that two requests used at once (the task of the one
that timed out takes the other's conversion for its own), and `late`, trades
that succeeded after the cron had failed them (their small assets may have been
taken by the next batch).  Left out: market and user limits, market status
updates, and the collection of the market maker's trades for comparison.

### MC modules and proof modules

`MCOrderLifecycle`, `MCMatchRound`, `MCTradeProcessor`, `MCWithdraw`,
`MCLiquidator` and `MCConvert` give the constants their values.
`OrderLifecycleProofs`, `MatchRoundProofs`, `TradeProcessorProofs`,
`WithdrawProofs`, `LiquidatorProofs` and `ConvertProofs` extend the module they
are named after and hold its theorems.  `SetSums` has the one operator for the
code's sums over rows, and `SetSumTheorems` what the proofs need of it.

## 3. Runs

All passing runs explore their instance completely.  `match_funds` treats
orders of one side with the same owner and type as symmetric (price, amount and
creation time are state, not constants), and `order_lifecycle` the two workers'
requests; these runs check invariants and action properties only, for which
symmetry is sound.

| Run | Instance | States | What it shows |
|---|---|---|---|
| `order_lifecycle` | OCO pair of size 2, limit buy of 2, system market buy of 1, two single-order cancels | 0.8 M | `StatusAgreesWithMatched`, `OcoExclusive`, `MatchedEqualsTraded`, `TradeNeverDeadlocks`, `RoundReadsCurrent`, `ReopensOnlyByActivation` |
| `order_lifecycle_batch` | OCO pair and a buy, one request of any kind, fairness | 39 k | `StatusAgreesWithMatched`, `MatchedCoversTrades` with swallowed deadlocks; `RequestsEnd` |
| `match_funds` | two sells, a buy, amounts 1 and 2, one unit held per wallet | 0.8 M | `LedgerBalanced`, `NoOverdraft` |
| `match_market` | four orders of three users, a market buy, a bot on both sides, two prices, one trade per round | 1.9 M | `TradesHonourOrders`, `NoTradeThrough`, `AllMatchingsExecuted` |
| `trade_processor` | two trades of different destination currencies, an inactive wallet, a first trade that may be an orphan, one fault, fairness | 0.68 M | `CreditedOnce`, `RefsExist`, `CursorOvertakesNone`, `ImplementsSettlement`, `EventuallySettled` |
| `withdraw` | two requests of a wallet of 1 or 2, both in a batch or one internal and one sent alone, one cancel, one restart, fairness | 0.75 M | `PaidOnceIfCharged`, `StatusTellsPayment`, `UnpaidIsTracked`, `VerifiedOnlyFromNew`, `RequestsSettle` |
| `liquidator` | a request of two units, up to three liquidations, one queued update each, one fault, fairness | 0.21 M | `NeverDoubleSpent`, `FilledWasExecuted`, `BooksAgree`, `InProgressHasWork`, `RequestsAdvance` |
| `convert` | two calls and two quotes, or two batches and two small assets; two retries, one fault, fairness | 0.25 M | `TypeOK` (no negative balance), `SucceededIffMoved`, `BackedByConversion`, `ConvertedOnce`, `NothingStaysOpen` |

Bounds and why they are enough.  Orders: an OCO pair needs a counterparty, and
the market buy makes a third order that closes in one trade; size 2 gives
partial fills.  Two requests are needed to have a request wait for another
one while the matcher waits for the first.  Prices: two levels distinguish
better, equal and crossing; four orders are the least with two makers and two
takers.  `MaxHold` 1 per wallet of 2 lets a withdraw compete with an order for
part of the funds.  Trades: two currencies are needed for ids to commit out of
order; `BatchSize` 2 runs both workers.  `CronBatch` 3 is more than there are
trades, see the cron's loop below.  Withdraws: two requests compete for a
balance of 1 and fill a batch of 2; one cancel and one restart meet every step.
Liquidations: three are enough for a request that is split in two with one piece
done again.  `MaxQueued` 1 keeps the late update out of the passing run; with 2
it is `liquidator_late`.  Convert: two calls share a quote or use one each; a
second batch can take the records of a failed first one.

`overlapped`, `shared` and `late` are history variables that no action reads.

Deadlock is checked for `OrderLifecycle`.  The others may stop: all orders
closed and nothing to hold, all trades settled with the cron at rest, all
requests settled, all liquidations used up by their bound, all trades over.

### Disagreements with the code's own statements

| Run | Statement | What TLC finds |
|---|---|---|
| `partial_trade` | `matcher/matcher.py:686` "prevent partial trade creation" | after a deadlock inside the savepoint the order objects keep the amount of the undone trade, and the round saves them |
| `held_funds` | `wallet/models.py:440` "Balance that is held and cannot be used" | a trade uses funds held for a withdraw when another withdraw is paid out between validation and matching |
| `withdraw_cancel` | `wallet/models.py:1491` "Cancel a request because of user request if it is not processed yet." | a cancel that checked before the charge and writes after it closes a request that was paid for; it is neither sent nor refunded |
| `liquidator_late` | `liquidator/services/liquidation_request_processor.py:61` "Updates the status of ready_to_share liquidations" | a second update task sets a shared liquidation back to ready; the unique references then roll back this and every later share |

Three more were met and have no run of their own.  The stop activation locks the
stop order first, so that it can deadlock with a cancel that starts from the
limit order, which `market/views.py:814` prefers "to prevent deadlock with
matcher"; PostgreSQL aborts one of them and it is repeated.
`TradeNeverDeadlocks` is the part of that statement that holds: the trade commit
never deadlocks with single-order cancels.  `process_trade` ("should be
idempotent", `matcher/tradeprocessor.py:60`) stops at the first deposit in every
call after a failure between the two; only the cron makes the second.  And the
cron's loop takes the same slice until it is empty, so that a full batch of
trades with an inactive wallet keeps it for ever (`market/functions.py:66`).
Likewise L3 of `match_all_orders_v3` ("any new matching must have one important
order") fails for orders that commit late; `AllMatchingsExecuted` holds because
of the closing scan, and its mutant without that scan is refuted.  Even with it
L1 ("all possible matchings are executed") has two exceptions, which the property
names: the closing scan ends where it meets two bots, and it ends at the first
sell that does not cross a buy, so that an earlier buy never gets past the sell
it has just failed to match.  Both need orders that commit late, for only those
are left to the closing scan; the next round takes the pairs up again.

Every property of a passing run has a mutant in `PROJECT.json`: a definition
with a plausible slip, under which TLC refutes the property in the same run.

### Fairness

`OrderLifecycle!Fairness`: the matcher loop and the request workers keep taking
steps (weak); each row of an UPDATE is eventually obtained if it is released
again and again (strong), because PostgreSQL queues the waiters of a row and
the matcher itself uses SKIP LOCKED; a deadlocked request is aborted.  No
fairness is assumed of failures, new requests or user actions.

`TradeProcessor!FairSpec`: daemon and cron keep running and trades become half
an hour old.  Twelve hours may pass at any time (`TurnOld`, without fairness),
after which neither process looks at the trade; `EventuallySettled` accepts
that.  What it excludes is a trade that stays unsettled within the cron's
window, where it is seen by some 70 runs.

`Withdraw!FairSpec`: the command loops (weak fairness of all its steps
together), its module stays switched on, timeouts pass, and a confirm view that
holds a row lock ends.  Nothing makes a round take a request it may pass over,
hence the exception of `RequestsSettle`; a request that is passed over now and
then is settled.  No
fairness of the choice between outcomes: a user who is never eligible stays
`waiting`, which `RequestsSettle` counts as held back for an operator.

`Liquidator!FairSpec`: Celery beat and the cron repeat their tasks, workers take
what is queued, the SLA passes.  Nothing is assumed of the own market or the
broker: open orders are canceled or given up by age.

`Convert!FairSpec`: only the crons.  `NothingStaysOpen` does not need the task.

## 4. Proofs

`OrderLifecycleProofs` proves, for all orders, OCO pairs, amounts and requests,
from the named assumptions of `OrderLifecycle`:

* `TypeCorrect`: `Spec => []TypeOK`;
* `RoundIsolated`: `Spec => []RoundReadsCurrent`;
* `StatusCorrect`: `Spec => []StatusAgreesWithMatched`;
* `ReopenCorrect`: `Spec => ReopensOnlyByActivation`;
* `NoTradeLost`: `Spec => []MatchedCoversTrades`;
* and, if `BatchRequests = {}`, `TradeProgress`, `MatchedExact` and `OcoCorrect`:
  `TradeNeverDeadlocks`, `MatchedEqualsTraded` and `OcoExclusive`.

Without that condition the last three are false: a batch cancel visits rows in
any order and can deadlock with the pair cancel inside a trade, which is
`partial_trade`.  The views and the task that cancel one order or pair remain,
in any number.  The invariants build on each other.  `LockInv`: whoever has an
uncommitted write holds the lock, so a row in the book of a round is written
by nobody else.  `StatusInv` adds that the round's objects agree with their
rows as far as a status allows, and that what is about to be activated was read
with its lock.  `CoverInv` counts, for every step inside a savepoint, what the
object has already been increased by; a failed trade can only leave too much in
it.  `PairInv` and `ReqInv` say which rows a request can hold while it waits
for which: the view starts with the limit order, so the holder of a stop order
that a trade waits for waits for nobody (`HolderRuns`).  Then no trade fails,
the counts are exact (`ExactInv`), and a matched order has closed its pair or is
about to (`OcoInv`).

`MatchRoundProofs` proves, for all orders, owners, prices, amounts, funds, bots,
limits of trades and withdraws, from `MatchRoundAssumption`:

* `TypeCorrect`: `Spec => []TypeOK`;
* `NeverOverdrawn`: `Spec => []NoOverdraft`;
* `LedgerCorrect`: `Spec => []LedgerBalanced`;
* `HonourCorrect`: `Spec => []TradesHonourOrders`;
* `PriorityCorrect`: `Spec => []NoTradeThrough`;
* `MatchingsCorrect`: `Spec => []AllMatchingsExecuted`.

The effect of every kind of step is stated once (`UserEffect`, `RoundEffect`,
`Deal`), and the invariants use only these.  `BaseInv`: users never touch a row
that a round may have fetched (`Snapshot`); the lists hold the active orders in
order (`BookInv`); an active market order is being scanned or is still in the
queue, behind an older order that is (`QueueInv`).  `LedgerInv` ties the
uncommitted debits and matched amounts to the uncommitted trades, so that
COMMIT and rollback both balance; `FairInv` states prices on the committed rows.
`Examined` says of every pair the scan has passed why: too new, closed, both
market orders, or tried.  Priority then follows where a trade is made: in the
scan of a new order that order is the taker (`LastIsTaker`, by `QueueInv` and
because ages differ), and in the closing scan there are no market orders left;
an order ahead of the maker stands before it in the list and its pair with the
taker has been examined.  L1 follows where the closing scan returns
(`ClosingScan`): behind a sell and a buy that do not cross, nothing crosses but
an earlier buy with a later sell.

`TradeProcessorProofs` proves, for all trades, destination currencies, inactive
wallets, batch sizes and numbers of faults, from `TradesAssumption` and
`BoundsAssumption` only:

* `TypeCorrect`: `Spec => []TypeOK`;
* `DepositsCreditedOnce`: `Spec => []CreditedOnce`;
* `ReferencesExist`: `Spec => []RefsExist`;
* `CursorSafe`: `Spec => []CursorOvertakesNone`;
* `SettlementRefined`: `Spec => ImplementsSettlement`.

`CreditedOnce` and `RefsExist` are proved together in `LedgerInv`, which adds
`Settling`: only committed trades have transactions or are worked on, and a
committed trade has both withdraws.  Without it a daemon could take up a trade
that is not there and the reference to a withdraw could dangle.
`DepositKeepsLedger` isolates the one step that matters, whoever takes it.

`CursorOvertakesNone` is not inductive: a safe cursor could be overtaken by a
later commit below it.  `Safe(n)` adds that every destination currency has a
committed trade at or after `n`; by the premise on commits nothing at or below
`n` can still appear.  `RoundSafe` carries this through a round (the batch is
a prefix of what could be fetched, `FirstIsPrefix`; the last id of a currency
is the start or a trade of the batch), so the minimum over the currencies is
safe again.

`SettlementRefined` maps every step to a step of `Settlement` or a stutter.  The
hard steps are the two that write rows back (`BulkUpdateTrades`, `CronSave`):
the objects were read before the other process may have stored its references,
so that a write could lose a record.  `KeepInv` rules it out: a process that has
passed a deposit of a trade has it in its object or its wallet is inactive
(`Complete`), and a deposit to an inactive wallet is never made
(`InactiveUnpaid`), so an object that is written back lacks nothing that the
row can refer to.
`CompleteCovers` and `WriteBackRecords` turn this into the `Record` step; the
steps that deposit are `Credit` by `LedgerInv`.

`WithdrawProofs` proves, for all requests, kinds of methods, balances, batch
sizes, cancels and restarts, from `RequestsAssumption` and `WithdrawBounds`:

* `TypeCorrect`: `Spec => []TypeOK`;
* `VerifyIsSafe`: `Spec => VerifiedOnlyFromNew`;
* `PaidAtMostOnce`: `Spec => []PaidOnceIfCharged`;
* `RowsTellPayment`: `Spec => []StatusTellsPayment`;
* `ChargesAreTracked`: `Spec => []UnpaidIsTracked`.

`CancelResult`, `SendResult`, `SaveResult` and `LinkResult` say once what a
`save()` can make of a status it has read, however old; the proofs use nothing
else of `check_status_transition`.  `Seen` separates the actors: a confirm view
holds the lock of a new row, while a round, its batch and its sending hold only
requests that were confirmed, so that neither overwrites what the other relies
on.  Payments rest on `Marks` (what may be retried is marked so, and what waits
to be sent is marked `sending`), `Kinds` (an internal request is never sent) and
the three parts about money: `Ledger` (one charge, and no payment beyond it),
`NotYetSent` (nothing that may be taken up again, waits in the batch or is about
to be sent has been sent), `NotYetCredited` (the same for internal targets).  A
lost answer of the hot wallet keeps these because the mark is never taken back.
`StatusTellsPayment` is not inductive, since a `save()` writes again what it has
read: `Told` says the same of the statuses that running `save()` calls hold, and
that what is rejected is marked failed or about to be, after which nothing more
happens to it (`SettledStep`).  If the command is killed between the two
statements, the request is `Closed` without the mark and stays so
(`ClosedStep`), because no round fetches it.  `Track` follows a charge through the steps of a round.

`LiquidatorProofs` proves, for all requests, amounts, splits, queued tasks and
faults, from `LiquidatorBounds`, `WorkCorrect`: `Spec => []InProgressHasWork`;
and, if `MaxQueued <= 1`,

* `NoDoubleSpend`: `Spec => []NeverDoubleSpent`;
* `FilledCorrect`: `Spec => []FilledWasExecuted`;
* `BooksCorrect`: `Spec => []BooksAgree`;
* `TypeCorrect`: `Spec => []TypeOK`.

The condition says that the updates of one liquidation do not overtake each
other.  With two in the queue the second can bring back a liquidation that was
shared, which is `liquidator_late`.  `WorkInv` needs no condition: it says that
what the running share and delete tasks have counted beside their own
liquidations is still there, or the two overlap.  `SpendInv` follows the amounts:
a filled amount is final once a liquidation is ready and is booked when it is
done, and a request is made pending only when it has no active liquidation, so
that a new split starts from what is really left.

`SetSumTheorems` proves what sums over finite sets need: insertion, removal,
union, comparison and parts.  The library's induction theorems take an operator
that the installed provers cannot instantiate, so induction is over a set of sets
(`SubsetInduction`, from the well-foundedness of strict inclusion).

`ConvertProofs` proves, for all quotes, calls, batches, small assets and
retries, from `ConvertAssumption`:

* `TypeCorrect`: `Spec => []TypeOK`;
* `SuccessMeansMoved`: `Spec => []SucceededIffMoved`;
* `MoneyIsBacked`: `Spec => []BackedByConversion`;
* `AssetsConvertedOnce`: `Spec => []ConvertedOnce`.

The first needs that a trade has a quote once it has begun and that a task that
transfers has a retry left (`Typed`); that the balance stays non-negative is due
to the commit alone, for all that another order may do after the check
(`PaymentTyped`).  `Fresh` adds for the second that there is
neither row nor task before `create_trade` is over and that a task is about a
trade that has moved nothing, so the request and its task cannot both pay.
`QuoteInv` is for the third: who is about to transfer has been told of the
conversion, a quote is invalidated before its trade leaves the request, and two
trades are active with one quote only if two requests met on it.  `AssetInv`
carries the fourth: one batch at a time has records locked, a record
refers to the batch that took it last, and all batches before that were given
up.

Only model-checked: liveness (`RequestsEnd`, `EventuallySettled`,
`RequestsSettle`, `RequestsAdvance`, `NothingStaysOpen`), which needs fairness
and `ENABLED` and is beyond the prover.  `HeldFundsKept`, `ClosedNotCharged` and
`ReadyIsShared` do not hold, and neither do `MatchedEqualsTraded` with a batch
cancel and `NeverDoubleSpent` with a second queued update (section 3).

## 5. Not modelled, and the plan

Next, in this order:

1. Proofs: what the liquidator keeps when several updates of a liquidation are
   queued; which matched amounts stay exact beside a batch cancel.
2. `MarketDivider`: `custom_partition_markets` and the two-process schedule of
   `ConcurrentMatcher`; that concurrent partitions share no source currency and
   no destination currency, which is the premise of `TradeProcessor`.
3. The price range and its expansion in `MatchRound`; margin positions and the
   pool, which hand requests to the liquidator; splitting and rial settlement
   of withdraws.

Out of reach or of no interest here: blockchain and banking providers (not in
the repository), derived data (charts, reports, metrics), request validation
and record keeping, vendored projects.
