--------------------------- MODULE TradeProcessor ---------------------------
(***************************************************************************)
(* Crediting the two sides of a trade outside of the matcher's             *)
(* transaction.  The matcher commits an OrderMatching row with its two     *)
(* withdraw transactions and leaves their ids in the cache; the daemon     *)
(* process_trades makes the two deposits and stores the four references in *)
(* the row; the cron FixAddAsyncTradeTransactionCron repairs what the      *)
(* daemon missed.  Daemon and cron run concurrently on the same rows and   *)
(* neither holds a database transaction across its steps.                  *)
(*                                                                         *)
(* Amounts and fees are abstracted to the number of times a deposit has    *)
(* changed a balance.  Whether a deposit's wallet is active is a constant: *)
(* no code of the repository changes it.  Left out: the activation switch  *)
(* of the daemon and the synchronous mode used by tests.                   *)
(***************************************************************************)
EXTENDS Naturals, FiniteSets

CONSTANTS Trades,     \* ids of OrderMatching rows, given out in order
          Dst,        \* Dst[t]: destination currency of the trade's market
          Inactive,   \* <<t, f>>: the wallet of deposit f of t is inactive
          Orphans,    \* trades with a margin order that may have no PositionOrder
          BatchSize,  \* batch_size of TradeProcessor
          CronBatch,  \* batch_size of create_missing_transaction
          MaxFaults   \* bound on crashes, errors and cache losses

DstCurrencies == {"rls", "usdt"}
Withdraws == {"sell_withdraw", "buy_withdraw"}
Deposits == {"sell_deposit", "buy_deposit"}
Fields == Withdraws \cup Deposits

ASSUME TradesAssumption ==
  /\ Trades \subseteq Nat \ {0} /\ IsFiniteSet(Trades)
  /\ Dst \in [Trades -> DstCurrencies]
  /\ Inactive \subseteq Trades \X Deposits
  /\ Orphans \subseteq Trades

ASSUME BoundsAssumption ==
  /\ BatchSize \in Nat \ {0} /\ CronBatch \in Nat \ {0}
  /\ MaxFaults \in Nat

VARIABLES
  committed, \* trades whose matching round has committed
  age,       \* below 30 minutes, below 12 hours, or more
  txs,       \* txs[t]: the transactions of t that exist, by ref_module
  credit,    \* credit[t][f]: how often deposit f was added to its wallet
  refs,      \* refs[t]: the transaction references stored in the row
  cached,    \* trades whose trade_{id}_txids is in the cache
  cursor,    \* tradeprocessor_last_trade_id, 0 if not in the cache
  pc, start, batch, ids, prog, obj, left, lastIds, \* a round of the daemon
  cpc, window, cbatch, cprog, cobj,                \* a run of the cron
  seen,      \* trades that a round or a run has fetched so far
  faults     \* faults so far

ledger == <<txs, credit>>
store == <<cached, cursor>>
round == <<pc, start, batch, ids, prog, obj, left, lastIds>>
cron == <<cpc, window, cbatch, cprog, cobj>>
vars == <<committed, age, ledger, refs, store, round, cron, seen, faults>>

NoProgress == [t \in Trades |-> "none"]
NoObjects == [t \in Trades |-> {}]

-----------------------------------------------------------------------------
(* The matcher, time and the cache *)

\* A matching round commits.  Ids come from one sequence; at any time at most
\* one market of each destination currency is being matched, so the trades of
\* one destination currency commit in the order of their ids.
CommitTrade(t) ==
  /\ t \notin committed
  /\ \A u \in committed : Dst[u] = Dst[t] => u < t
  /\ committed' = committed \cup {t}
  /\ txs' = [txs EXCEPT ![t] = Withdraws]
  /\ cached' = cached \cup {t}
  /\ UNCHANGED <<age, credit, refs, cursor, round, cron, seen, faults>>

TurnHalfHour(t) ==
  /\ t \in committed /\ age[t] = "fresh"
  /\ age' = [age EXCEPT ![t] = "day"]
  /\ UNCHANGED <<committed, ledger, refs, store, round, cron, seen, faults>>

\* After 12 hours neither the daemon nor the cron looks at a trade any more.
TurnOld(t) ==
  /\ age[t] = "day"
  /\ age' = [age EXCEPT ![t] = "old"]
  /\ UNCHANGED <<committed, ledger, refs, store, round, cron, seen, faults>>

\* The cached ids expire after 1800 seconds.
ExpireTxIds(t) ==
  /\ t \in cached /\ age[t] # "fresh"
  /\ cached' = cached \ {t}
  /\ UNCHANGED <<committed, age, ledger, refs, cursor, round, cron, seen, faults>>

Fault == faults < MaxFaults /\ faults' = faults + 1

LoseCache ==
  /\ Fault
  /\ cached' = {} /\ cursor' = 0
  /\ UNCHANGED <<committed, age, ledger, refs, round, cron, seen>>

-----------------------------------------------------------------------------
(* One deposit: create_sell_deposit_transaction, create_buy_deposit_...    *)

\* Mutant of Exists: no unique constraint on (ref_module, ref_id)
NeverExists(t, f) == FALSE

Exists(t, f) == f \in txs[t]

\* An inactive wallet yields None; a second transaction with the same
\* reference violates the unique constraint; otherwise balance and row change
\* in one transaction.
Outcome(t, f) == IF <<t, f>> \in Inactive THEN "none"
                 ELSE IF Exists(t, f) THEN "duplicate" ELSE "made"

Deposit(t, f) ==
  IF Outcome(t, f) = "made"
  THEN /\ txs' = [txs EXCEPT ![t] = @ \cup {f}]
       /\ credit' = [credit EXCEPT ![t][f] = @ + 1]
  ELSE UNCHANGED <<txs, credit>>

\* Mutant of Referenced: None is not told from a transaction
ReferencedAlways(O, t, f) == O[t] \cup {f}

\* The reference the caller stores in its object afterwards
Referenced(O, t, f) == IF Outcome(t, f) = "made" THEN O[t] \cup {f} ELSE O[t] \ {f}

\* Mutant of After: the wrong side's transaction follows
AfterWithdraw(f) == IF f = "sell_deposit" THEN "buy_withdraw" ELSE "ok"

After(f) == IF f = "sell_deposit" THEN "buy_deposit" ELSE "ok"

-----------------------------------------------------------------------------
(* The daemon: TradeProcessor.do_round and bulk_update_trades *)

\* fetch_trades, without the limit
Fetched == {t \in committed : /\ t > cursor /\ age[t] # "old"
                              /\ ~ (Deposits \subseteq refs[t])}

\* the first n of S in the order of ids
First(S, n) == {t \in S : Cardinality({u \in S : u < t}) < n}

\* get_deposit_wallets raises KeyError for a margin order without PositionOrder
\* (fix_position can detach one at any time), so that only the trades before it
\* are given to the workers.
StartRound ==
  LET found == First(Fetched, BatchSize)
  IN /\ pc = "idle" /\ found # {}
     /\ start' = cursor
     /\ batch' = found
     /\ ids' = found \cap cached
     /\ \E detached \in SUBSET (Orphans \cap found) :
          prog' = [t \in Trades |->
                     IF t \in found /\ \A u \in detached : t < u
                     THEN "wait" ELSE "none"]
     /\ obj' = refs
     /\ left' = found
     /\ lastIds' = [c \in DstCurrencies |-> cursor]
     /\ pc' = "run"
     /\ seen' = seen \cup found
     /\ UNCHANGED <<committed, age, ledger, refs, store, cron, faults>>

\* Some trade of the batch was not given to the workers.
Raised == \E t \in batch : prog[t] = "none"

\* One of the two worker threads takes the next trade; process_trade goes on
\* only with the ids of its two withdraws.
StartTrade(t) ==
  /\ pc = "run" /\ prog[t] = "wait"
  /\ \A u \in Trades : prog[u] = "wait" => t <= u
  /\ Cardinality({u \in Trades : prog[u] \in Deposits}) < 2
  /\ prog' = [prog EXCEPT ![t] = IF t \in ids THEN "sell_deposit" ELSE "failed"]
  /\ obj' = IF t \in ids THEN [obj EXCEPT ![t] = @ \cup Withdraws] ELSE obj
  /\ UNCHANGED <<committed, age, ledger, refs, store, pc, start, batch, ids, left,
                 lastIds, cron, seen, faults>>

\* The next deposit of fill_trade_transactions; process_trade swallows the
\* exception of a duplicate.
MakeDeposit(t) ==
  /\ pc = "run" /\ prog[t] \in Deposits
  /\ Deposit(t, prog[t])
  /\ IF Outcome(t, prog[t]) = "duplicate"
     THEN prog' = [prog EXCEPT ![t] = "duplicate"] /\ UNCHANGED obj
     ELSE /\ prog' = [prog EXCEPT ![t] = After(@)]
          /\ obj' = [obj EXCEPT ![t] = Referenced(obj, t, prog[t])]
  /\ UNCHANGED <<committed, age, refs, store, pc, start, batch, ids, left, lastIds,
                 cron, seen, faults>>

\* Any other database error in the same place.
DepositError(t) ==
  /\ Fault
  /\ pc = "run" /\ prog[t] \in Deposits
  /\ prog' = [prog EXCEPT ![t] = "failed"]
  /\ UNCHANGED <<committed, age, ledger, refs, store, pc, start, batch, ids, obj,
                 left, lastIds, cron, seen>>

\* The main thread waits for the futures in order.
Collect(t) ==
  /\ pc = "run" /\ t \in left /\ ~ Raised
  /\ \A u \in left : t <= u
  /\ prog[t] \in {"ok", "failed", "duplicate"}
  /\ left' = left \ {t}
  /\ lastIds' = [lastIds EXCEPT ![Dst[t]] = IF t > @ THEN t ELSE @]
  /\ UNCHANGED <<committed, age, ledger, refs, store, pc, start, batch, ids, prog,
                 obj, cron, seen, faults>>

\* Mutant of NewCursor: the largest id of the batch
MaxCursor == IF lastIds["rls"] < lastIds["usdt"] THEN lastIds["usdt"] ELSE lastIds["rls"]

NewCursor == IF lastIds["rls"] < lastIds["usdt"] THEN lastIds["rls"] ELSE lastIds["usdt"]

SetCursor ==
  /\ pc = "run" /\ left = {}
  /\ cursor' = NewCursor
  /\ pc' = "save"
  /\ UNCHANGED <<committed, age, ledger, refs, cached, start, batch, ids, prog, obj,
                 left, lastIds, cron, seen, faults>>

EndRound ==
  /\ pc' = "idle" /\ start' = 0 /\ batch' = {} /\ ids' = {}
  /\ prog' = NoProgress /\ obj' = NoObjects
  /\ left' = {} /\ lastIds' = [c \in DstCurrencies |-> 0]

\* Mutant of Saved: every trade of the batch is written back
SavedAll(t) == t \in batch

\* self.trades holds the trades that were filled without an exception.
Saved(t) == prog[t] = "ok"

BulkUpdateTrades ==
  /\ pc = "save"
  /\ refs' = [t \in Trades |-> IF Saved(t) THEN obj[t] ELSE refs[t]]
  /\ EndRound
  /\ UNCHANGED <<committed, age, ledger, store, cron, seen, faults>>

\* The daemon is killed, or an exception leaves do_round: a new TradeProcessor
\* starts with an empty list.
RoundFails ==
  /\ Fault
  /\ pc # "idle"
  /\ EndRound
  /\ UNCHANGED <<committed, age, ledger, refs, store, cron, seen>>

\* The KeyError leaves do_round once the workers are done: neither
\* the cursor nor any row is written, and the next round finds the same trades.
RoundRaises ==
  /\ pc = "run" /\ Raised
  /\ \A t \in Trades : prog[t] \notin Deposits \cup {"wait"}
  /\ EndRound
  /\ UNCHANGED <<committed, age, ledger, refs, store, cron, seen, faults>>

-----------------------------------------------------------------------------
(* The cron: create_missing_transaction *)

CronRest ==
  /\ cpc' = "idle" /\ window' = {} /\ cbatch' = {}
  /\ cprog' = NoProgress /\ cobj' = NoObjects

\* The run fixes its time window; its query is evaluated again per batch.
CronStart ==
  /\ cpc = "idle"
  /\ window' = {t \in committed : age[t] = "day"}
  /\ cpc' = "select"
  /\ UNCHANGED <<committed, age, ledger, refs, store, round, cbatch, cprog, cobj,
                 seen, faults>>

\* batcher takes the same slice again after each batch, and stops after one
\* that is empty or not full.
CronSelect(b) ==
  LET missing == {t \in window : refs[t] # Fields}
  IN /\ cpc = "select"
     /\ b \subseteq missing
     /\ Cardinality(b) = IF Cardinality(missing) < CronBatch
                         THEN Cardinality(missing) ELSE CronBatch
     /\ IF b = {}
        THEN CronRest /\ UNCHANGED seen
        ELSE /\ cbatch' = b
             /\ cobj' = [t \in Trades |-> IF t \in b THEN refs[t] ELSE {}]
             /\ cprog' = NoProgress
             /\ cpc' = "lookup"
             /\ seen' = seen \cup b
             /\ UNCHANGED window
     /\ UNCHANGED <<committed, age, ledger, refs, store, round, faults>>

\* Mutant of CronLookup: existing deposits are not looked up
CronLookupWithdraws ==
  /\ cpc = "lookup"
  /\ cobj' = [t \in Trades |-> IF t \in cbatch THEN cobj[t] \cup Withdraws ELSE {}]
  /\ cprog' = [t \in Trades |-> IF t \in cbatch THEN "sell_deposit" ELSE "none"]
  /\ cpc' = "create"
  /\ UNCHANGED <<committed, age, ledger, refs, store, round, window, cbatch, seen,
                 faults>>

\* The existing transactions of the batch are looked up by their references.
CronLookup ==
  /\ cpc = "lookup"
  /\ cobj' = [t \in Trades |-> IF t \in cbatch THEN cobj[t] \cup txs[t] ELSE {}]
  /\ cprog' = [t \in Trades |-> IF t \in cbatch THEN "sell_deposit" ELSE "none"]
  /\ cpc' = "create"
  /\ UNCHANGED <<committed, age, ledger, refs, store, round, window, cbatch, seen,
                 faults>>

\* One missing deposit; trades are handled one after the other, and a duplicate
\* ends the run.
CronDeposit(t) ==
  LET f == cprog[t]
  IN /\ cpc = "create" /\ f \in Deposits
     /\ \A u \in Trades \ {t} : cprog[u] # "buy_deposit"
     /\ IF f \in cobj[t]
        THEN /\ cprog' = [cprog EXCEPT ![t] = After(f)]
             /\ UNCHANGED <<ledger, cpc, window, cbatch, cobj>>
        ELSE /\ Deposit(t, f)
             /\ IF Outcome(t, f) = "duplicate"
                THEN CronRest
                ELSE /\ cprog' = [cprog EXCEPT ![t] = After(f)]
                     /\ cobj' = [cobj EXCEPT ![t] = Referenced(cobj, t, f)]
                     /\ UNCHANGED <<cpc, window, cbatch>>
     /\ UNCHANGED <<committed, age, refs, store, round, seen, faults>>

CronSave ==
  /\ cpc = "create"
  /\ \A t \in cbatch : cprog[t] = "ok"
  /\ refs' = [t \in Trades |-> IF t \in cbatch THEN cobj[t] ELSE refs[t]]
  /\ IF Cardinality(cbatch) < CronBatch
     THEN CronRest
     ELSE /\ cpc' = "select"
          /\ cbatch' = {} /\ cprog' = NoProgress /\ cobj' = NoObjects
          /\ UNCHANGED window
  /\ UNCHANGED <<committed, age, ledger, store, round, seen, faults>>

CronFails ==
  /\ Fault
  /\ cpc # "idle"
  /\ CronRest
  /\ UNCHANGED <<committed, age, ledger, refs, store, round, seen>>

-----------------------------------------------------------------------------
Init ==
  /\ committed = {} /\ age = [t \in Trades |-> "fresh"]
  /\ txs = NoObjects /\ refs = NoObjects
  /\ credit = [t \in Trades |-> [f \in Deposits |-> 0]]
  /\ cached = {} /\ cursor = 0
  /\ pc = "idle" /\ start = 0 /\ batch = {} /\ ids = {}
  /\ prog = NoProgress /\ obj = NoObjects /\ left = {}
  /\ lastIds = [c \in DstCurrencies |-> 0]
  /\ cpc = "idle" /\ window = {} /\ cbatch = {}
  /\ cprog = NoProgress /\ cobj = NoObjects
  /\ seen = {} /\ faults = 0

DaemonStep ==
  \/ StartRound \/ SetCursor \/ BulkUpdateTrades \/ RoundRaises
  \/ \E t \in Trades : StartTrade(t) \/ MakeDeposit(t) \/ Collect(t)

CronStep ==
  \/ CronStart \/ CronLookup \/ CronSave
  \/ \E b \in SUBSET Trades : CronSelect(b)
  \/ \E t \in Trades : CronDeposit(t)

Step ==
  \/ DaemonStep \/ RoundFails
  \/ CronStep \/ CronFails
  \/ LoseCache
  \/ \E t \in Trades : \/ CommitTrade(t) \/ TurnHalfHour(t)
                       \/ ExpireTxIds(t) \/ DepositError(t)

Next == Step \/ \E t \in Trades : TurnOld(t)

Spec == Init /\ [][Next]_vars

\* The daemon loops without end and the cron is started every 10 minutes, about
\* 70 times while a trade is between 30 minutes and 12 hours old.
FairSpec ==
  /\ Spec
  /\ WF_vars(DaemonStep) /\ WF_vars(CronStep)
  /\ \A t \in Trades : WF_vars(TurnHalfHour(t))

-----------------------------------------------------------------------------
(* Properties *)

Progress == Deposits \cup {"none", "wait", "ok", "failed", "duplicate"}

\* Types of the rows, the cache and the objects of the daemon and the cron.
TypeOK ==
  /\ committed \subseteq Trades
  /\ age \in [Trades -> {"fresh", "day", "old"}]
  /\ txs \in [Trades -> SUBSET Fields]
  /\ credit \in [Trades -> [Deposits -> Nat]]
  /\ refs \in [Trades -> SUBSET Fields]
  /\ cached \subseteq Trades
  /\ cursor \in Nat
  /\ pc \in {"idle", "run", "save"}
  /\ start \in Nat
  /\ batch \subseteq Trades /\ ids \subseteq Trades
  /\ prog \in [Trades -> Progress]
  /\ obj \in [Trades -> SUBSET Fields]
  /\ left \subseteq Trades
  /\ lastIds \in [DstCurrencies -> Nat]
  /\ cpc \in {"idle", "select", "lookup", "create"}
  /\ window \subseteq Trades /\ cbatch \subseteq Trades
  /\ cprog \in [Trades -> Progress]
  /\ cobj \in [Trades -> SUBSET Fields]
  /\ seen \subseteq Trades
  /\ faults \in 0..MaxFaults

\* A deposit changes its wallet exactly once if its transaction exists and
\* never otherwise, and only for committed trades, however the daemon, its
\* retries after lost cursors and the cron race for the same trade.
CreditedOnce ==
  \A t \in Trades, f \in Deposits :
    /\ credit[t][f] = IF f \in txs[t] THEN 1 ELSE 0
    /\ f \in txs[t] => t \in committed

\* References stored in a row, or in an object about to be stored, point to
\* transactions that exist (the foreign keys of OrderMatching).
RefsExist ==
  \A t \in Trades : refs[t] \cup obj[t] \cup cobj[t] \subseteq txs[t]

\* Daemon, cron, cache and cursor together implement Settlement: a deposit is
\* credited at most once and only for a committed trade, and no write back of a
\* stale object (bulk_update_trades, create_missing_transaction) removes a
\* reference that the other process has stored or adds one that was not credited.
Abstract == INSTANCE Settlement WITH
              Parties <- Deposits,
              recorded <- [t \in Trades |-> refs[t] \cap Deposits]

ImplementsSettlement == Abstract!SettleSpec

\* The cursor never overtakes a trade: every committed trade at or below it has
\* been fetched at least once or is too old, though trades of different
\* markets commit out of the order of their ids.
CursorOvertakesNone ==
  \A t \in committed : t <= cursor => t \in seen \/ age[t] = "old"

\* Every trade whose wallets are active gets both deposits and all references,
\* unless 12 hours pass first, after which neither process looks at it, also when
\* an orphan holds up the daemon in every round.
EventuallySettled ==
  \A t \in Trades :
    (\A f \in Deposits : <<t, f>> \notin Inactive)
      => (t \in committed ~> refs[t] = Fields \/ age[t] = "old")
=============================================================================
