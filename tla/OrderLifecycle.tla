--------------------------- MODULE OrderLifecycle ---------------------------
(***************************************************************************)
(* The rows of table market_order in one market, and the processes that    *)
(* write them: API requests that create and cancel orders, the admin       *)
(* cancel task, and the matcher with its post-processing step.             *)
(*                                                                         *)
(* What is modelled exactly is who may write which row when: PostgreSQL    *)
(* transactions at READ COMMITTED with row locks, the matcher's in-memory  *)
(* Order objects, the savepoint around each trade, and the OCO pairs.      *)
(* Prices, balances and the order in which the matcher visits candidates   *)
(* are abstracted: any sell and any buy in the round may match, in any     *)
(* amount up to what is unmatched (module MatchRound has prices, funds and *)
(* priorities).  Status "new" is omitted: create_order never stores it.    *)
(***************************************************************************)
EXTENDS Naturals, FiniteSets

CONSTANTS Orders,      \* ids of the orders that may be created
          Side,        \* Side[o] \in {"sell", "buy"}
          Exec,        \* Exec[o]: execution type
          Amount,      \* Amount[o]: order size in units of the precision
          Pair,        \* Pair[o]: the other order of an OCO pair, or None
          System,      \* orders placed through a system channel
          Requests,    \* concurrent cancel requests
          BatchRequests, \* those that may use the batch cancel endpoints
          Matcher,     \* the matcher process of the market
          None

Execs == {"limit", "market", "stop_limit", "stop_market"}
MarketExecs == {"market", "stop_market"}
StopExecs == {"stop_limit", "stop_market"}

ASSUME OrdersAssumption ==
  /\ Side \in [Orders -> {"sell", "buy"}]
  /\ Exec \in [Orders -> Execs]
  /\ Amount \in [Orders -> Nat \ {0}]
  /\ System \subseteq Orders
  /\ None \notin Orders

\* create_order pairs a limit order with a stop order of the same amount
ASSUME PairAssumption ==
  /\ Pair \in [Orders -> Orders \cup {None}]
  /\ \A o \in Orders : Pair[o] # None =>
       /\ Pair[Pair[o]] = o
       /\ Side[Pair[o]] = Side[o]
       /\ Amount[Pair[o]] = Amount[o]
       /\ (Exec[o] = "limit" /\ Exec[Pair[o]] \in StopExecs)
          \/ (Exec[o] \in StopExecs /\ Exec[Pair[o]] = "limit")

ASSUME ProcsAssumption ==
  /\ Matcher \notin Requests
  /\ None \notin Requests \cup {Matcher}
  /\ BatchRequests \subseteq Requests

Procs == Requests \cup {Matcher}

Open == {"active", "inactive"}
Closed == {"done", "canceled"}
Statuses == Open \cup Closed
RowStatuses == Statuses \cup {"absent"}

ASSUME NoneAssumption == None \notin RowStatuses

VARIABLES
  row,      \* committed rows: status and matched_amount
  trades,   \* committed OrderMatching rows, as <<sell, buy>>
  traded,   \* traded[o]: total amount of o's committed OrderMatching rows
  lock,     \* lock[o]: the transaction holding o's row lock, or None
  written,  \* written[p][o]: status p wrote in its open transaction, or None
  stmt,     \* stmt[p]: the rows p's running UPDATE has yet to visit
  mpc,      \* control point of the matcher
  book,     \* orders fetched by get_market_orders in this round
  mem,      \* the Order objects of the round
  pairObj,  \* status of the cached object order.pair, None if not loaded
  pending,  \* pending_orders_for_update
  cancels,  \* pending_canceled_orders
  cur,      \* the trade being committed
  newTrades,\* OrderMatching rows inserted by the open matcher transaction
  newTraded,\* their total amount per order
  act,      \* stop orders in the running activation statement
  req       \* control state of each cancel request

db == <<row, trades, traded>>
txs == <<lock, written, stmt>>
round == <<book, mem, pairObj, pending, cancels, newTrades, newTraded>>
vars == <<db, txs, mpc, round, cur, act, req>>

-----------------------------------------------------------------------------
(* Transactions, row locks and UPDATE statements *)

NoRow == [status |-> "absent", matched |-> 0]
NoWrites == [o \in Orders |-> None]
NoStmt == [rows |-> {}, set |-> "canceled", check |-> Statuses]
NoTrade == [sell |-> None, buy |-> None, amount |-> 0, side |-> "sell",
            saved |-> NoWrites]
NoReq == [pc |-> "idle", kind |-> "view", order |-> None, pairStatus |-> None]

\* The status of o that p reads: its own uncommitted write or the committed row.
Seen(p, o) == IF written[p][o] # None THEN written[p][o] ELSE row[o].status

Update(rows, set, check) == [rows |-> rows, set |-> set, check |-> check]

\* One row of p's running UPDATE: wait for the row lock, re-evaluate the WHERE
\* clause on the version then visible, and write it.
UpdateRow(p, o) ==
  /\ o \in stmt[p].rows
  /\ lock[o] \in {None, p}
  /\ stmt' = [stmt EXCEPT ![p].rows = @ \ {o}]
  /\ IF Seen(p, o) \in stmt[p].check
     THEN /\ lock' = [lock EXCEPT ![o] = p]
          /\ written' = [written EXCEPT ![p][o] = stmt[p].set]
     ELSE UNCHANGED <<lock, written>>
  /\ UNCHANGED <<db, mpc, round, cur, act, req>>

Finished(p) == stmt[p].rows = {}

\* p can go on only when another transaction ends.
Blocked(p) == /\ ~ Finished(p)
              /\ \A o \in stmt[p].rows : lock[o] \notin {None, p}
WaitsFor(p) == IF Blocked(p) THEN {lock[o] : o \in stmt[p].rows} ELSE {}

\* p is on a cycle of waiting transactions (every set that has what p waits for,
\* directly or through others, has p), so PostgreSQL may choose it as the victim.
Deadlocked(p) ==
  \A S \in SUBSET Procs :
    WaitsFor(p) \subseteq S /\ (\A q \in S : WaitsFor(q) \subseteq S) => p \in S

Unlocked(p) == [o \in Orders |-> IF lock[o] = p THEN None ELSE lock[o]]

\* COMMIT of a transaction that changed only statuses.
CommitStatuses(p) ==
  /\ row' = [o \in Orders |-> [row[o] EXCEPT !.status = Seen(p, o)]]
  /\ lock' = Unlocked(p)
  /\ written' = [written EXCEPT ![p] = NoWrites]

Rollback(p) ==
  /\ lock' = Unlocked(p)
  /\ written' = [written EXCEPT ![p] = NoWrites]
  /\ stmt' = [stmt EXCEPT ![p] = NoStmt]

-----------------------------------------------------------------------------
(* Creating orders *)

\* Mutant of InitialStatus: the model's default status is kept
StaysNew(o) == "new"

InitialStatus(o) == IF Exec[o] \in StopExecs THEN "inactive" ELSE "active"

\* MarketManager.create_order, committed with its request.  The two orders of
\* an OCO pair are created by one request, so they appear together.
CreateOrder(o) ==
  LET new == {o} \cup ({Pair[o]} \ {None})
  IN /\ row[o].status = "absent"
     /\ row' = [x \in Orders |-> IF x \in new
                  THEN [status |-> InitialStatus(x), matched |-> 0]
                  ELSE row[x]]
     /\ UNCHANGED <<trades, traded, txs, mpc, round, cur, act, req>>

-----------------------------------------------------------------------------
(* A matching round: one transaction of the matcher *)

Unmatched(o) == Amount[o] - mem[o].matched
Matchable(o) == o \in book /\ mem[o].status = "active" /\ Unmatched(o) > 0

\* Mutant of RoundLocks: a plain SELECT
NoRoundLocks(found) == lock

RoundLocks(found) == [o \in Orders |-> IF o \in found THEN Matcher ELSE lock[o]]

\* get_market_orders: SELECT ... FOR NO KEY UPDATE SKIP LOCKED
StartRound ==
  LET found == {o \in Orders : row[o].status = "active" /\ lock[o] = None}
  IN /\ mpc = "idle"
     /\ mpc' = "match"
     /\ book' = found
     /\ lock' = RoundLocks(found)
     /\ mem' = row
     /\ pairObj' = NoWrites
     /\ pending' = {}
     /\ cancels' = {}
     /\ newTrades' = {}
     /\ newTraded' = [o \in Orders |-> 0]
     /\ UNCHANGED <<db, written, stmt, cur, act, req>>

\* _cancel_order: an order without funds, a market order left over at the end
\* of its turn, an unexpected price...
CancelInMemory(o) ==
  /\ mpc = "match"
  /\ o \in book /\ mem[o].status = "active"
  /\ mem' = [mem EXCEPT ![o].status = "canceled"]
  /\ cancels' = cancels \cup {o}
  /\ UNCHANGED <<db, txs, mpc, book, pairObj, pending, newTrades, newTraded,
                 cur, act, req>>

\* match_two_orders up to commit_trade.  A pair that has traded before hits
\* the unique constraint on OrderMatching, and the savepoint undoes nothing
\* but the failed insert: that attempt is a stuttering step.
MatchTwoOrders(s, b, a) ==
  /\ mpc = "match"
  /\ Matchable(s) /\ Matchable(b)
  /\ Side[s] = "sell" /\ Side[b] = "buy"
  /\ ~ (Exec[s] \in MarketExecs /\ Exec[b] \in MarketExecs)
  /\ a <= Unmatched(s) /\ a <= Unmatched(b)
  /\ <<s, b>> \notin trades \cup newTrades
  /\ pending' = pending \cup {s, b}
  /\ cur' = [sell |-> s, buy |-> b, amount |-> a, side |-> "sell",
             saved |-> written[Matcher]]
  /\ mpc' = "trade"
  /\ UNCHANGED <<db, txs, book, mem, pairObj, cancels, newTrades, newTraded,
                 act, req>>

\* The trade is complete once its buy side is; then its savepoint is released.
NextSide ==
  IF cur.side = "sell"
  THEN /\ cur' = [cur EXCEPT !.side = "buy"]
       /\ mpc' = "trade"
       /\ UNCHANGED <<newTrades, newTraded>>
  ELSE /\ cur' = NoTrade
       /\ mpc' = "match"
       /\ newTrades' = newTrades \cup {<<cur.sell, cur.buy>>}
       /\ newTraded' = [newTraded EXCEPT ![cur.sell] = @ + cur.amount,
                                         ![cur.buy] = @ + cur.amount]

\* order.pair is read from the database once per order object of the round.
PairSeen(o) == IF pairObj[o] # None THEN pairObj[o] ELSE Seen(Matcher, Pair[o])

\* Mutants: the object's status is left alone; the pair is left alone
StatusKept(o, matched) == mem[o].status
PairKept(o) == FALSE

StatusAfter(o, matched) == IF matched = Amount[o] THEN "done" ELSE mem[o].status
CancelsPair(o) == Pair[o] # None /\ PairSeen(o) \in Open

\* increase_order_matched_amount for one side of the trade: update the object,
\* then cancel its OCO pair with a blind UPDATE.
IncreaseOrderMatchedAmount ==
  LET o == IF cur.side = "sell" THEN cur.sell ELSE cur.buy
      matched == mem[o].matched + cur.amount
  IN /\ mpc = "trade"
     /\ mem' = [mem EXCEPT ![o] = [status |-> StatusAfter(o, matched),
                                   matched |-> matched]]
     /\ pairObj' = IF Pair[o] = None THEN pairObj
                   ELSE [pairObj EXCEPT ![o] = IF CancelsPair(o) THEN "canceled"
                                               ELSE PairSeen(o)]
     /\ IF CancelsPair(o)
        THEN /\ stmt' = [stmt EXCEPT ![Matcher] =
                           Update({Pair[o]}, "canceled", Statuses)]
             /\ mpc' = "pair"
             /\ UNCHANGED <<cur, newTrades, newTraded>>
        ELSE NextSide /\ UNCHANGED stmt
     /\ UNCHANGED <<db, lock, written, book, pending, cancels, act, req>>

PairCanceled ==
  /\ mpc = "pair"
  /\ Finished(Matcher)
  /\ NextSide
  /\ UNCHANGED <<db, txs, book, mem, pairObj, pending, cancels, act, req>>

\* The matcher is the deadlock victim inside the savepoint: the rows written
\* since are restored and the bare except in match_two_orders goes on with
\* the round.  The Order objects keep what the attempt did to them.
TradeFails ==
  /\ mpc = "pair"
  /\ Deadlocked(Matcher)
  /\ written' = [written EXCEPT ![Matcher] = cur.saved]
  /\ lock' = [o \in Orders |->
                IF lock[o] = Matcher /\ o \notin book /\ cur.saved[o] = None
                THEN None ELSE lock[o]]
  /\ stmt' = [stmt EXCEPT ![Matcher] = NoStmt]
  /\ cur' = NoTrade
  /\ mpc' = "match"
  /\ UNCHANGED <<db, round, act, req>>

\* save_bulk_pending_orders, then post_process_orders: one UPDATE cancels, by
\* id only, the orders canceled in memory, the expired system orders and the
\* pairs of both.
SaveRound(expired) ==
  LET ids == (cancels \ pending) \cup expired
      pairs == {Pair[o] : o \in ids} \ {None}
  IN /\ mpc = "match"
     /\ expired \subseteq book \cap System
     /\ written' = [written EXCEPT ![Matcher] =
                      [o \in Orders |-> CASE o \in ids -> "canceled"
                                          [] o \in pending \ ids -> mem[o].status
                                          [] OTHER -> @[o]]]
     /\ stmt' = [stmt EXCEPT ![Matcher] = Update(pairs, "canceled", Statuses)]
     /\ mpc' = "save"
     /\ UNCHANGED <<db, lock, round, cur, act, req>>

\* Each round has a Matcher object of its own; what it holds goes with it.
DropRound ==
  /\ book' = {}
  /\ mem' = [o \in Orders |-> NoRow]
  /\ pairObj' = NoWrites
  /\ pending' = {}
  /\ cancels' = {}
  /\ newTrades' = {}
  /\ newTraded' = [o \in Orders |-> 0]

\* Mutant of SavedMatched: the bulk update names only the statuses
MatchedNotSaved(o) == row[o].matched

SavedMatched(o) == IF o \in pending THEN mem[o].matched ELSE row[o].matched

CommitRound ==
  /\ mpc = "save"
  /\ Finished(Matcher)
  /\ row' = [o \in Orders |->
               [status |-> Seen(Matcher, o),
                matched |-> SavedMatched(o)]]
  /\ trades' = trades \cup newTrades
  /\ traded' = [o \in Orders |-> traded[o] + newTraded[o]]
  /\ lock' = Unlocked(Matcher)
  /\ written' = [written EXCEPT ![Matcher] = NoWrites]
  /\ DropRound
  /\ mpc' = "stops"
  /\ UNCHANGED <<stmt, cur, act, req>>

\* The process dies, the connection is lost, or the closing UPDATE is chosen
\* as deadlock victim: the whole round is rolled back.
RoundFails ==
  /\ mpc \in {"match", "trade", "pair", "save"}
  /\ Rollback(Matcher)
  /\ DropRound
  /\ cur' = NoTrade
  /\ mpc' = "idle"
  /\ UNCHANGED <<db, act, req>>

-----------------------------------------------------------------------------
(* Post-processing of the round: a second transaction of the matcher *)

\* _activate_stop_orders.  Which stop prices the round has reached is
\* abstracted to any set of inactive stop orders.  The subquery that selects
\* them is not re-evaluated after a lock wait: the UPDATE itself has only the
\* id in its WHERE clause.
ActivateStopOrders(reached) ==
  /\ mpc = "stops"
  /\ reached \subseteq {o \in Orders : /\ Exec[o] \in StopExecs
                                       /\ row[o].status = "inactive"}
  /\ act' = reached
  /\ stmt' = [stmt EXCEPT ![Matcher] = Update(reached, "active", Statuses)]
  /\ mpc' = IF reached = {} THEN "idle" ELSE "activate"
  /\ UNCHANGED <<db, lock, written, round, cur, req>>

\* _cancel_oco_order_pair: its WHERE clause names the status, so it is
\* re-evaluated on the current version.
CancelOcoOrderPair ==
  LET pairs == {Pair[o] : o \in act} \ {None}
  IN /\ mpc = "activate"
     /\ Finished(Matcher)
     /\ stmt' = [stmt EXCEPT ![Matcher] =
                   Update({p \in pairs : /\ Exec[p] = "limit"
                                         /\ Seen(Matcher, p) = "active"},
                          "canceled", {"active"})]
     /\ mpc' = "oco"
     /\ UNCHANGED <<db, lock, written, round, cur, act, req>>

CommitStops ==
  /\ mpc = "oco"
  /\ Finished(Matcher)
  /\ CommitStatuses(Matcher)
  /\ act' = {}
  /\ mpc' = "idle"
  /\ UNCHANGED <<trades, traded, stmt, round, cur, req>>

StopsFail ==
  /\ mpc \in {"activate", "oco"}
  /\ Rollback(Matcher)
  /\ act' = {}
  /\ mpc' = "idle"
  /\ UNCHANGED <<db, round, cur, req>>

-----------------------------------------------------------------------------
(* Cancel requests *)

Begin(c, kind, o, pairStatus, rows, check) ==
  /\ req' = [req EXCEPT ![c] = [pc |-> "update", kind |-> kind, order |-> o,
                                pairStatus |-> pairStatus]]
  /\ stmt' = [stmt EXCEPT ![c] = Update(rows, "canceled", check)]
  /\ UNCHANGED <<db, lock, written, mpc, round, cur, act>>

\* Mutant of Swaps: the cancel starts from the order that was asked for
NeverSwaps(o) == FALSE

Swaps(o) == row[o].status = "inactive" /\ Pair[o] # None /\ row[Pair[o]].matched = 0

\* orders_update_status: read the order; cancel an OCO pair starting from its
\* limit order; a manual cancel leaves system orders alone.
ViewCancel(c, o) ==
  LET target == IF Swaps(o) THEN Pair[o] ELSE o
  IN /\ req[c].pc = "idle"
     /\ target \notin System
     /\ row[target].status \in Open
     /\ Begin(c, "view", target, IF Swaps(o) THEN row[o].status ELSE None,
              {target}, Statuses)

\* task_cancel_order: the same update_status, without the swap, on system
\* orders too, and outside any transaction.
TaskCancel(c, o) ==
  /\ req[c].pc = "idle"
  /\ row[o].status \in Open
  /\ Begin(c, "task", o, None, {o}, Statuses)

\* cancel_batch_of_orders: the orders and their pairs that are open when read;
\* its UPDATE names the open statuses.
BatchCancel(c, ids) ==
  LET pairs == {o \in Orders : /\ Pair[o] \in ids
                               /\ row[Pair[o]].status \in Open}
      found == {o \in (ids \cup pairs) \ System : row[o].status \in Open}
  IN /\ c \in BatchRequests
     /\ req[c].pc = "idle"
     /\ found # {}
     /\ Begin(c, "batch", None, None, found, Open)

\* Mutant of PairFollows: the pair's own update follows its pair again
PairFollowsAgain(c) ==
  /\ req[c].kind = "view"
  /\ req[c].pairStatus # None

\* update_status goes on to the OCO pair unless the pair has matched.  A view
\* that swapped still holds the stop order it read at first, which was inactive
\* then and had matched nothing, whatever has become of it.
PairFollows(c) ==
  LET p == Pair[req[c].order]
  IN /\ req[c].pc = "update" /\ req[c].kind \in {"view", "task"}
     /\ p # None
     /\ IF req[c].pairStatus # None THEN req[c].pairStatus \in Open
        ELSE row[p].matched = 0 /\ Seen(c, p) \in Open
     /\ req[c].kind = "view" => p \notin System

CancelPair(c) ==
  /\ PairFollows(c)
  /\ Finished(c)
  /\ req' = [req EXCEPT ![c].pc = "pair"]
  /\ stmt' = [stmt EXCEPT ![c] =
                Update({Pair[req[c].order]}, "canceled", Statuses)]
  /\ IF req[c].kind = "task"
     THEN CommitStatuses(c)
     ELSE UNCHANGED <<row, lock, written>>
  /\ UNCHANGED <<trades, traded, mpc, round, cur, act>>

CancelDone(c) ==
  /\ req[c].pc # "idle"
  /\ Finished(c)
  /\ ~ PairFollows(c)
  /\ CommitStatuses(c)
  /\ req' = [req EXCEPT ![c] = NoReq]
  /\ UNCHANGED <<trades, traded, stmt, mpc, round, cur, act>>

\* The request is a deadlock victim, or fails before its COMMIT.
CancelFails(c) ==
  /\ req[c].pc # "idle"
  /\ Rollback(c)
  /\ req' = [req EXCEPT ![c] = NoReq]
  /\ UNCHANGED <<db, mpc, round, cur, act>>

-----------------------------------------------------------------------------
(* The system *)

Init ==
  /\ row = [o \in Orders |-> NoRow]
  /\ trades = {}
  /\ traded = [o \in Orders |-> 0]
  /\ lock = NoWrites
  /\ written = [p \in Procs |-> NoWrites]
  /\ stmt = [p \in Procs |-> NoStmt]
  /\ mpc = "idle"
  /\ book = {}
  /\ mem = row
  /\ pairObj = NoWrites
  /\ pending = {}
  /\ cancels = {}
  /\ cur = NoTrade
  /\ newTrades = {}
  /\ newTraded = traded
  /\ act = {}
  /\ req = [c \in Requests |-> NoReq]

MatcherStep ==
  \/ StartRound
  \/ \E o \in Orders : CancelInMemory(o)
  \/ \E s, b \in Orders : \E a \in 1..Amount[s] : MatchTwoOrders(s, b, a)
  \/ IncreaseOrderMatchedAmount
  \/ PairCanceled
  \/ TradeFails
  \/ \E expired \in SUBSET System : SaveRound(expired)
  \/ CommitRound
  \/ \E reached \in SUBSET Orders : ActivateStopOrders(reached)
  \/ CancelOcoOrderPair
  \/ CommitStops

RequestStep(c) == CancelPair(c) \/ CancelDone(c)

Next ==
  \/ \E o \in Orders : CreateOrder(o)
  \/ \E p \in Procs, o \in Orders : UpdateRow(p, o)
  \/ MatcherStep
  \/ RoundFails
  \/ StopsFail
  \/ \E c \in Requests :
       \/ \E o \in Orders : ViewCancel(c, o) \/ TaskCancel(c, o)
       \/ \E ids \in SUBSET Orders : BatchCancel(c, ids)
       \/ RequestStep(c)
       \/ CancelFails(c)

Spec == Init /\ [][Next]_vars

\* The matcher loop and the workers that serve requests keep running.  A
\* waiter keeps its place in PostgreSQL's lock queue, so it gets a row that is
\* released again and again; PostgreSQL breaks every deadlock.
Fairness ==
  /\ WF_vars(MatcherStep)
  /\ \A c \in Requests : WF_vars(RequestStep(c))
  /\ \A c \in Requests : WF_vars(Deadlocked(c) /\ CancelFails(c))
  /\ \A p \in Procs, o \in Orders : SF_vars(UpdateRow(p, o))

FairSpec == Spec /\ Fairness

-----------------------------------------------------------------------------
(* Properties *)

Rows == [status : RowStatuses, matched : Nat]

\* Types of the rows, of the transactions and of the matcher's objects.
TypeOK ==
  /\ row \in [Orders -> Rows]
  /\ trades \subseteq Orders \X Orders
  /\ traded \in [Orders -> Nat]
  /\ lock \in [Orders -> Procs \cup {None}]
  /\ written \in [Procs -> [Orders -> Statuses \cup {None}]]
  /\ stmt \in [Procs -> [rows : SUBSET Orders, set : Statuses,
                         check : SUBSET Statuses]]
  /\ mpc \in {"idle", "match", "trade", "pair", "save", "stops", "activate", "oco"}
  /\ book \subseteq Orders
  /\ mem \in [Orders -> Rows]
  /\ pairObj \in [Orders -> RowStatuses \cup {None}]
  /\ pending \subseteq Orders
  /\ cancels \subseteq Orders
  /\ newTrades \subseteq Orders \X Orders
  /\ newTraded \in [Orders -> Nat]
  /\ act \subseteq Orders
  /\ req \in [Requests -> [pc : {"idle", "update", "pair"},
                           kind : {"view", "task", "batch"},
                           order : Orders \cup {None},
                           pairStatus : RowStatuses \cup {None}]]

\* An order is done only when it is fully matched, and an open order always has
\* something left to match, however its row was written by cancels, pair
\* cancels, activations and rounds that read it at different times.
StatusAgreesWithMatched ==
  \A o \in Orders :
    /\ row[o].status = "done" => row[o].matched = Amount[o]
    /\ row[o].status \in Open => row[o].matched < Amount[o]
    /\ row[o].status = "inactive" => row[o].matched = 0
    /\ row[o].matched <= Amount[o]

\* One cancels the other: the two orders of an OCO pair never both trade.
OcoExclusive ==
  \A o \in Orders :
    Pair[o] # None => ~ (traded[o] > 0 /\ traded[Pair[o]] > 0)

\* No trade is lost: what an order's row says was matched covers all of the
\* trades of that order.
MatchedCoversTrades == \A o \in Orders : row[o].matched >= traded[o]

\* An order's matched amount is the total of its trades: a trade and the two
\* orders it fills are saved together or not at all (matcher.py, the nested
\* atomic block of match_two_orders).
MatchedEqualsTraded == \A o \in Orders : row[o].matched = traded[o]

\* A trade that cancels the OCO pair of one of its orders never meets a cycle
\* with requests that cancel one order or one OCO pair at a time, so the
\* swallowed failure of match_two_orders cannot come from them.
TradeNeverDeadlocks == mpc = "pair" => ~ Deadlocked(Matcher)

\* A round writes only rows it has locked, and what it read when it locked
\* them is still what is committed.
RoundReadsCurrent ==
  \A o \in book : lock[o] = Matcher /\ row[o].status = "active"

\* A closed order never trades again, and the only way back from closed to
\* open is the activation of a stop order that has not matched.
ReopensOnlyByActivation ==
  [][\A o \in Orders : row[o].status \in Closed =>
       /\ row'[o].matched = row[o].matched
       /\ row'[o].status \in Open =>
            Exec[o] \in StopExecs /\ mpc = "oco" /\ row[o].matched = 0]_vars

\* Every cancel request ends, whatever the matcher and the other requests hold.
RequestsEnd == \A c \in Requests : req[c].pc # "idle" ~> req[c].pc = "idle"
=============================================================================
