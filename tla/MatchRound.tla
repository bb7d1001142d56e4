----------------------------- MODULE MatchRound -----------------------------
(***************************************************************************)
(* Matching rounds of one market: which orders trade, at which price, with *)
(* whose money.  One step is one iteration of the loops of                 *)
(* match_all_orders_v3 / match_all_orders_before_order.  While a round     *)
(* runs, users go on saving and committing orders and withdraw requests go *)
(* on holding, releasing and paying out funds.                             *)
(*                                                                         *)
(* The matcher's transaction is kept apart from the committed state: mem,  *)
(* spent and newTrades are applied at COMMIT.  Row conflicts on orders are *)
(* the subject of module OrderLifecycle and do not occur here.  Amounts    *)
(* are counted in units of the market's amount precision, so no order is   *)
(* ever "trivial".  Deposits of the proceeds are made later by the trade   *)
(* processor.  Left out: the orderbook price range and its expansion (all  *)
(* active orders are fetched) and fees, which are taken from deposits.     *)
(***************************************************************************)
EXTENDS Integers, Sequences, SequencesExt, SetSums

CONSTANTS Orders, Users,
          Owner,        \* Owner[o]: user of the order
          Side,         \* Side[o] \in {"sell", "buy"}
          MarketOrders, \* orders with a market execution type
          Bots,         \* TRADER_BOT_IDS
          Prices, Amounts,
          Funds,        \* Funds[u][c]: initial balance of u in currency c
          MaxTrades,    \* MAX_TRADE_PER_ROUND
          MaxHold,      \* bound on what a user holds for withdraws per wallet
          None

ASSUME MatchRoundAssumption ==
  /\ IsFiniteSet(Orders)
  /\ Owner \in [Orders -> Users]
  /\ Side \in [Orders -> {"sell", "buy"}]
  /\ MarketOrders \subseteq Orders /\ Bots \subseteq Users
  /\ Prices \subseteq Nat \ {0} /\ Amounts \subseteq Nat \ {0}
  /\ Funds \in [Users -> [{"src", "dst"} -> Nat]]
  /\ MaxTrades \in Nat \ {0} /\ MaxHold \in Nat
  /\ None \notin Orders

Currencies == {"src", "dst"}
IsMarket(o) == o \in MarketOrders
IsSell(o) == Side[o] = "sell"
\* the currency an order pays with
PaysIn(o) == IF IsSell(o) THEN "src" ELSE "dst"

VARIABLES
  ord,        \* committed rows of the orders
  clock,      \* counts created_at timestamps
  bal,        \* committed wallet balances
  held,       \* amounts of withdraw requests that have no transaction yet
  paid,       \* total paid out by withdraws
  trades,     \* committed OrderMatching rows
  lastTime,   \* MARKET_LAST_PROCESSED_TIME
  lastBest,   \* MARKET_LAST_BEST_PRICES
  pc,         \* control point of the round
  mem,        \* the Order objects of the round
  sells, buys,\* sorted lists of the round
  queue,      \* new orders still to be processed
  last,       \* last_order of the running scan
  time,       \* the local last_time
  i, j,       \* positions of the running scan in its two lists
  validated,  \* VALIDATED_ORDERS
  wallet,     \* wallet[o]: balance in the cached wallet object, None if unread
  spent,      \* uncommitted debits of the round, per wallet
  newTrades,  \* uncommitted OrderMatching rows
  skipped     \* pairs whose matching failed in this round

users == <<ord, clock, bal, held, paid>>
memory == <<lastTime, lastBest>>
lists == <<sells, buys>>
scan == <<last, i, j>>
tx == <<mem, validated, wallet, spent, newTrades, skipped>>
vars == <<users, trades, memory, pc, lists, queue, scan, time, tx>>

MaxPrice == CHOOSE p \in Prices : \A q \in Prices : p >= q
Infinity == MaxPrice + 1
NoBest == [sell |-> 0, buy |-> Infinity]
NoOrders == [o \in Orders |-> [price |-> 0, amount |-> 0, born |-> 0,
                               status |-> "absent", matched |-> 0]]
NoSpent == [u \in Users |-> [c \in Currencies |-> 0]]

-----------------------------------------------------------------------------
(* Users: orders and withdraw requests *)

Required(o, unmatched, price) == IF IsSell(o) THEN unmatched ELSE unmatched * price

\* get_balance_in_order, over the committed open orders
InOrder(u, c) ==
  SumOf([o \in Orders |-> Required(o, ord[o].amount - ord[o].matched, ord[o].price)],
        {o \in Orders : /\ ord[o].status = "active"
                        /\ Owner[o] = u /\ PaysIn(o) = c})

ActiveBalance(u, c) == bal[u][c] - held[u][c] - InOrder(u, c)

\* a market buy may exceed the funds by 10 percent
Covers(o, funds, required) ==
  IF IsMarket(o) /\ ~ IsSell(o) THEN required * 10 <= funds * 11
                                ELSE required <= funds

\* create_order: created_at is set when the row is saved; other transactions
\* see the row only after the request commits.
CreateOrder(o, price, amount) ==
  /\ ord[o].status = "absent"
  /\ Covers(o, ActiveBalance(Owner[o], PaysIn(o)), Required(o, amount, price))
  /\ clock' = clock + 1
  /\ ord' = [ord EXCEPT ![o] = [price |-> price, amount |-> amount,
                                born |-> clock + 1, status |-> "saved",
                                matched |-> 0]]
  /\ UNCHANGED <<bal, held, paid, trades, memory, pc, lists, queue, scan, time, tx>>

CommitOrder(o) ==
  /\ ord[o].status = "saved"
  /\ ord' = [ord EXCEPT ![o].status = "active"]
  /\ UNCHANGED <<clock, bal, held, paid, trades, memory, pc, lists, queue, scan,
                 time, tx>>

\* A withdraw request is verified: its amount counts as blocked from now on.
HoldFunds(u, c) ==
  /\ held[u][c] < MaxHold
  /\ ActiveBalance(u, c) > 0
  /\ held' = [held EXCEPT ![u][c] = @ + 1]
  /\ UNCHANGED <<ord, clock, bal, paid, trades, memory, pc, lists, queue, scan,
                 time, tx>>

\* It is canceled or rejected.
ReleaseFunds(u, c) ==
  /\ held[u][c] > 0
  /\ held' = [held EXCEPT ![u][c] = @ - 1]
  /\ UNCHANGED <<ord, clock, bal, paid, trades, memory, pc, lists, queue, scan,
                 time, tx>>

\* It is sent: create_transaction debits the wallet, unless the matcher holds
\* the wallet row.
PayOut(u, c) ==
  /\ held[u][c] > 0 /\ bal[u][c] > 0 /\ spent[u][c] = 0
  /\ held' = [held EXCEPT ![u][c] = @ - 1]
  /\ bal' = [bal EXCEPT ![u][c] = @ - 1]
  /\ paid' = [paid EXCEPT ![u][c] = @ + 1]
  /\ UNCHANGED <<ord, clock, trades, memory, pc, lists, queue, scan, time, tx>>

-----------------------------------------------------------------------------
(* Start of a round *)

\* Mutant of Better: both sides sorted with reverse=True
BetterReversed(a, b) ==
  \/ IsMarket(a) /\ ~ IsMarket(b)
  \/ /\ IsMarket(a) <=> IsMarket(b)
     /\ \/ ord[a].price > ord[b].price
        \/ ord[a].price = ord[b].price /\ ord[a].born < ord[b].born

Better(a, b) ==
  \/ IsMarket(a) /\ ~ IsMarket(b)
  \/ /\ IsMarket(a) <=> IsMarket(b)
     /\ \/ IF IsSell(a) THEN ord[a].price < ord[b].price
                        ELSE ord[a].price > ord[b].price
        \/ ord[a].price = ord[b].price /\ ord[a].born < ord[b].born

\* Orders that may open a new matching, by the criteria of match_all_orders_v3
Important(o) ==
  \/ IsMarket(o)
  \/ ord[o].born >= lastTime
  \/ IF IsSell(o) THEN ord[o].price < lastBest.sell
                  ELSE ord[o].price > lastBest.buy

\* sort() and sorted(): the lists that hold the orders of S in the given order
ByPrice(S) ==
  {f \in Bijection(1..Cardinality(S), S) :
     \A m, n \in DOMAIN f : m < n => Better(f[m], f[n])}
Older(a, b) == ord[a].born < ord[b].born
ByAge(S) ==
  {f \in Bijection(1..Cardinality(S), S) :
     \A m, n \in DOMAIN f : m < n => Older(f[m], f[n])}

StartRound ==
  LET found == {o \in Orders : ord[o].status = "active"}
  IN /\ pc = "idle"
     /\ sells' \in ByPrice({o \in found : IsSell(o)})
     /\ buys' \in ByPrice({o \in found : ~ IsSell(o)})
     /\ queue' \in ByAge({o \in found : Important(o)})
     /\ mem' = ord
     /\ time' = lastTime
     /\ last' = None /\ i' = 1 /\ j' = 1
     /\ validated' = {} /\ wallet' = [o \in Orders |-> None]
     /\ spent' = NoSpent /\ newTrades' = {} /\ skipped' = {}
     /\ pc' = "next"
     /\ UNCHANGED <<users, trades, memory>>

\* Mutant of NextOrder: no closing scan
NextOrderOnlyNew ==
  /\ pc = "next"
  /\ IF queue = <<>>
     THEN last' = None /\ pc' = "finish" /\ UNCHANGED queue
     ELSE last' = Head(queue) /\ queue' = Tail(queue) /\ pc' = "scan"
  /\ i' = 1 /\ j' = 1
  /\ UNCHANGED <<users, trades, memory, lists, time, tx>>

\* The for loop takes the next new order; after the last one (its else
\* branch) one more scan considers all orders.
NextOrder ==
  /\ pc = "next"
  /\ IF queue = <<>>
     THEN last' = None /\ UNCHANGED queue
     ELSE last' = Head(queue) /\ queue' = Tail(queue)
  /\ i' = 1 /\ j' = 1
  /\ pc' = "scan"
  /\ UNCHANGED <<users, trades, memory, lists, time, tx>>

-----------------------------------------------------------------------------
(* One scan: match_all_orders_before_order *)

SellList == IF last # None /\ IsSell(last) THEN <<last>> ELSE sells
BuyList == IF last # None /\ ~ IsSell(last) THEN <<last>> ELSE buys

Unmatched(o) == mem[o].amount - mem[o].matched
Alive(o) == mem[o].status = "active" /\ Unmatched(o) > 0
TooNew(o) == last # None /\ mem[o].born > mem[last].born
Crosses(s, b) == IsMarket(s) \/ IsMarket(b) \/ mem[b].price >= mem[s].price

\* What the loop body does with the candidates at positions i and j.
Verdict ==
  IF i > Len(SellList) THEN "return"
  ELSE LET s == SellList[i] IN
    IF TooNew(s) \/ j > Len(BuyList) THEN "nextSell"
    ELSE LET b == BuyList[j] IN
      IF TooNew(b) THEN "nextBuy"
      ELSE IF ~ Alive(s) THEN IF s = last THEN "return" ELSE "nextSell"
      ELSE IF ~ Alive(b) THEN IF b = last THEN "return" ELSE "nextBuy"
      ELSE IF IsMarket(s) /\ IsMarket(b) THEN "nextBuy"
      ELSE IF ~ Crosses(s, b) THEN "return"
      ELSE IF Owner[s] \in Bots /\ Owner[b] \in Bots THEN "forbidden"
      ELSE IF b \notin validated THEN "validateBuy"
      ELSE IF s \notin validated THEN "validateSell"
      ELSE "match"

sell == SellList[i]
buy == BuyList[j]
NextSell == i' = i + 1 /\ j' = 1
NextBuy == i' = i /\ j' = j + 1

Canceled(m, O) == [o \in Orders |-> IF o \in O THEN [m[o] EXCEPT !.status = "canceled"]
                                               ELSE m[o]]

SkipCandidate ==
  /\ pc = "scan"
  /\ \/ Verdict = "nextSell" /\ NextSell
     \/ Verdict = "nextBuy" /\ NextBuy
  /\ UNCHANGED <<users, trades, memory, pc, lists, queue, last, time, tx>>

\* Where a finished scan continues: market orders do not rest in the book, and
\* MAX_TRADE_PER_ROUND leaves the other new orders to the next round.
EndScan(m) ==
  /\ mem' = IF last # None /\ IsMarket(last) /\ m[last].status = "active"
            THEN Canceled(m, {last}) ELSE m
  /\ time' = IF last # None /\ ~ IsMarket(last) THEN m[last].born ELSE time
  /\ pc' = IF last = None \/ Cardinality(newTrades) >= MaxTrades
           THEN "finish" ELSE "next"

ReturnFromScan ==
  /\ pc = "scan"
  /\ Verdict = "return"
  /\ EndScan(mem)
  /\ UNCHANGED <<users, trades, memory, lists, queue, scan, validated, wallet,
                 spent, newTrades, skipped>>

\* check_for_forbidden_matching: two bots; both orders go and the scan ends.
ForbiddenMatching ==
  /\ pc = "scan"
  /\ Verdict = "forbidden"
  /\ EndScan(Canceled(mem, {sell, buy}))
  /\ UNCHANGED <<users, trades, memory, lists, queue, scan, validated, wallet,
                 spent, newTrades, skipped>>

\* The balance the matcher's transaction reads from the wallet row now
DbBalance(o) == bal[Owner[o]][PaysIn(o)] - spent[Owner[o]][PaysIn(o)]

\* validate_order: the order's cached wallet object, read on first use, must
\* cover the order; held funds are not looked at here.
ValidateOrder(o, advance) ==
  LET b == IF wallet[o] = None THEN DbBalance(o) ELSE wallet[o]
  IN /\ wallet' = [wallet EXCEPT ![o] = b]
     /\ IF Covers(o, b, Required(o, Unmatched(o), mem[o].price))
        THEN /\ validated' = validated \cup {o}
             /\ UNCHANGED <<mem, i, j>>
        ELSE /\ mem' = Canceled(mem, {o})
             /\ advance
             /\ UNCHANGED validated
     /\ UNCHANGED <<users, trades, memory, pc, lists, queue, last, time, spent,
                    newTrades, skipped>>

Validate ==
  /\ pc = "scan"
  /\ \/ Verdict = "validateBuy" /\ ValidateOrder(buy, NextBuy)
     \/ Verdict = "validateSell" /\ ValidateOrder(sell, NextSell)

-----------------------------------------------------------------------------
(* match_two_orders *)

Min2(a, b) == IF a < b THEN a ELSE b

IsSellerMaker(s, b) ==
  ~ IsMarket(s) /\ (IsMarket(b) \/ mem[s].born <= mem[b].born)
MatchedPrice(s, b) == IF IsSellerMaker(s, b) THEN mem[s].price ELSE mem[b].price

\* funds of the cached wallet object less what withdraws hold at this moment
Available(o) == wallet[o] - held[Owner[o]][PaysIn(o)]

\* the amount after the cut to the buyer's funds, rounded down
BuyerAmount(s, b) ==
  LET a == Min2(Unmatched(s), Unmatched(b))
      p == MatchedPrice(s, b)
  IN IF a * p > Available(b) THEN Available(b) \div p ELSE a
MatchedAmount(s, b) == Min2(BuyerAmount(s, b), Available(s))

\* Mutant of UnexpectedFor: the acceptable range is not rechecked
NeverUnexpected(s, b) == {}

\* MARKET_ORDER_MAX_PRICE_DIFF is 0.1
UnexpectedFor(s, b) ==
  LET p == MatchedPrice(s, b)
  IN CASE IsMarket(b) /\ 10 * p > 11 * mem[b].price -> {b}
       [] IsMarket(s) /\ 10 * p < 9 * mem[s].price -> {s}
       [] OTHER -> {}

\* the order that is canceled instead of matched, if any
Unmatchable(s, b) ==
  IF BuyerAmount(s, b) <= 0 THEN {b}
  ELSE IF MatchedAmount(s, b) <= 0 THEN {s}
  ELSE UnexpectedFor(s, b)

RejectMatch ==
  /\ pc = "scan" /\ Verdict = "match"
  /\ Unmatchable(sell, buy) # {}
  /\ mem' = Canceled(mem, Unmatchable(sell, buy))
  /\ skipped' = skipped \cup {<<sell, buy>>}
  /\ NextBuy
  /\ UNCHANGED <<users, trades, memory, pc, lists, queue, last, time, validated,
                 wallet, spent, newTrades>>

Traded(s, b) == \E t \in trades \cup newTrades : t.sell = s /\ t.buy = b

\* Mutant of FailedMatch: no savepoint, so a first debit stays in the database
FailedMatchNoSavepoint ==
  LET a == MatchedAmount(sell, buy)
      total == a * MatchedPrice(sell, buy)
  IN /\ pc = "scan" /\ Verdict = "match"
     /\ Unmatchable(sell, buy) = {} /\ ~ Traded(sell, buy)
     /\ DbBalance(sell) >= a /\ DbBalance(buy) < total
     /\ spent' = [spent EXCEPT ![Owner[sell]]["src"] = @ + a]
     /\ wallet' = [wallet EXCEPT ![sell] = DbBalance(sell) - a]
     /\ skipped' = skipped \cup {<<sell, buy>>}
     /\ NextBuy
     /\ UNCHANGED <<users, trades, memory, pc, lists, queue, last, time, mem,
                    validated, newTrades>>

\* The savepoint is rolled back and the exception swallowed: these two orders
\* have traded before, or a debit would make a wallet row negative.  A first
\* debit that succeeded stays in its wallet object.
FailedMatch ==
  LET a == MatchedAmount(sell, buy)
      total == a * MatchedPrice(sell, buy)
  IN /\ pc = "scan" /\ Verdict = "match"
     /\ Unmatchable(sell, buy) = {}
     /\ \/ /\ Traded(sell, buy)
           /\ UNCHANGED wallet
        \/ /\ ~ Traded(sell, buy)
           /\ DbBalance(sell) < a
           /\ UNCHANGED wallet
        \/ /\ ~ Traded(sell, buy)
           /\ DbBalance(sell) >= a /\ DbBalance(buy) < total
           /\ wallet' = [wallet EXCEPT ![sell] = DbBalance(sell) - a]
     /\ skipped' = skipped \cup {<<sell, buy>>}
     /\ NextBuy
     /\ UNCHANGED <<users, trades, memory, pc, lists, queue, last, time, mem,
                    validated, spent, newTrades>>

Filled(o, a) == [mem[o] EXCEPT !.matched = @ + a,
                   !.status = IF mem[o].matched + a = mem[o].amount THEN "done" ELSE @]

\* Mutant of MatchTwoOrders: Transaction.commit without its safe-guard check
MatchUnguarded ==
  LET a == MatchedAmount(sell, buy)
      p == MatchedPrice(sell, buy)
  IN /\ pc = "scan" /\ Verdict = "match"
     /\ Unmatchable(sell, buy) = {}
     /\ ~ Traded(sell, buy)
     /\ newTrades' = newTrades \cup
          {[sell |-> sell, buy |-> buy, price |-> p, amount |-> a]}
     /\ spent' = [spent EXCEPT ![Owner[sell]]["src"] = @ + a,
                               ![Owner[buy]]["dst"] = @ + a * p]
     /\ mem' = [mem EXCEPT ![sell] = Filled(sell, a), ![buy] = Filled(buy, a)]
     /\ NextBuy
     /\ UNCHANGED <<users, trades, memory, pc, lists, queue, last, time, wallet,
                    validated, skipped>>

\* create_exchange_transactions and commit_trade
MatchTwoOrders ==
  LET a == MatchedAmount(sell, buy)
      p == MatchedPrice(sell, buy)
  IN /\ pc = "scan" /\ Verdict = "match"
     /\ Unmatchable(sell, buy) = {}
     /\ ~ Traded(sell, buy)
     /\ DbBalance(sell) >= a /\ DbBalance(buy) >= a * p
     /\ newTrades' = newTrades \cup
          {[sell |-> sell, buy |-> buy, price |-> p, amount |-> a]}
     /\ spent' = [spent EXCEPT ![Owner[sell]]["src"] = @ + a,
                               ![Owner[buy]]["dst"] = @ + a * p]
     /\ wallet' = [wallet EXCEPT ![sell] = DbBalance(sell) - a,
                                 ![buy] = DbBalance(buy) - a * p]
     /\ mem' = [mem EXCEPT ![sell] = Filled(sell, a), ![buy] = Filled(buy, a)]
     /\ NextBuy
     /\ UNCHANGED <<users, trades, memory, pc, lists, queue, last, time,
                    validated, skipped>>

-----------------------------------------------------------------------------
(* End of a round *)

\* _get_best_active_price of one side, or the given default
BestPrice(list, default) ==
  LET best == SelectInSeq(list, LAMBDA o : /\ mem[o].status = "active"
                                           /\ ~ IsMarket(o)
                                           /\ mem[o].born <= time)
  IN IF best = 0 THEN default ELSE mem[list[best]].price

\* The class-level dictionaries are updated before the transaction commits.
FinishMatching ==
  /\ pc = "finish"
  /\ lastTime' = time
  /\ lastBest' = [sell |-> BestPrice(sells, 0), buy |-> BestPrice(buys, Infinity)]
  /\ pc' = "commit"
  /\ UNCHANGED <<users, trades, lists, queue, scan, time, tx>>

\* Nothing of the round outlives it but the dictionaries.
EndRound ==
  /\ mem' = NoOrders /\ sells' = <<>> /\ buys' = <<>> /\ queue' = <<>>
  /\ last' = None /\ i' = 1 /\ j' = 1 /\ time' = 0
  /\ validated' = {} /\ wallet' = [o \in Orders |-> None]
  /\ spent' = NoSpent /\ newTrades' = {} /\ skipped' = {}
  /\ pc' = "idle"
  /\ UNCHANGED <<clock, held, paid, memory>>

\* Orders that were not committed when the round started keep their own rows.
CommitRound ==
  /\ pc = "commit"
  /\ ord' = [o \in Orders |-> IF mem[o].status \in {"absent", "saved"} THEN ord[o]
                                                                      ELSE mem[o]]
  /\ bal' = [u \in Users |-> [c \in Currencies |-> bal[u][c] - spent[u][c]]]
  /\ trades' = trades \cup newTrades
  /\ EndRound

\* An exception rolls the round back; the process and its dictionaries live on.
RoundFails ==
  /\ pc # "idle"
  /\ EndRound
  /\ UNCHANGED <<ord, bal, trades>>

\* A new matcher process starts with empty dictionaries.
Restart ==
  /\ pc = "idle"
  /\ lastTime' = 0
  /\ lastBest' = NoBest
  /\ UNCHANGED <<users, trades, pc, lists, queue, scan, time, tx>>

-----------------------------------------------------------------------------
Init ==
  /\ ord = NoOrders /\ clock = 0 /\ bal = Funds
  /\ held = NoSpent /\ paid = NoSpent /\ trades = {}
  /\ lastTime = 0 /\ lastBest = NoBest
  /\ pc = "idle" /\ mem = NoOrders /\ sells = <<>> /\ buys = <<>> /\ queue = <<>>
  /\ last = None /\ i = 1 /\ j = 1 /\ time = 0
  /\ validated = {} /\ wallet = [o \in Orders |-> None]
  /\ spent = NoSpent /\ newTrades = {} /\ skipped = {}

UserStep ==
  \/ \E o \in Orders, p \in Prices, a \in Amounts : CreateOrder(o, p, a)
  \/ \E o \in Orders : CommitOrder(o)
  \/ \E u \in Users, c \in Currencies :
       HoldFunds(u, c) \/ ReleaseFunds(u, c) \/ PayOut(u, c)

Next ==
  \/ UserStep
  \/ StartRound \/ NextOrder \/ SkipCandidate \/ ReturnFromScan
  \/ ForbiddenMatching \/ Validate \/ RejectMatch \/ FailedMatch \/ MatchTwoOrders
  \/ FinishMatching \/ CommitRound \/ RoundFails \/ Restart

Spec == Init /\ [][Next]_vars

-----------------------------------------------------------------------------
(* Properties *)

Rows == [price : Prices \cup {0}, amount : Amounts \cup {0}, born : Nat,
         status : {"absent", "saved", "active", "done", "canceled"}, matched : Nat]
Wallets == [Users -> [Currencies -> Nat]]
Trades == [sell : Orders, buy : Orders, price : Prices, amount : Nat \ {0}]

\* Every variable has its type; in particular no committed balance and no
\* amount of a trade is ever negative (Transaction.commit's safe-guard).
TypeOK ==
  /\ ord \in [Orders -> Rows] /\ mem \in [Orders -> Rows]
  /\ clock \in Nat /\ time \in Nat /\ lastTime \in Nat
  /\ bal \in Wallets /\ held \in Wallets /\ paid \in Wallets /\ spent \in Wallets
  /\ trades \subseteq Trades /\ newTrades \subseteq Trades
  /\ lastBest \in [sell : Prices \cup {0}, buy : Prices \cup {Infinity}]
  /\ pc \in {"idle", "next", "scan", "finish", "commit"}
  /\ sells \in Seq(Orders) /\ buys \in Seq(Orders) /\ queue \in Seq(Orders)
  /\ last \in Orders \cup {None}
  /\ i \in Nat /\ j \in Nat
  /\ validated \subseteq Orders
  /\ wallet \in [Orders -> Nat \cup {None}]
  /\ skipped \subseteq Orders \X Orders

TradedBy(o, T) ==
  SumOf([t \in T |-> t.amount], {t \in T : o \in {t.sell, t.buy}})
PaidFor(u, c, T) ==
  SumOf([t \in T |-> IF c = "src" THEN t.amount ELSE t.amount * t.price],
        {t \in T : Owner[IF c = "src" THEN t.sell ELSE t.buy] = u})

\* Money only leaves a wallet for a trade or a withdraw, and the orders' matched
\* amounts account for the same trades: before and after every COMMIT, whatever
\* debits failed halfway inside a savepoint (match_two_orders).
LedgerBalanced ==
  /\ \A u \in Users, c \in Currencies :
       Funds[u][c] = bal[u][c] + paid[u][c] + PaidFor(u, c, trades)
  /\ \A o \in Orders : ord[o].matched = TradedBy(o, trades)

\* The matcher's open transaction never overdraws a wallet, though it decides on
\* cached Wallet objects while withdraws are paid out (Transaction.commit).
NoOverdraft == \A u \in Users, c \in Currencies : bal[u][c] >= spent[u][c]

\* A trade honours both orders: limit prices exactly, the expected price of a
\* market order within MARKET_ORDER_MAX_PRICE_DIFF, and no order trades more
\* than its amount, over all its trades of all rounds.
TradesHonourOrders ==
  /\ \A t \in trades \cup newTrades :
       /\ IF IsMarket(t.sell) THEN 10 * t.price >= 9 * ord[t.sell].price
                              ELSE t.price >= ord[t.sell].price
       /\ IF IsMarket(t.buy) THEN 10 * t.price <= 11 * ord[t.buy].price
                             ELSE t.price <= ord[t.buy].price
  /\ \A o \in Orders : TradedBy(o, trades \cup newTrades) <= ord[o].amount

Rests(o) == mem[o].status = "active" /\ Unmatched(o) > 0
Maker(t) == IF IsSellerMaker(t.sell, t.buy) THEN t.sell ELSE t.buy
Taker(t) == IF IsSellerMaker(t.sell, t.buy) THEN t.buy ELSE t.sell

\* the two orders have traded, or their matching was tried in this round and failed
Tried(s, b) == <<s, b>> \in skipped \/ Traded(s, b)

Ahead(a, b) ==
  LET d == IF IsSell(a) THEN mem[b].price - mem[a].price
                        ELSE mem[a].price - mem[b].price
  IN d > 0 \/ (d = 0 /\ mem[a].born < mem[b].born)

\* Price-time priority: no order that the round has fetched is left resting
\* while a worse or later one of its side was maker of a trade with a newer
\* taker, unless its own matching with that taker was tried and failed.
NoTradeThrough ==
  pc = "commit" =>
    \A t \in newTrades, o \in Orders :
      /\ Rests(o) /\ Side[o] = Side[Maker(t)] /\ Ahead(o, Maker(t))
      /\ mem[o].born < mem[Taker(t)].born
      => IF IsSell(o) THEN Tried(o, Taker(t)) ELSE Tried(Taker(t), o)

\* A matching of two bots has been found: it ends the scan.
ForbiddenFound ==
  \E s \in Orders, b \in Orders :
    /\ IsSell(s) /\ ~ IsSell(b) /\ Owner[s] \in Bots /\ Owner[b] \in Bots
    /\ \A o \in {s, b} : ord[o].status = "active" /\ mem[o].status = "canceled"

\* "L1: At the end of each matching round, all possible matchings are executed"
\* (match_all_orders_v3), for rounds that MAX_TRADE_PER_ROUND did not cut short:
\* two orders that still cross have traded already or have failed to.  Orders
\* that commit late are not "important", so this needs the closing scan.  That
\* scan ends where two bots meet, and where a sell does not cross a buy; a buy
\* ahead of that one may then wait behind the sell it has failed to match.
AllMatchingsExecuted ==
  pc = "commit" /\ last = None =>
    \A s \in Orders, b \in Orders :
      Rests(s) /\ Rests(b) /\ IsSell(s) /\ ~ IsSell(b) /\ Crosses(s, b)
        => \/ Tried(s, b)
           \/ \E o \in Orders : /\ Rests(o) /\ IsSell(o) /\ Ahead(o, s)
                               /\ Tried(o, b)
           \/ ForbiddenFound

\* "Balance that is held and cannot be used" (Wallet.blocked_balance): funds
\* held for a withdraw are still there when it is paid out.
HeldFundsKept == \A u \in Users, c \in Currencies : bal[u][c] - spent[u][c] >= held[u][c]
=============================================================================
