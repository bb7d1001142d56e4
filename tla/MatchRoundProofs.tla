-------------------------- MODULE MatchRoundProofs --------------------------
(***************************************************************************)
(* Proofs about MatchRound, for all orders, users, prices, amounts and     *)
(* bounds.  The inductive invariant says what a round knows of the         *)
(* committed rows (Snapshot), how its lists are sorted (BookInv, QueueInv) *)
(* and what the scan has left behind it (Examined).                        *)
(***************************************************************************)
EXTENDS MatchRound, SetSumTheorems, TLAPS

Unseen == {"absent", "saved"}

\* What a row or an Order object can be
RowOK(r) ==
  /\ r.status # "absent" => r.price \in Prices /\ r.amount \in Amounts
  /\ r.matched <= r.amount
  /\ r.status \in Unseen => r.matched = 0

RowsInv ==
  /\ \A o \in Orders : RowOK(ord[o]) /\ RowOK(mem[o])
  /\ \A o \in Orders : ord[o].born <= clock
  /\ \A a, b \in Orders : ord[a].status # "absent" /\ ord[b].status # "absent"
                          /\ ord[a].born = ord[b].born => a = b

\* An object of the round agrees with its row in all that a round never changes.
SameOrder(o) ==
  /\ ord[o].status \notin Unseen
  /\ ord[o].price = mem[o].price /\ ord[o].amount = mem[o].amount
  /\ ord[o].born = mem[o].born
Snapshot == \A o \in Orders : mem[o].status \notin Unseen => SameOrder(o)

\* The orders a round has fetched
InBook(o) == o \in Orders /\ mem[o].status \notin Unseen /\ ord[o].status = "active"

BookInv ==
  /\ \A k \in 1..Len(sells) : InBook(sells[k]) /\ IsSell(sells[k])
  /\ \A k \in 1..Len(buys) : InBook(buys[k]) /\ ~ IsSell(buys[k])
  /\ \A k, l \in 1..Len(sells) : k < l => Better(sells[k], sells[l])
  /\ \A k, l \in 1..Len(buys) : k < l => Better(buys[k], buys[l])
  /\ \A o \in Orders : mem[o].status = "active" =>
       IF IsSell(o) THEN \E k \in 1..Len(sells) : sells[k] = o
                    ELSE \E k \in 1..Len(buys) : buys[k] = o

\* Market orders wait in the queue for their scan, and new orders come by age.
QueueInv ==
  /\ \A k \in 1..Len(queue) : InBook(queue[k])
  /\ \A k, l \in 1..Len(queue) : k < l => Older(queue[k], queue[l])
  /\ last # None => InBook(last) /\ \A k \in 1..Len(queue) : Older(last, queue[k])
  /\ pc = "scan" /\ last = None => queue = <<>>
  /\ pc \in {"next", "scan"} =>
       \A o \in MarketOrders : mem[o].status = "active" =>
         \/ \E k \in 1..Len(queue) : queue[k] = o
         \/ pc = "scan" /\ o = last

RoundInv ==
  /\ i >= 1 /\ j >= 1
  /\ \A o \in validated : wallet[o] \in Nat
  /\ pc = "idle" => mem = NoOrders /\ newTrades = {} /\ spent = NoSpent

BaseInv == TypeOK /\ RowsInv /\ Snapshot /\ BookInv /\ QueueInv /\ RoundInv /\ NoOverdraft

\* The uncommitted trades account for the debits and the matched amounts of a round.
LedgerInv ==
  /\ IsFiniteSet(trades) /\ IsFiniteSet(newTrades) /\ trades \cap newTrades = {}
  /\ \A u \in Users, c \in Currencies : spent[u][c] = PaidFor(u, c, newTrades)
  /\ pc # "idle" => \A o \in Orders :
                      mem[o].matched = ord[o].matched + TradedBy(o, newTrades)

\* Whoever has traded has a committed row, is on its side and got a fair price.
Fair(t) ==
  /\ IsSell(t.sell) /\ ~ IsSell(t.buy)
  /\ ord[t.sell].status \notin Unseen /\ ord[t.buy].status \notin Unseen
  /\ IF IsMarket(t.sell) THEN 10 * t.price >= 9 * ord[t.sell].price
                         ELSE t.price >= ord[t.sell].price
  /\ IF IsMarket(t.buy) THEN 10 * t.price <= 11 * ord[t.buy].price
                        ELSE t.price <= ord[t.buy].price
FairInv == \A t \in trades \cup newTrades : Fair(t)

\* What the scan does with a pair before it goes on to the next one
Done(s, b) ==
  \/ TooNew(s) \/ TooNew(b) \/ ~ Rests(s) \/ ~ Rests(b)
  \/ IsMarket(s) /\ IsMarket(b)
  \/ Tried(s, b)

Examined ==
  pc = "scan" =>
    \A k \in 1..Len(SellList), l \in 1..Len(BuyList) :
      k < i \/ (k = i /\ l < j) => Done(SellList[k], BuyList[l])

\* NoTradeThrough at every moment of a round
PassedOver(t, o) ==
  /\ Rests(o) /\ Side[o] = Side[Maker(t)] /\ Ahead(o, Maker(t))
  /\ mem[o].born < mem[Taker(t)].born
TriedWith(o, q) == IF IsSell(o) THEN Tried(o, q) ELSE Tried(q, o)
PriorityInv ==
  \A t \in newTrades, o \in Orders : PassedOver(t, o) => TriedWith(o, Taker(t))

\* AllMatchingsExecuted from the end of the closing scan on
Settled(s, b) ==
  Rests(s) /\ Rests(b) /\ IsSell(s) /\ ~ IsSell(b) /\ Crosses(s, b)
    => \/ Tried(s, b)
       \/ \E o \in Orders : Rests(o) /\ IsSell(o) /\ Ahead(o, s) /\ Tried(o, b)
       \/ ForbiddenFound
ClosedInv ==
  pc \in {"finish", "commit"} /\ last = None =>
    \A s \in Orders, b \in Orders : Settled(s, b)

-----------------------------------------------------------------------------
(* What the users' steps do *)

\* A row that a round may have fetched is left alone, and all else belongs to
\* the round.
UserEffect ==
  /\ ord' \in [Orders -> Rows] /\ clock' \in Nat
  /\ \A o \in Orders : RowOK(ord'[o]) /\ ord'[o].born <= clock'
  /\ \A a, b \in Orders : ord'[a].status # "absent" /\ ord'[b].status # "absent"
                          /\ ord'[a].born = ord'[b].born => a = b
  /\ \A o \in Orders : \/ ord'[o] = ord[o]
                       \/ ord[o].status \in Unseen /\ ord'[o].matched = ord[o].matched
  /\ bal' \in Wallets /\ held' \in Wallets /\ paid' \in Wallets
  /\ \A u \in Users, c \in Currencies :
       /\ bal'[u][c] >= spent[u][c]
       /\ bal'[u][c] + paid'[u][c] = bal[u][c] + paid[u][c]
  /\ UNCHANGED <<trades, memory, pc, lists, queue, scan, time, tx>>

Put(w, u, c, x) == [w EXCEPT ![u][c] = x]

LEMMA WalletUpdate ==
  ASSUME NEW w \in Wallets, NEW u \in Users, NEW c \in Currencies, NEW x \in Nat
  PROVE  /\ Put(w, u, c, x) \in Wallets /\ Put(w, u, c, x)[u][c] = x
         /\ \A a \in Users, d \in Currencies :
              a # u \/ d # c => Put(w, u, c, x)[a][d] = w[a][d]
<1> DEFINE v == Put(w, u, c, x)
           f == [w[u] EXCEPT ![c] = x]
<1>1. f \in [Currencies -> Nat] /\ f[c] = x /\ \A d \in Currencies : d # c => f[d] = w[u][d]
  BY DEF Wallets
<1>2. v = [w EXCEPT ![u] = f]
  BY DEF Put
<1> HIDE DEF f, v
<1>3. v \in Wallets /\ v[u] = f /\ \A a \in Users : a # u => v[a] = w[a]
  BY <1>1, <1>2 DEF Wallets
<1>4. \A a \in Users, d \in Currencies : a # u \/ d # c => v[a][d] = w[a][d]
  BY <1>1, <1>3
<1> QED BY <1>1, <1>3, <1>4 DEF v

LEMMA CreateEffect ==
  ASSUME TypeOK, RowsInv, NoOverdraft,
         NEW o \in Orders, NEW p \in Prices, NEW a \in Amounts, CreateOrder(o, p, a)
  PROVE  UserEffect
<1>1. /\ ord[o].status = "absent" /\ clock' = clock + 1 /\ clock \in Nat
      /\ ord'[o] = [price |-> p, amount |-> a, born |-> clock + 1, status |-> "saved",
                    matched |-> 0]
      /\ \A q \in Orders \ {o} : ord'[q] = ord[q]
      /\ ord' \in [Orders -> Rows]
  BY MatchRoundAssumption DEF CreateOrder, TypeOK, Rows
<1>2. /\ ord'[o].status = "saved" /\ ord'[o].price = p /\ ord'[o].amount = a
      /\ ord'[o].matched = 0 /\ ord'[o].born = clock + 1 /\ a \in Nat
  BY <1>1, MatchRoundAssumption
<1>3. \A q \in Orders : RowOK(ord'[q]) /\ ord'[q].born <= clock'
  <2> SUFFICES ASSUME NEW q \in Orders PROVE RowOK(ord'[q]) /\ ord'[q].born <= clock'
    OBVIOUS
  <2>1. CASE q = o
    BY <1>1, <1>2, <2>1 DEF RowOK, Unseen
  <2>2. CASE q # o
    <3>1. ord'[q] = ord[q] /\ RowOK(ord[q]) /\ ord[q].born <= clock /\ ord[q].born \in Nat
      BY <1>1, <2>2 DEF RowsInv, TypeOK, Rows
    <3> QED BY <1>1, <3>1
  <2> QED BY <2>1, <2>2
<1>4. \A q, r \in Orders : ord'[q].status # "absent" /\ ord'[r].status # "absent"
                          /\ ord'[q].born = ord'[r].born => q = r
  <2>1. \A q \in Orders \ {o} : ord'[q].born # clock + 1
    BY <1>1 DEF RowsInv, TypeOK, Rows
  <2>2. \A q, r \in Orders \ {o} : ord'[q].status # "absent" /\ ord'[r].status # "absent"
                          /\ ord'[q].born = ord'[r].born => q = r
    BY <1>1 DEF RowsInv
  <2> QED BY <1>2, <2>1, <2>2
<1>5. \A q \in Orders : \/ ord'[q] = ord[q]
                        \/ ord[q].status \in Unseen /\ ord'[q].matched = ord[q].matched
  BY <1>1, <1>2 DEF RowsInv, RowOK, Unseen
<1>6. UNCHANGED <<bal, held, paid, trades, memory, pc, lists, queue, scan, time, tx>>
  BY DEF CreateOrder
<1> QED BY <1>1, <1>3, <1>4, <1>5, <1>6 DEF UserEffect, TypeOK, NoOverdraft

LEMMA CommitEffect ==
  ASSUME TypeOK, RowsInv, NoOverdraft, NEW o \in Orders, CommitOrder(o)
  PROVE  UserEffect
<1>1. /\ ord[o].status = "saved" /\ clock' = clock /\ clock \in Nat
      /\ ord'[o] = [ord[o] EXCEPT !.status = "active"]
      /\ \A q \in Orders \ {o} : ord'[q] = ord[q]
      /\ ord' \in [Orders -> Rows]
  <2>1. /\ ord[o].status = "saved" /\ clock' = clock /\ clock \in Nat
        /\ ord \in [Orders -> Rows]
        /\ ord' = [ord EXCEPT ![o].status = "active"]
    BY DEF CommitOrder, TypeOK
  <2>2. [ord[o] EXCEPT !.status = "active"] \in Rows
    BY <2>1 DEF Rows
  <2> QED BY <2>1, <2>2
<1>2. /\ ord'[o].status = "active" /\ ord'[o].price = ord[o].price
      /\ ord'[o].amount = ord[o].amount
      /\ ord'[o].matched = ord[o].matched /\ ord'[o].born = ord[o].born
  BY <1>1 DEF TypeOK, Rows
<1>3. \A q \in Orders : /\ ord'[q].born = ord[q].born
                        /\ ord'[q].status # "absent" => ord[q].status # "absent"
  BY <1>1, <1>2
<1>4. \A q \in Orders : RowOK(ord'[q])
  <2>1. \A q \in Orders : RowOK(ord[q])
    BY DEF RowsInv
  <2>2. RowOK(ord'[o])
    BY <1>1, <1>2, <2>1 DEF RowOK, Unseen
  <2> QED BY <1>1, <2>1, <2>2
<1>5. \A q \in Orders : \/ ord'[q] = ord[q]
                        \/ ord[q].status \in Unseen /\ ord'[q].matched = ord[q].matched
  BY <1>1, <1>2 DEF Unseen
<1>6. UNCHANGED <<bal, held, paid, trades, memory, pc, lists, queue, scan, time, tx>>
  BY DEF CommitOrder
<1>7. /\ \A q \in Orders : ord'[q].born <= clock'
      /\ \A a, b \in Orders : ord'[a].status # "absent" /\ ord'[b].status # "absent"
                              /\ ord'[a].born = ord'[b].born => a = b
  <2>1. /\ \A q \in Orders : ord[q].born <= clock
        /\ \A a, b \in Orders : ord[a].status # "absent" /\ ord[b].status # "absent"
                                /\ ord[a].born = ord[b].born => a = b
    BY DEF RowsInv
  <2> QED BY <1>1, <1>3, <2>1
<1>8. /\ bal' \in Wallets /\ held' \in Wallets /\ paid' \in Wallets
      /\ \A u \in Users, c \in Currencies :
           /\ bal'[u][c] >= spent[u][c]
           /\ bal'[u][c] + paid'[u][c] = bal[u][c] + paid[u][c]
  BY <1>6 DEF TypeOK, NoOverdraft
<1> QED BY <1>1, <1>4, <1>5, <1>6, <1>7, <1>8 DEF UserEffect

LEMMA FundsEffect ==
  ASSUME TypeOK, RowsInv, NoOverdraft, NEW u \in Users, NEW c \in Currencies,
         HoldFunds(u, c) \/ ReleaseFunds(u, c) \/ PayOut(u, c)
  PROVE  UserEffect
<1>1. UNCHANGED <<ord, clock, trades, memory, pc, lists, queue, scan, time, tx>>
  BY DEF HoldFunds, ReleaseFunds, PayOut
<1>2. \A v \in Users, d \in Currencies :
        bal[v][d] \in Nat /\ held[v][d] \in Nat /\ paid[v][d] \in Nat /\ spent[v][d] \in Nat
  BY DEF TypeOK, Wallets
<1>3. CASE HoldFunds(u, c) \/ ReleaseFunds(u, c)
  <2>1. UNCHANGED <<bal, paid>> /\ held' \in Wallets
    <3>1. UNCHANGED <<bal, paid>>
      BY <1>3 DEF HoldFunds, ReleaseFunds
    <3>2. PICK x \in Nat : held' = Put(held, u, c, x)
      <4>1. CASE HoldFunds(u, c)
        <5>1. held' = [held EXCEPT ![u][c] = held[u][c] + 1] /\ held[u][c] + 1 \in Nat
          BY <1>2, <4>1 DEF HoldFunds
        <5> QED BY <5>1 DEF Put
      <4>2. CASE ReleaseFunds(u, c)
        <5>1. held' = [held EXCEPT ![u][c] = held[u][c] - 1] /\ held[u][c] - 1 \in Nat
          BY <1>2, <4>2 DEF ReleaseFunds
        <5> QED BY <5>1 DEF Put
      <4> QED BY <1>3, <4>1, <4>2
    <3>3. held \in Wallets
      BY DEF TypeOK
    <3> QED BY <3>1, <3>2, <3>3, WalletUpdate
  <2> QED BY <1>1, <2>1 DEF UserEffect, TypeOK, NoOverdraft, RowsInv
<1>4. CASE PayOut(u, c)
  <2>1. /\ bal' \in Wallets /\ held' \in Wallets /\ paid' \in Wallets
        /\ bal'[u][c] = bal[u][c] - 1 /\ paid'[u][c] = paid[u][c] + 1
        /\ \A v \in Users, d \in Currencies : v # u \/ d # c =>
             bal'[v][d] = bal[v][d] /\ paid'[v][d] = paid[v][d]
        /\ bal[u][c] > 0 /\ spent[u][c] = 0
    <3>1. /\ held' = Put(held, u, c, held[u][c] - 1) /\ held[u][c] - 1 \in Nat
          /\ bal' = Put(bal, u, c, bal[u][c] - 1) /\ bal[u][c] - 1 \in Nat
          /\ paid' = Put(paid, u, c, paid[u][c] + 1) /\ paid[u][c] + 1 \in Nat
          /\ bal[u][c] > 0 /\ spent[u][c] = 0
      BY <1>2, <1>4 DEF PayOut, Put
    <3>2. held \in Wallets /\ bal \in Wallets /\ paid \in Wallets
      BY DEF TypeOK
    <3>3. held' \in Wallets
      BY <3>1, <3>2, WalletUpdate
    <3>4. /\ bal' \in Wallets /\ bal'[u][c] = bal[u][c] - 1
          /\ \A v \in Users, d \in Currencies : v # u \/ d # c => bal'[v][d] = bal[v][d]
      <4>1. PICK x : x \in Nat /\ x = bal[u][c] - 1 /\ bal' = Put(bal, u, c, x)
        BY <3>1
      <4>2. /\ Put(bal, u, c, x) \in Wallets /\ Put(bal, u, c, x)[u][c] = x
            /\ \A a \in Users, d \in Currencies :
                 a # u \/ d # c => Put(bal, u, c, x)[a][d] = bal[a][d]
        BY <3>2, <4>1, WalletUpdate
      <4> QED BY <4>1, <4>2
    <3>5. /\ paid' \in Wallets /\ paid'[u][c] = paid[u][c] + 1
          /\ \A v \in Users, d \in Currencies : v # u \/ d # c => paid'[v][d] = paid[v][d]
      <4>1. PICK x : x \in Nat /\ x = paid[u][c] + 1 /\ paid' = Put(paid, u, c, x)
        BY <3>1
      <4>2. /\ Put(paid, u, c, x) \in Wallets /\ Put(paid, u, c, x)[u][c] = x
            /\ \A a \in Users, d \in Currencies :
                 a # u \/ d # c => Put(paid, u, c, x)[a][d] = paid[a][d]
        BY <3>2, <4>1, WalletUpdate
      <4> QED BY <4>1, <4>2
    <3> QED BY <3>1, <3>3, <3>4, <3>5
  <2>2. \A v \in Users, d \in Currencies :
       /\ bal'[v][d] >= spent[v][d]
       /\ bal'[v][d] + paid'[v][d] = bal[v][d] + paid[v][d]
    BY <1>2, <2>1 DEF NoOverdraft
  <2> QED BY <1>1, <2>1, <2>2 DEF UserEffect, TypeOK, RowsInv
<1> QED BY <1>3, <1>4

LEMMA UserStepEffect ==
  ASSUME TypeOK, RowsInv, NoOverdraft, UserStep PROVE UserEffect
BY CreateEffect, CommitEffect, FundsEffect DEF UserStep

-----------------------------------------------------------------------------
(* What the round's steps find *)

LEMMA BookFacts ==
  ASSUME BaseInv
  PROVE  /\ \A k \in 1..Len(SellList) : InBook(SellList[k]) /\ IsSell(SellList[k])
         /\ \A k \in 1..Len(BuyList) : InBook(BuyList[k]) /\ ~ IsSell(BuyList[k])
<1>1. CASE last # None
  BY <1>1 DEF BaseInv, BookInv, QueueInv, SellList, BuyList
<1>2. CASE last = None
  BY <1>2 DEF BaseInv, BookInv, SellList, BuyList
<1> QED BY <1>1, <1>2

LEMMA ListTypes ==
  ASSUME TypeOK
  PROVE  Len(SellList) \in Nat /\ Len(BuyList) \in Nat
BY DEF TypeOK, SellList, BuyList

\* The verdicts that look at a pair: both orders are open and cross.
Candidates ==
  /\ i \in 1..Len(SellList) /\ j \in 1..Len(BuyList)
  /\ InBook(sell) /\ InBook(buy) /\ IsSell(sell) /\ ~ IsSell(buy)
  /\ Alive(sell) /\ Alive(buy) /\ ~ TooNew(sell) /\ ~ TooNew(buy)
  /\ ~ (IsMarket(sell) /\ IsMarket(buy)) /\ Crosses(sell, buy)

LEMMA VerdictFacts ==
  ASSUME BaseInv, Verdict \in {"forbidden", "validateBuy", "validateSell", "match"}
  PROVE  /\ Candidates
         /\ Verdict = "match" => sell \in validated /\ buy \in validated
         /\ Verdict = "forbidden" => Owner[sell] \in Bots /\ Owner[buy] \in Bots
<1>1. /\ ~ (i > Len(SellList)) /\ ~ (j > Len(BuyList))
      /\ ~ TooNew(sell) /\ ~ TooNew(buy) /\ Alive(sell) /\ Alive(buy)
      /\ ~ (IsMarket(sell) /\ IsMarket(buy)) /\ Crosses(sell, buy)
      /\ Verdict = "match" => sell \in validated /\ buy \in validated
      /\ Verdict = "forbidden" => Owner[sell] \in Bots /\ Owner[buy] \in Bots
  BY DEF Verdict, sell, buy
<1>2. i \in Nat /\ j \in Nat /\ i >= 1 /\ j >= 1
  BY DEF BaseInv, TypeOK, RoundInv
<1>3. i \in 1..Len(SellList) /\ j \in 1..Len(BuyList)
  BY <1>1, <1>2, ListTypes DEF BaseInv
<1>4. InBook(sell) /\ InBook(buy) /\ IsSell(sell) /\ ~ IsSell(buy)
  BY <1>3, BookFacts DEF sell, buy
<1> QED BY <1>1, <1>3, <1>4 DEF Candidates

\* The objects of the round only close or fill up.
Kept ==
  \A o \in Orders :
    /\ mem'[o].price = mem[o].price /\ mem'[o].amount = mem[o].amount
    /\ mem'[o].born = mem[o].born
    /\ \/ mem'[o].status = mem[o].status
       \/ mem[o].status = "active" /\ mem'[o].status \in {"done", "canceled"}
    /\ mem'[o].matched >= mem[o].matched

KeptMem == mem' \in [Orders -> Rows] /\ (\A o \in Orders : RowOK(mem'[o])) /\ Kept

LEMMA SameKept ==
  ASSUME TypeOK, RowsInv, mem' = mem PROVE KeptMem
BY DEF TypeOK, Rows, RowsInv, KeptMem, Kept

LEMMA CancelKept ==
  ASSUME TypeOK, RowsInv, NEW O, \A o \in O : mem[o].status = "active",
         mem' = Canceled(mem, O)
  PROVE  /\ KeptMem
         /\ \A o \in Orders \cap O : mem'[o].status = "canceled"
         /\ \A o \in Orders : mem'[o].matched = mem[o].matched
<1>1. \A o \in Orders : /\ mem[o] \in Rows /\ RowOK(mem[o])
                        /\ o \notin O => mem'[o] = mem[o]
                        /\ o \in O => mem'[o] = [mem[o] EXCEPT !.status = "canceled"]
  BY DEF TypeOK, RowsInv, Canceled
<1>2. mem' = [o \in Orders |-> mem'[o]]
  BY DEF Canceled
<1>3. ASSUME NEW o \in Orders, o \in O
      PROVE  /\ mem'[o] \in Rows /\ mem'[o].price = mem[o].price
             /\ mem'[o].amount = mem[o].amount /\ mem'[o].born = mem[o].born
             /\ mem'[o].status = "canceled" /\ mem'[o].matched = mem[o].matched
             /\ mem[o].status = "active"
  BY ZenonT(30), <1>1, <1>3 DEF Rows
<1>4. \A o \in Orders : mem'[o] \in Rows /\ RowOK(mem'[o])
  <2> SUFFICES ASSUME NEW o \in Orders PROVE mem'[o] \in Rows /\ RowOK(mem'[o])
    OBVIOUS
  <2>1. CASE o \notin O
    BY <1>1, <2>1
  <2>2. CASE o \in O
    <3>1. RowOK(mem[o])
      BY <1>1
    <3> QED BY <1>3, <2>2, <3>1 DEF RowOK, Unseen
  <2> QED BY <2>1, <2>2
<1>5. \A o \in Orders : mem[o].matched \in Nat
  BY DEF TypeOK, Rows
<1>6. mem' \in [Orders -> Rows]
  BY <1>2, <1>4
<1>7. Kept
  <2> SUFFICES ASSUME NEW o \in Orders
               PROVE  /\ mem'[o].price = mem[o].price /\ mem'[o].amount = mem[o].amount
                      /\ mem'[o].born = mem[o].born
                      /\ \/ mem'[o].status = mem[o].status
                         \/ mem[o].status = "active" /\ mem'[o].status \in {"done", "canceled"}
                      /\ mem'[o].matched >= mem[o].matched
    BY DEF Kept
  <2>1. CASE o \in O
    BY <1>3, <1>5, <2>1
  <2>2. CASE o \notin O
    <3>1. mem'[o] = mem[o] /\ mem[o].matched \in Nat
      BY <1>1, <1>5, <2>2
    <3> QED BY <3>1
  <2> QED BY <2>1, <2>2
<1>8. \A o \in Orders \cap O : mem'[o].status = "canceled"
  BY <1>3
<1>9. \A o \in Orders : mem'[o].matched = mem[o].matched
  BY <1>1, <1>3
<1> QED BY <1>4, <1>6, <1>7, <1>8, <1>9 DEF KeptMem

LEMMA DivisionBelow ==
  ASSUME NEW x \in Int, NEW p \in Nat \ {0}, NEW n \in Nat, n * p > x
  PROVE  x \div p \in Int /\ x \div p <= n
OBVIOUS

LEMMA OpenFacts ==
  ASSUME TypeOK, RowsInv, NEW o \in Orders, mem[o].status \notin Unseen
  PROVE  /\ mem[o].price \in Prices /\ mem[o].price \in Nat \ {0}
         /\ mem[o].amount \in Amounts /\ mem[o].amount \in Nat /\ mem[o].matched \in Nat
         /\ mem[o].born \in Nat /\ Unmatched(o) \in Nat /\ mem[o].matched <= mem[o].amount
<1>1. RowOK(mem[o]) /\ mem[o] \in Rows
  BY DEF TypeOK, RowsInv
<1>2. /\ mem[o].price \in Prices /\ mem[o].amount \in Amounts
      /\ mem[o].matched <= mem[o].amount /\ mem[o].matched \in Nat /\ mem[o].born \in Nat
  BY <1>1 DEF RowOK, Rows, Unseen
<1>3. mem[o].price \in Nat \ {0} /\ mem[o].amount \in Nat
  BY <1>2, MatchRoundAssumption
<1>4. Unmatched(o) \in Nat
  BY <1>2, <1>3 DEF Unmatched
<1> QED BY <1>2, <1>3, <1>4

\* The wallet an order pays from
LEMMA WalletFacts ==
  ASSUME TypeOK, NoOverdraft, NEW o \in Orders
  PROVE  /\ Owner[o] \in Users /\ PaysIn(o) \in Currencies
         /\ IsSell(o) => PaysIn(o) = "src"
         /\ ~ IsSell(o) => PaysIn(o) = "dst"
         /\ held[Owner[o]][PaysIn(o)] \in Nat
         /\ spent[Owner[o]][PaysIn(o)] \in Nat
         /\ DbBalance(o) \in Nat
<1>1. Owner[o] \in Users /\ PaysIn(o) \in Currencies
  BY MatchRoundAssumption DEF PaysIn, Currencies
<1>2. \A w \in Wallets : w[Owner[o]][PaysIn(o)] \in Nat
  BY <1>1 DEF Wallets
<1>3. /\ held[Owner[o]][PaysIn(o)] \in Nat /\ spent[Owner[o]][PaysIn(o)] \in Nat
      /\ bal[Owner[o]][PaysIn(o)] \in Nat
  BY <1>2 DEF TypeOK
<1>4. bal[Owner[o]][PaysIn(o)] >= spent[Owner[o]][PaysIn(o)]
  BY <1>1 DEF NoOverdraft
<1>5. DbBalance(o) \in Nat
  BY <1>3, <1>4 DEF DbBalance
<1> QED BY <1>1, <1>3, <1>5 DEF PaysIn

\* The price and the amount of a trade
LEMMA MatchFacts ==
  ASSUME BaseInv, Candidates, sell \in validated, buy \in validated,
         Unmatchable(sell, buy) = {}
  PROVE  /\ MatchedPrice(sell, buy) \in Prices
         /\ MatchedAmount(sell, buy) \in Nat \ {0}
         /\ MatchedAmount(sell, buy) <= Unmatched(sell)
         /\ MatchedAmount(sell, buy) <= Unmatched(buy)
         /\ UnexpectedFor(sell, buy) = {}
<1>1. /\ sell \in Orders /\ buy \in Orders
      /\ mem[sell].status = "active" /\ mem[buy].status = "active"
      /\ Unmatched(sell) > 0 /\ Unmatched(buy) > 0
  BY DEF Candidates, InBook, Alive
<1>2. /\ mem[sell].price \in Prices /\ mem[buy].price \in Prices
      /\ mem[sell].status \notin Unseen /\ mem[buy].status \notin Unseen
      /\ Unmatched(sell) \in Nat /\ Unmatched(buy) \in Nat
  BY <1>1, OpenFacts DEF BaseInv, Unseen
<1>3. wallet[sell] \in Nat /\ wallet[buy] \in Nat
  BY DEF BaseInv, RoundInv
<1>4. /\ held[Owner[sell]][PaysIn(sell)] \in Nat /\ held[Owner[buy]][PaysIn(buy)] \in Nat
  BY <1>1, WalletFacts DEF BaseInv
<1>5. Available(sell) \in Int /\ Available(buy) \in Int
  BY <1>3, <1>4 DEF Available
<1>6. MatchedPrice(sell, buy) \in Prices
  BY <1>2 DEF MatchedPrice
<1>7. PICK p \in Nat \ {0} : p = MatchedPrice(sell, buy)
  BY <1>6, MatchRoundAssumption
<1>8. PICK n \in Nat \ {0} : /\ n = Min2(Unmatched(sell), Unmatched(buy))
                             /\ n <= Unmatched(sell) /\ n <= Unmatched(buy)
  BY <1>1, <1>2 DEF Min2
<1>9. BuyerAmount(sell, buy) \in Int /\ BuyerAmount(sell, buy) <= n
  <2>1. CASE n * p > Available(buy)
    <3>1. BuyerAmount(sell, buy) = Available(buy) \div p
      BY <1>7, <1>8, <2>1 DEF BuyerAmount
    <3> QED BY <1>5, <2>1, <3>1, DivisionBelow
  <2>2. CASE ~ (n * p > Available(buy))
    BY <1>7, <1>8, <2>2 DEF BuyerAmount
  <2> QED BY <2>1, <2>2
<1>10. /\ BuyerAmount(sell, buy) > 0 /\ MatchedAmount(sell, buy) > 0
       /\ UnexpectedFor(sell, buy) = {}
  <2>1. MatchedAmount(sell, buy) \in Int
    BY <1>5, <1>9 DEF MatchedAmount, Min2
  <2> QED BY <1>9, <2>1 DEF Unmatchable
<1>11. MatchedAmount(sell, buy) \in Int /\ MatchedAmount(sell, buy) <= BuyerAmount(sell, buy)
  BY <1>5, <1>9 DEF MatchedAmount, Min2
<1> QED BY <1>2, <1>6, <1>8, <1>9, <1>10, <1>11

-----------------------------------------------------------------------------
(* What the round's steps do *)

\* A step of a round leaves committed rows, lists and the scanned order alone;
\* its objects, debits and records keep their types and never shrink.
RoundEffect ==
  /\ KeptMem
  /\ UNCHANGED <<users, trades, lists, queue, last>>
  /\ time' \in Nat /\ lastTime' \in Nat
  /\ lastBest' \in [sell : Prices \cup {0}, buy : Prices \cup {Infinity}]
  /\ pc' \in {"next", "scan", "finish", "commit"}
  /\ spent' \in Wallets /\ \A u \in Users, c \in Currencies : bal[u][c] >= spent'[u][c]
  /\ newTrades' \subseteq Trades /\ newTrades \subseteq newTrades'
  /\ i' \in Nat /\ j' \in Nat /\ i' >= 1 /\ j' >= 1
  /\ validated' \subseteq Orders /\ wallet' \in [Orders -> Nat \cup {None}]
  /\ \A o \in validated' : wallet'[o] \in Nat
  /\ skipped' \subseteq Orders \X Orders /\ skipped \subseteq skipped'

\* A market order does not outlive its scan.
MarketGone == last # None /\ IsMarket(last) => mem'[last].status # "active"

LEMMA EndScanFacts ==
  ASSUME BaseInv, NEW A, A \subseteq Orders, \A o \in A : mem[o].status = "active",
         EndScan(Canceled(mem, A))
  PROVE  /\ KeptMem /\ MarketGone /\ time' \in Nat /\ pc' \in {"next", "finish"}
         /\ \A o \in A : mem'[o].status = "canceled"
         /\ \A o \in Orders : mem'[o].matched = mem[o].matched
         /\ pc' = "next" => last # None
<1> DEFINE m == Canceled(mem, A)
<1>0. TypeOK /\ RowsInv
  BY DEF BaseInv
<1>1. last # None => last \in Orders
  BY <1>0 DEF TypeOK
<1>2. \A o \in Orders : /\ mem[o] \in Rows
                        /\ o \notin A => m[o] = mem[o]
                        /\ o \in A => m[o] = [mem[o] EXCEPT !.status = "canceled"]
  BY <1>0 DEF TypeOK, Canceled
<1>3. \A o \in Orders : /\ m[o].born \in Nat
                        /\ o \in A => m[o].status = "canceled"
  BY <1>2 DEF Rows
<1>4. time' \in Nat
  BY <1>0, <1>1, <1>3 DEF EndScan, TypeOK
<1>5. pc' \in {"next", "finish"} /\ (pc' = "next" => last # None)
  BY DEF EndScan
<1>6. CASE last # None /\ IsMarket(last) /\ m[last].status = "active"
  <2>1. last \notin A /\ mem[last].status = "active"
    BY <1>1, <1>2, <1>3, <1>6
  <2>2. mem' = Canceled(m, {last})
    BY <1>6 DEF EndScan
  <2>3. mem' = Canceled(mem, A \cup {last})
    BY <2>1, <2>2 DEF Canceled
  <2>4. /\ KeptMem
        /\ \A o \in Orders \cap (A \cup {last}) : mem'[o].status = "canceled"
        /\ \A o \in Orders : mem'[o].matched = mem[o].matched
    BY <1>0, <2>1, <2>3, CancelKept
  <2> QED BY <1>1, <1>4, <1>5, <2>4 DEF MarketGone
<1>7. CASE ~ (last # None /\ IsMarket(last) /\ m[last].status = "active")
  <2>1. mem' = Canceled(mem, A)
    BY <1>7 DEF EndScan
  <2>2. /\ KeptMem
        /\ \A o \in Orders \cap A : mem'[o].status = "canceled"
        /\ \A o \in Orders : mem'[o].matched = mem[o].matched
    BY <1>0, <2>1, CancelKept
  <2>3. MarketGone
    BY <1>7, <2>1 DEF MarketGone
  <2> QED BY <1>4, <1>5, <2>2, <2>3
<1> QED BY <1>6, <1>7

LEMMA NothingCanceled ==
  ASSUME TypeOK PROVE mem = Canceled(mem, {})
BY DEF TypeOK, Canceled

LEMMA ReturnEffect ==
  ASSUME BaseInv, ReturnFromScan
  PROVE  /\ RoundEffect /\ MarketGone /\ pc' \in {"next", "finish"}
         /\ \A o \in Orders : mem'[o].matched = mem[o].matched
         /\ UNCHANGED <<newTrades, spent>>
         /\ pc' = "next" => last # None
<1>1. EndScan(Canceled(mem, {}))
  BY NothingCanceled DEF ReturnFromScan, BaseInv
<1>2. /\ KeptMem /\ MarketGone /\ time' \in Nat /\ pc' \in {"next", "finish"}
      /\ \A o \in Orders : mem'[o].matched = mem[o].matched
      /\ pc' = "next" => last # None
  BY <1>1, EndScanFacts
<1>3. UNCHANGED <<users, trades, memory, lists, queue, scan, validated, wallet,
                  spent, newTrades, skipped>>
  BY DEF ReturnFromScan
<1>4. RoundEffect
  BY <1>2, <1>3 DEF RoundEffect, BaseInv, TypeOK, RoundInv, NoOverdraft, scan, memory
<1> QED BY <1>2, <1>3, <1>4

LEMMA ForbiddenEffect ==
  ASSUME BaseInv, ForbiddenMatching
  PROVE  /\ RoundEffect /\ MarketGone /\ pc' \in {"next", "finish"}
         /\ \A o \in Orders : mem'[o].matched = mem[o].matched
         /\ UNCHANGED <<newTrades, spent>>
         /\ pc' = "next" => last # None
         /\ Candidates /\ Owner[sell] \in Bots /\ Owner[buy] \in Bots
         /\ mem'[sell].status = "canceled" /\ mem'[buy].status = "canceled"
<1>1. EndScan(Canceled(mem, {sell, buy})) /\ Verdict = "forbidden"
  BY DEF ForbiddenMatching
<1>2. Candidates /\ Owner[sell] \in Bots /\ Owner[buy] \in Bots
  BY <1>1, VerdictFacts
<1>3. {sell, buy} \subseteq Orders /\ \A o \in {sell, buy} : mem[o].status = "active"
  BY <1>2 DEF Candidates, InBook, Alive
<1>4. /\ KeptMem /\ MarketGone /\ time' \in Nat /\ pc' \in {"next", "finish"}
      /\ \A o \in {sell, buy} : mem'[o].status = "canceled"
      /\ \A o \in Orders : mem'[o].matched = mem[o].matched
      /\ pc' = "next" => last # None
  BY <1>1, <1>3, EndScanFacts
<1>5. UNCHANGED <<users, trades, memory, lists, queue, scan, validated, wallet,
                  spent, newTrades, skipped>>
  BY DEF ForbiddenMatching
<1>6. RoundEffect
  BY <1>4, <1>5 DEF RoundEffect, BaseInv, TypeOK, RoundInv, NoOverdraft, scan, memory
<1> QED BY <1>2, <1>4, <1>5, <1>6

LEMMA SkipEffect ==
  ASSUME BaseInv, SkipCandidate
  PROVE  /\ RoundEffect /\ UNCHANGED <<newTrades, spent, mem>> /\ pc' = "scan"
<1>1. KeptMem
  BY SameKept DEF SkipCandidate, tx, BaseInv
<1>2. i' \in Nat /\ j' \in Nat /\ i' >= 1 /\ j' >= 1
  BY DEF SkipCandidate, NextSell, NextBuy, BaseInv, TypeOK, RoundInv
<1> QED BY <1>1, <1>2 DEF SkipCandidate, RoundEffect, BaseInv, TypeOK, RoundInv, NoOverdraft,
                          tx, memory

LEMMA ValidateFacts ==
  ASSUME BaseInv, NEW o \in Orders, mem[o].status = "active",
         wallet' = [wallet EXCEPT ![o] = IF wallet[o] = None THEN DbBalance(o) ELSE wallet[o]],
         \/ validated' = validated \cup {o} /\ UNCHANGED mem
         \/ validated' = validated /\ mem' = Canceled(mem, {o})
  PROVE  /\ KeptMem /\ \A q \in Orders : mem'[q].matched = mem[q].matched
         /\ validated' \subseteq Orders /\ wallet' \in [Orders -> Nat \cup {None}]
         /\ \A q \in validated' : wallet'[q] \in Nat
         /\ UNCHANGED mem \/ mem'[o].status = "canceled"
<1>0. TypeOK /\ RowsInv /\ NoOverdraft
  BY DEF BaseInv
<1>1. /\ wallet \in [Orders -> Nat \cup {None}] /\ validated \subseteq Orders
      /\ \A q \in validated : wallet[q] \in Nat
  BY DEF BaseInv, TypeOK, RoundInv
<1>2. DbBalance(o) \in Nat
  BY <1>0, WalletFacts
<1>3. wallet'[o] \in Nat /\ \A q \in Orders \ {o} : wallet'[q] = wallet[q]
  BY <1>1, <1>2
<1>4. wallet' \in [Orders -> Nat \cup {None}]
  BY <1>1, <1>2
<1>5. validated' \subseteq Orders /\ \A q \in validated' : wallet'[q] \in Nat
  BY <1>1, <1>3
<1>6. CASE UNCHANGED mem
  BY <1>0, <1>4, <1>5, <1>6, SameKept
<1>7. CASE mem' = Canceled(mem, {o})
  <2>1. /\ KeptMem /\ \A q \in Orders \cap {o} : mem'[q].status = "canceled"
        /\ \A q \in Orders : mem'[q].matched = mem[q].matched
    BY <1>0, <1>7, CancelKept
  <2> QED BY <1>4, <1>5, <2>1
<1> QED BY <1>6, <1>7

\* A candidate is validated, or it is canceled and the scan goes on.
LEMMA ValidateEffect ==
  ASSUME BaseInv, Validate
  PROVE  /\ RoundEffect /\ UNCHANGED <<newTrades, spent>> /\ pc' = "scan"
         /\ \A o \in Orders : mem'[o].matched = mem[o].matched
         /\ Candidates
         /\ \/ UNCHANGED <<mem, i, j>>
            \/ NextBuy /\ mem'[buy].status = "canceled"
            \/ NextSell /\ mem'[sell].status = "canceled"
<1>0. /\ i \in Nat /\ j \in Nat /\ i >= 1 /\ j >= 1
  BY DEF BaseInv, TypeOK, RoundInv
<1>1. CASE Verdict = "validateBuy" /\ ValidateOrder(buy, NextBuy)
  <2>1. Candidates /\ buy \in Orders /\ mem[buy].status = "active"
    BY <1>1, VerdictFacts DEF Candidates, InBook, Alive
  <2>2. /\ wallet' = [wallet EXCEPT ![buy] = IF wallet[buy] = None THEN DbBalance(buy)
                                                                ELSE wallet[buy]]
        /\ \/ validated' = validated \cup {buy} /\ UNCHANGED <<mem, i, j>>
           \/ validated' = validated /\ mem' = Canceled(mem, {buy}) /\ NextBuy
        /\ UNCHANGED <<users, trades, memory, pc, lists, queue, last, time, spent,
                       newTrades, skipped>>
    BY <1>1 DEF ValidateOrder
  <2>3. /\ KeptMem /\ \A q \in Orders : mem'[q].matched = mem[q].matched
        /\ validated' \subseteq Orders /\ wallet' \in [Orders -> Nat \cup {None}]
        /\ \A q \in validated' : wallet'[q] \in Nat
    BY <2>1, <2>2, ValidateFacts
  <2>4. i' \in Nat /\ j' \in Nat /\ i' >= 1 /\ j' >= 1
    BY <1>0, <2>2 DEF NextBuy
  <2>5. pc' = "scan"
    BY <2>2 DEF Validate
  <2>6. RoundEffect
    BY <2>2, <2>3, <2>4, <2>5 DEF RoundEffect, BaseInv, TypeOK, NoOverdraft, memory
  <2>7. UNCHANGED <<mem, i, j>> \/ (NextBuy /\ mem'[buy].status = "canceled")
    <3>1. CASE mem' = Canceled(mem, {buy}) /\ NextBuy
      <4>1. mem'[buy] = [mem[buy] EXCEPT !.status = "canceled"] /\ mem[buy] \in Rows
        BY <2>1, <3>1 DEF Canceled, BaseInv, TypeOK
      <4> QED BY <3>1, <4>1 DEF Rows
    <3> QED BY <2>2, <3>1
  <2> QED BY <2>1, <2>2, <2>3, <2>5, <2>6, <2>7
<1>2. CASE Verdict = "validateSell" /\ ValidateOrder(sell, NextSell)
  <2>1. Candidates /\ sell \in Orders /\ mem[sell].status = "active"
    BY <1>2, VerdictFacts DEF Candidates, InBook, Alive
  <2>2. /\ wallet' = [wallet EXCEPT ![sell] = IF wallet[sell] = None THEN DbBalance(sell)
                                                                ELSE wallet[sell]]
        /\ \/ validated' = validated \cup {sell} /\ UNCHANGED <<mem, i, j>>
           \/ validated' = validated /\ mem' = Canceled(mem, {sell}) /\ NextSell
        /\ UNCHANGED <<users, trades, memory, pc, lists, queue, last, time, spent,
                       newTrades, skipped>>
    BY <1>2 DEF ValidateOrder
  <2>3. /\ KeptMem /\ \A q \in Orders : mem'[q].matched = mem[q].matched
        /\ validated' \subseteq Orders /\ wallet' \in [Orders -> Nat \cup {None}]
        /\ \A q \in validated' : wallet'[q] \in Nat
    BY <2>1, <2>2, ValidateFacts
  <2>4. i' \in Nat /\ j' \in Nat /\ i' >= 1 /\ j' >= 1
    BY <1>0, <2>2 DEF NextSell
  <2>5. pc' = "scan"
    BY <2>2 DEF Validate
  <2>6. RoundEffect
    BY <2>2, <2>3, <2>4, <2>5 DEF RoundEffect, BaseInv, TypeOK, NoOverdraft, memory
  <2>7. UNCHANGED <<mem, i, j>> \/ (NextSell /\ mem'[sell].status = "canceled")
    <3>1. CASE mem' = Canceled(mem, {sell}) /\ NextSell
      <4>1. mem'[sell] = [mem[sell] EXCEPT !.status = "canceled"] /\ mem[sell] \in Rows
        BY <2>1, <3>1 DEF Canceled, BaseInv, TypeOK
      <4> QED BY <3>1, <4>1 DEF Rows
    <3> QED BY <2>2, <3>1
  <2> QED BY <2>1, <2>2, <2>3, <2>5, <2>6, <2>7
<1> QED BY <1>1, <1>2 DEF Validate

\* The pair is noted as tried.
LEMMA RejectEffect ==
  ASSUME BaseInv, RejectMatch
  PROVE  /\ RoundEffect /\ UNCHANGED <<newTrades, spent>> /\ pc' = "scan"
         /\ \A o \in Orders : mem'[o].matched = mem[o].matched
         /\ NextBuy /\ <<sell, buy>> \in skipped'
<1>1. Verdict = "match" /\ Candidates
  BY VerdictFacts DEF RejectMatch
<1>2. sell \in Orders /\ buy \in Orders /\ mem[sell].status = "active" /\ mem[buy].status = "active"
  BY <1>1 DEF Candidates, InBook, Alive
<1>3. Unmatchable(sell, buy) \subseteq {sell, buy}
  BY DEF Unmatchable, UnexpectedFor
<1>4. KeptMem /\ \A o \in Orders : mem'[o].matched = mem[o].matched
  BY <1>2, <1>3, CancelKept DEF RejectMatch, BaseInv
<1>5. /\ skipped' = skipped \cup {<<sell, buy>>} /\ NextBuy
      /\ UNCHANGED <<users, trades, memory, pc, lists, queue, last, time, validated,
                     wallet, spent, newTrades>>
      /\ pc' = "scan"
  BY DEF RejectMatch
<1>6. i' \in Nat /\ j' \in Nat /\ i' >= 1 /\ j' >= 1
  BY <1>5 DEF NextBuy, BaseInv, TypeOK, RoundInv
<1>7. skipped' \subseteq Orders \X Orders
  BY <1>2, <1>5 DEF BaseInv, TypeOK
<1>8. RoundEffect
  BY <1>4, <1>5, <1>6, <1>7 DEF RoundEffect, BaseInv, TypeOK, NoOverdraft, RoundInv, memory
<1> QED BY <1>4, <1>5, <1>8

LEMMA FailedEffect ==
  ASSUME BaseInv, FailedMatch
  PROVE  /\ RoundEffect /\ UNCHANGED <<newTrades, spent, mem>> /\ pc' = "scan"
         /\ NextBuy /\ <<sell, buy>> \in skipped'
<1>1. /\ Verdict = "match" /\ Candidates /\ sell \in validated /\ buy \in validated
      /\ Unmatchable(sell, buy) = {}
  BY VerdictFacts DEF FailedMatch
<1>2. sell \in Orders /\ buy \in Orders
  BY <1>1 DEF Candidates, InBook
<1>3. /\ skipped' = skipped \cup {<<sell, buy>>} /\ NextBuy
      /\ UNCHANGED <<users, trades, memory, pc, lists, queue, last, time, mem,
                     validated, spent, newTrades>>
      /\ pc' = "scan"
  BY DEF FailedMatch
<1>4. i' \in Nat /\ j' \in Nat /\ i' >= 1 /\ j' >= 1
  BY <1>3 DEF NextBuy, BaseInv, TypeOK, RoundInv
<1>5. skipped' \subseteq Orders \X Orders
  BY <1>2, <1>3 DEF BaseInv, TypeOK
<1>6. KeptMem
  BY <1>3, SameKept DEF BaseInv
<1>7. \/ UNCHANGED wallet
      \/ \E x \in Nat : wallet' = [wallet EXCEPT ![sell] = x]
  <2>1. DbBalance(sell) \in Nat /\ MatchedAmount(sell, buy) \in Nat
    BY <1>1, <1>2, MatchFacts, WalletFacts DEF BaseInv
  <2>2. DbBalance(sell) >= MatchedAmount(sell, buy) =>
          DbBalance(sell) - MatchedAmount(sell, buy) \in Nat
    BY <2>1
  <2> QED BY <2>2 DEF FailedMatch
<1>8. /\ wallet' \in [Orders -> Nat \cup {None}]
      /\ \A o \in validated' : wallet'[o] \in Nat
  BY <1>2, <1>3, <1>7 DEF BaseInv, TypeOK, RoundInv
<1>9. RoundEffect
  BY <1>3, <1>4, <1>5, <1>6, <1>8 DEF RoundEffect, BaseInv, TypeOK, NoOverdraft, memory
<1> QED BY <1>3, <1>9

LEMMA LeastNatural ==
  ASSUME NEW S, S \subseteq Nat, S # {} PROVE Min(S) \in S
<1>1. PICK x \in S : \A y \in S : ~ (<<y, x>> \in OpToRel(<, Nat))
  BY NatLessThanWellFounded, WFMin
<1>2. \A y \in S : ~ (y < x)
  BY <1>1 DEF OpToRel
<1>3. \A y \in S : x <= y
  BY <1>2
<1> QED BY <1>3 DEF Min

LEMMA BestPriceType ==
  ASSUME TypeOK, RowsInv, NEW list, Len(list) \in Nat,
         \A k \in 1..Len(list) : InBook(list[k]), NEW d
  PROVE  BestPrice(list, d) \in Prices \cup {d}
<1> DEFINE I == {k \in 1..Len(list) : /\ mem[list[k]].status = "active"
                                      /\ ~ IsMarket(list[k]) /\ mem[list[k]].born <= time}
           best == IF I # {} THEN Min(I) ELSE 0
<1>1. BestPrice(list, d) = IF best = 0 THEN d ELSE mem[list[best]].price
  BY DEF BestPrice, SelectInSeq
<1>2. I \subseteq Nat /\ I \subseteq 1..Len(list)
  OBVIOUS
<1>3. CASE I = {}
  BY <1>1, <1>3
<1>4. CASE I # {}
  <2>1. Min(I) \in 1..Len(list)
    BY <1>2, <1>4, LeastNatural
  <2>2. mem[list[Min(I)]].price \in Prices
    BY <2>1, OpenFacts DEF InBook
  <2> QED BY <1>1, <1>4, <2>1, <2>2
<1> QED BY <1>3, <1>4

LEMMA FinishEffect ==
  ASSUME BaseInv, FinishMatching
  PROVE  /\ RoundEffect /\ UNCHANGED <<newTrades, spent, mem, i, j, skipped>>
         /\ pc = "finish" /\ pc' = "commit"
<1>1. /\ UNCHANGED <<users, trades, lists, queue, scan, time, tx>>
      /\ pc = "finish" /\ pc' = "commit"
  BY DEF FinishMatching
<1>2. KeptMem
  BY <1>1, SameKept DEF BaseInv, tx
<1>3. lastTime' \in Nat
  BY DEF FinishMatching, BaseInv, TypeOK
<1>4. Len(sells) \in Nat /\ Len(buys) \in Nat
  BY DEF BaseInv, TypeOK
<1>5. BestPrice(sells, 0) \in Prices \cup {0}
  BY <1>4, BestPriceType DEF BaseInv, BookInv
<1>6. BestPrice(buys, Infinity) \in Prices \cup {Infinity}
  BY <1>4, BestPriceType DEF BaseInv, BookInv
<1>7. lastBest' \in [sell : Prices \cup {0}, buy : Prices \cup {Infinity}]
  BY <1>5, <1>6 DEF FinishMatching
<1> QED BY <1>1, <1>2, <1>3, <1>7 DEF RoundEffect, BaseInv, TypeOK, NoOverdraft, RoundInv, tx, scan

\* A trade of a units at price p between the two candidates
Deal(a, p) ==
  /\ a \in Nat \ {0} /\ p \in Prices /\ p = MatchedPrice(sell, buy)
  /\ UnexpectedFor(sell, buy) = {} /\ ~ Traded(sell, buy)
  /\ newTrades' = newTrades \cup {[sell |-> sell, buy |-> buy, price |-> p, amount |-> a]}
  /\ mem'[sell].matched = mem[sell].matched + a
  /\ mem'[buy].matched = mem[buy].matched + a
  /\ \A o \in Orders \ {sell, buy} : mem'[o] = mem[o]
  /\ spent'[Owner[sell]]["src"] = spent[Owner[sell]]["src"] + a
  /\ spent'[Owner[buy]]["dst"] = spent[Owner[buy]]["dst"] + a * p
  /\ \A u \in Users : u # Owner[sell] => spent'[u]["src"] = spent[u]["src"]
  /\ \A u \in Users : u # Owner[buy] => spent'[u]["dst"] = spent[u]["dst"]

LEMMA FilledFacts ==
  ASSUME TypeOK, RowsInv, NEW o \in Orders, mem[o].status = "active",
         NEW a \in Nat \ {0}, a <= Unmatched(o)
  PROVE  /\ Filled(o, a) \in Rows /\ RowOK(Filled(o, a))
         /\ Filled(o, a).price = mem[o].price /\ Filled(o, a).amount = mem[o].amount
         /\ Filled(o, a).born = mem[o].born /\ Filled(o, a).matched = mem[o].matched + a
         /\ Filled(o, a).matched >= mem[o].matched
         /\ Filled(o, a).status \in {"active", "done"}
<1>1. /\ mem[o] \in Rows /\ mem[o].matched \in Nat /\ mem[o].amount \in Nat
      /\ mem[o].price \in Prices /\ mem[o].amount \in Amounts
  BY OpenFacts DEF TypeOK, Unseen
<1>2. mem[o].matched + a <= mem[o].amount
  BY <1>1 DEF Unmatched
<1>3. PICK st : /\ st = IF mem[o].matched + a = mem[o].amount THEN "done" ELSE mem[o].status
                /\ st \in {"active", "done"}
  BY <1>1
<1>4. Filled(o, a) = [mem[o] EXCEPT !.matched = mem[o].matched + a, !.status = st]
  BY <1>3 DEF Filled
<1>5. /\ Filled(o, a) \in Rows /\ Filled(o, a).price = mem[o].price
      /\ Filled(o, a).amount = mem[o].amount /\ Filled(o, a).born = mem[o].born
      /\ Filled(o, a).matched = mem[o].matched + a /\ Filled(o, a).status = st
  <2>1. PICK n \in Nat : n = mem[o].matched + a
    BY <1>1
  <2>2. PICK r : r = mem[o] /\ r \in Rows
    BY <1>1
  <2>3. Filled(o, a) = [r EXCEPT !.matched = n, !.status = st]
    BY <1>4, <2>1, <2>2
  <2>4. /\ Filled(o, a) \in Rows /\ Filled(o, a).price = r.price
        /\ Filled(o, a).amount = r.amount /\ Filled(o, a).born = r.born
        /\ Filled(o, a).matched = n /\ Filled(o, a).status = st
    BY <1>3, <2>2, <2>3 DEF Rows
  <2> QED BY <2>1, <2>2, <2>4
<1>6. RowOK(Filled(o, a))
  BY <1>1, <1>2, <1>3, <1>5 DEF RowOK, Unseen
<1> QED BY <1>1, <1>3, <1>5, <1>6

LEMMA MatchEffect ==
  ASSUME BaseInv, MatchTwoOrders
  PROVE  RoundEffect /\ pc' = "scan" /\ NextBuy /\ Candidates /\ \E a, p : Deal(a, p)
<1>0. TypeOK /\ RowsInv /\ NoOverdraft
  BY DEF BaseInv
<1>1. /\ Verdict = "match" /\ Candidates /\ sell \in validated /\ buy \in validated
      /\ Unmatchable(sell, buy) = {}
  BY VerdictFacts DEF MatchTwoOrders
<1>2. /\ sell \in Orders /\ buy \in Orders /\ IsSell(sell) /\ ~ IsSell(buy) /\ sell # buy
      /\ mem[sell].status = "active" /\ mem[buy].status = "active"
  BY <1>1 DEF Candidates, InBook, Alive
<1>3. PICK a \in Nat \ {0}, p \in Prices :
        /\ a = MatchedAmount(sell, buy) /\ p = MatchedPrice(sell, buy)
        /\ a <= Unmatched(sell) /\ a <= Unmatched(buy) /\ UnexpectedFor(sell, buy) = {}
  BY <1>1, MatchFacts
<1>4. /\ ~ Traded(sell, buy)
      /\ DbBalance(sell) >= a /\ DbBalance(buy) >= a * p
      /\ newTrades' = newTrades \cup {[sell |-> sell, buy |-> buy, price |-> p, amount |-> a]}
      /\ spent' = [spent EXCEPT ![Owner[sell]]["src"] = @ + a,
                                ![Owner[buy]]["dst"] = @ + a * p]
      /\ wallet' = [wallet EXCEPT ![sell] = DbBalance(sell) - a,
                                  ![buy] = DbBalance(buy) - a * p]
      /\ mem' = [mem EXCEPT ![sell] = Filled(sell, a), ![buy] = Filled(buy, a)]
      /\ NextBuy /\ pc' = "scan"
      /\ UNCHANGED <<users, trades, memory, pc, lists, queue, last, time,
                     validated, skipped>>
  BY <1>3 DEF MatchTwoOrders
<1>5. p \in Nat \ {0} /\ a * p \in Nat
  BY MatchRoundAssumption
<1>6. /\ Filled(sell, a) \in Rows /\ RowOK(Filled(sell, a))
      /\ Filled(sell, a).price = mem[sell].price /\ Filled(sell, a).amount = mem[sell].amount
      /\ Filled(sell, a).born = mem[sell].born
      /\ Filled(sell, a).matched = mem[sell].matched + a
      /\ Filled(sell, a).matched >= mem[sell].matched
      /\ Filled(sell, a).status \in {"active", "done"}
  BY <1>0, <1>2, <1>3, FilledFacts
<1>7. /\ Filled(buy, a) \in Rows /\ RowOK(Filled(buy, a))
      /\ Filled(buy, a).price = mem[buy].price /\ Filled(buy, a).amount = mem[buy].amount
      /\ Filled(buy, a).born = mem[buy].born
      /\ Filled(buy, a).matched = mem[buy].matched + a
      /\ Filled(buy, a).matched >= mem[buy].matched
      /\ Filled(buy, a).status \in {"active", "done"}
  BY <1>0, <1>2, <1>3, FilledFacts
<1>8. /\ mem'[sell] = Filled(sell, a) /\ mem'[buy] = Filled(buy, a)
      /\ \A o \in Orders \ {sell, buy} : mem'[o] = mem[o]
      /\ mem' \in [Orders -> Rows]
  BY <1>0, <1>2, <1>4, <1>6, <1>7 DEF TypeOK
<1>9. KeptMem
  <2>1. \A o \in Orders : RowOK(mem'[o])
    BY <1>0, <1>6, <1>7, <1>8 DEF RowsInv
  <2>2. ASSUME NEW o \in Orders
        PROVE  /\ mem'[o].price = mem[o].price /\ mem'[o].amount = mem[o].amount
               /\ mem'[o].born = mem[o].born
               /\ \/ mem'[o].status = mem[o].status
                  \/ mem[o].status = "active" /\ mem'[o].status \in {"done", "canceled"}
               /\ mem'[o].matched >= mem[o].matched
    <3>1. CASE o = sell
      BY <1>2, <1>6, <1>8, <3>1
    <3>2. CASE o = buy
      BY <1>2, <1>7, <1>8, <3>2
    <3>3. CASE o \notin {sell, buy}
      <4>1. mem'[o] = mem[o] /\ mem[o].matched \in Nat
        BY <1>0, <1>8, <3>3 DEF TypeOK, Rows
      <4> QED BY <4>1
    <3> QED BY <3>1, <3>2, <3>3
  <2> QED BY <1>8, <2>1, <2>2 DEF KeptMem, Kept
<1>10. /\ Owner[sell] \in Users /\ Owner[buy] \in Users
       /\ PaysIn(sell) = "src" /\ PaysIn(buy) = "dst"
       /\ DbBalance(sell) \in Nat /\ DbBalance(buy) \in Nat
  BY <1>0, <1>2, WalletFacts
<1>11. /\ wallet' \in [Orders -> Nat \cup {None}]
       /\ \A o \in validated' : wallet'[o] \in Nat
  <2>1. DbBalance(sell) - a \in Nat /\ DbBalance(buy) - a * p \in Nat
    BY <1>4, <1>5, <1>10
  <2> QED BY <1>2, <1>4, <2>1 DEF BaseInv, TypeOK, RoundInv
<1>12. "src" \in Currencies /\ "dst" \in Currencies /\ \A c \in Currencies : c = "src" \/ c = "dst"
  BY DEF Currencies
<1>13. PICK x, y : /\ x \in Nat /\ x = spent[Owner[sell]]["src"] + a
                   /\ y \in Nat /\ y = spent[Owner[buy]]["dst"] + a * p
  <2>1. \A u \in Users, c \in Currencies : spent[u][c] \in Nat
    BY <1>0 DEF TypeOK, Wallets
  <2> QED BY <1>5, <1>10, <1>12, <2>1
<1>14. /\ Put(spent, Owner[sell], "src", x) \in Wallets
       /\ Put(spent, Owner[sell], "src", x)[Owner[sell]]["src"] = x
       /\ \A u \in Users, c \in Currencies : u # Owner[sell] \/ c # "src" =>
            Put(spent, Owner[sell], "src", x)[u][c] = spent[u][c]
  <2>1. spent \in Wallets
    BY <1>0 DEF TypeOK
  <2>2. PICK u, c : /\ u = Owner[sell] /\ u \in Users
                    /\ c = "src" /\ c \in Currencies /\ x \in Nat
    BY <1>10, <1>12, <1>13
  <2>3. /\ Put(spent, u, c, x) \in Wallets /\ Put(spent, u, c, x)[u][c] = x
        /\ \A v \in Users, d \in Currencies :
             v # u \/ d # c => Put(spent, u, c, x)[v][d] = spent[v][d]
    BY <2>1, <2>2, WalletUpdate
  <2> QED BY <2>2, <2>3
<1>15. PICK w : w = Put(spent, Owner[sell], "src", x)
  OBVIOUS
<1>16. /\ Put(w, Owner[buy], "dst", y) \in Wallets
       /\ Put(w, Owner[buy], "dst", y)[Owner[buy]]["dst"] = y
       /\ \A u \in Users, c \in Currencies : u # Owner[buy] \/ c # "dst" =>
            Put(w, Owner[buy], "dst", y)[u][c] = w[u][c]
  <2>1. w \in Wallets
    BY <1>14, <1>15
  <2>2. PICK u, c : /\ u = Owner[buy] /\ u \in Users
                    /\ c = "dst" /\ c \in Currencies /\ y \in Nat
    BY <1>10, <1>12, <1>13
  <2>3. /\ Put(w, u, c, y) \in Wallets /\ Put(w, u, c, y)[u][c] = y
        /\ \A v \in Users, d \in Currencies :
             v # u \/ d # c => Put(w, u, c, y)[v][d] = w[v][d]
    BY <2>1, <2>2, WalletUpdate
  <2> QED BY <2>2, <2>3
<1>17. spent' = Put(w, Owner[buy], "dst", y)
  <2>1. w = [spent EXCEPT ![Owner[sell]]["src"] = @ + a]
    BY <1>13, <1>15 DEF Put
  <2>2. spent' = [w EXCEPT ![Owner[buy]]["dst"] = @ + a * p]
    BY <1>4, <2>1
  <2>3. w[Owner[buy]]["dst"] = spent[Owner[buy]]["dst"]
    BY <1>10, <1>12, <1>14, <1>15
  <2> QED BY <1>13, <2>2, <2>3 DEF Put
<1>18. /\ spent' \in Wallets
       /\ spent'[Owner[sell]]["src"] = spent[Owner[sell]]["src"] + a
       /\ spent'[Owner[buy]]["dst"] = spent[Owner[buy]]["dst"] + a * p
       /\ \A u \in Users : u # Owner[sell] => spent'[u]["src"] = spent[u]["src"]
       /\ \A u \in Users : u # Owner[buy] => spent'[u]["dst"] = spent[u]["dst"]
  <2>1. "src" # "dst"
    OBVIOUS
  <2>2. /\ spent' \in Wallets /\ spent'[Owner[buy]]["dst"] = y
        /\ \A u \in Users, c \in Currencies : u # Owner[buy] \/ c # "dst" =>
             spent'[u][c] = w[u][c]
    BY <1>16, <1>17
  <2>3. /\ w[Owner[sell]]["src"] = x
        /\ \A u \in Users, c \in Currencies : u # Owner[sell] \/ c # "src" =>
             w[u][c] = spent[u][c]
    BY <1>14, <1>15
  <2>4. \A u \in Users : spent'[u]["src"] = w[u]["src"]
    BY <1>12, <2>1, <2>2
  <2>5. \A u \in Users : w[u]["dst"] = spent[u]["dst"]
    BY <1>12, <2>1, <2>3
  <2>6. spent'[Owner[sell]]["src"] = spent[Owner[sell]]["src"] + a
    BY <1>10, <1>13, <2>3, <2>4
  <2>7. \A u \in Users : u # Owner[sell] => spent'[u]["src"] = spent[u]["src"]
    BY <1>12, <2>3, <2>4
  <2>8. \A u \in Users : u # Owner[buy] => spent'[u]["dst"] = spent[u]["dst"]
    BY <1>12, <2>2, <2>5
  <2> QED BY <1>13, <2>2, <2>6, <2>7, <2>8
<1>19. \A u \in Users, c \in Currencies : bal[u][c] >= spent'[u][c]
  <2>1. bal[Owner[sell]]["src"] - spent[Owner[sell]]["src"] >= a
    BY <1>4, <1>10 DEF DbBalance
  <2>2. bal[Owner[buy]]["dst"] - spent[Owner[buy]]["dst"] >= a * p
    BY <1>4, <1>10 DEF DbBalance
  <2>3. \A u \in Users, c \in Currencies : bal[u][c] \in Nat /\ spent[u][c] \in Nat
    BY <1>0 DEF TypeOK, Wallets
  <2>4. bal[Owner[sell]]["src"] >= spent'[Owner[sell]]["src"]
    BY <1>10, <1>12, <1>18, <2>1, <2>3
  <2>5. bal[Owner[buy]]["dst"] >= spent'[Owner[buy]]["dst"]
    BY <1>5, <1>10, <1>12, <1>18, <2>2, <2>3
  <2> QED BY <1>0, <1>12, <1>18, <2>4, <2>5 DEF NoOverdraft
<1>20. newTrades' \subseteq Trades
  BY <1>0, <1>2, <1>4 DEF TypeOK, Trades
<1>21. i' \in Nat /\ j' \in Nat /\ i' >= 1 /\ j' >= 1
  BY <1>4 DEF NextBuy, BaseInv, TypeOK, RoundInv
<1>22. RoundEffect
  BY <1>0, <1>4, <1>9, <1>11, <1>18, <1>19, <1>20, <1>21 DEF RoundEffect, TypeOK, memory
<1>23. Deal(a, p)
  BY <1>3, <1>4, <1>6, <1>7, <1>8, <1>18 DEF Deal
<1> QED BY <1>1, <1>4, <1>22, <1>23

-----------------------------------------------------------------------------
(* The round agrees with the committed rows: BaseInv *)

LEMMA UserKeepsBase ==
  ASSUME BaseInv, UserEffect PROVE BaseInv'
<1>0. /\ TypeOK /\ RowsInv /\ Snapshot /\ BookInv /\ QueueInv /\ RoundInv /\ NoOverdraft
  BY DEF BaseInv
<1>1. /\ UNCHANGED <<trades, lastTime, lastBest, pc, sells, buys, queue, last, i, j, time, mem,
                     validated, wallet, spent, newTrades, skipped>>
  BY DEF UserEffect, memory, lists, scan, tx
<1>2. \A o \in Orders : ord[o].status \notin Unseen => ord'[o] = ord[o]
  BY DEF UserEffect
<1>3. TypeOK'
  BY <1>0, <1>1 DEF UserEffect, TypeOK
<1>4. RowsInv'
  BY <1>0, <1>1 DEF UserEffect, RowsInv, RowOK
<1>5. Snapshot'
  BY <1>0, <1>1, <1>2 DEF Snapshot, SameOrder
<1>6. \A o : InBook(o) => InBook(o)' /\ ord'[o] = ord[o]
  BY <1>1, <1>2 DEF InBook, Unseen
<1>7. BookInv'
  <2>1. /\ \A k \in 1..Len(sells) : InBook(sells[k])' /\ ord'[sells[k]] = ord[sells[k]]
        /\ \A k \in 1..Len(buys) : InBook(buys[k])' /\ ord'[buys[k]] = ord[buys[k]]
    BY <1>0, <1>1, <1>6 DEF BookInv
  <2>2. /\ \A k, l \in 1..Len(sells) : k < l => Better(sells[k], sells[l])'
        /\ \A k, l \in 1..Len(buys) : k < l => Better(buys[k], buys[l])'
    BY SMTT(30), <1>0, <1>1, <2>1 DEF BookInv, Better
  <2> QED BY <1>0, <1>1, <2>1, <2>2 DEF BookInv
<1>8. QueueInv'
  <2>1. /\ \A k \in 1..Len(queue) : InBook(queue[k])' /\ ord'[queue[k]] = ord[queue[k]]
        /\ last # None => InBook(last)' /\ ord'[last] = ord[last]
    BY <1>0, <1>1, <1>6 DEF QueueInv
  <2>2. /\ \A k, l \in 1..Len(queue) : k < l => Older(queue[k], queue[l])'
        /\ last # None => \A k \in 1..Len(queue) : Older(last, queue[k])'
    BY <1>0, <1>1, <2>1 DEF QueueInv, Older
  <2> QED BY <1>0, <1>1, <2>1, <2>2 DEF QueueInv
<1>9. RoundInv'
  BY <1>0, <1>1 DEF RoundInv
<1>10. NoOverdraft'
  BY <1>1 DEF UserEffect, NoOverdraft
<1> QED BY <1>3, <1>4, <1>5, <1>7, <1>8, <1>9, <1>10 DEF BaseInv

LEMMA RoundKeepsBase ==
  ASSUME BaseInv, RoundEffect, pc \in {"scan", "finish"},
         \/ pc' = "scan" /\ pc = "scan"
         \/ pc' = "next" /\ last # None /\ MarketGone /\ pc = "scan"
         \/ pc' \in {"finish", "commit"}
  PROVE  BaseInv'
<1>0. /\ TypeOK /\ RowsInv /\ Snapshot /\ BookInv /\ QueueInv /\ RoundInv /\ NoOverdraft
  BY DEF BaseInv
<1>1. UNCHANGED <<ord, clock, bal, held, paid, trades, sells, buys, queue, last>>
  BY DEF RoundEffect, users, lists
<1>2. /\ mem' \in [Orders -> Rows] /\ \A o \in Orders : RowOK(mem'[o])
      /\ \A o \in Orders :
           /\ mem'[o].price = mem[o].price /\ mem'[o].amount = mem[o].amount
           /\ mem'[o].born = mem[o].born
           /\ mem'[o].status \in Unseen => mem[o].status \in Unseen
           /\ mem[o].status \in Unseen => mem'[o].status \in Unseen
           /\ mem'[o].status = "active" => mem[o].status = "active"
  BY DEF RoundEffect, KeptMem, Kept, Unseen
<1>3. TypeOK'
  BY <1>0, <1>1, <1>2 DEF RoundEffect, TypeOK
<1>4. RowsInv'
  BY <1>0, <1>1, <1>2 DEF RowsInv, RowOK
<1>5. Snapshot'
  BY <1>0, <1>1, <1>2 DEF Snapshot, SameOrder
<1>6. \A o : InBook(o) => InBook(o)'
  BY <1>1, <1>2 DEF InBook
<1>7. BookInv'
  <2>1. /\ \A k \in 1..Len(sells) : InBook(sells[k])'
        /\ \A k \in 1..Len(buys) : InBook(buys[k])'
    BY <1>0, <1>1, <1>6 DEF BookInv
  <2>2. /\ \A k, l \in 1..Len(sells) : k < l => Better(sells[k], sells[l])'
        /\ \A k, l \in 1..Len(buys) : k < l => Better(buys[k], buys[l])'
    BY <1>0, <1>1 DEF BookInv, Better
  <2> QED BY <1>0, <1>1, <1>2, <2>1, <2>2 DEF BookInv
<1>8. QueueInv'
  <2>1. /\ \A k \in 1..Len(queue) : InBook(queue[k])'
        /\ last # None => InBook(last)'
    BY <1>0, <1>1, <1>6 DEF QueueInv
  <2>2. /\ \A k, l \in 1..Len(queue) : k < l => Older(queue[k], queue[l])'
        /\ last # None => \A k \in 1..Len(queue) : Older(last, queue[k])'
    BY <1>0, <1>1 DEF QueueInv, Older
  <2>3. pc' = "scan" /\ last = None => queue = <<>>
    BY <1>0 DEF QueueInv
  <2>4. ASSUME pc' \in {"next", "scan"}, NEW o \in MarketOrders, mem'[o].status = "active"
        PROVE  (\E k \in 1..Len(queue) : queue[k] = o) \/ (pc' = "scan" /\ o = last)
    <3>1. o \in Orders /\ mem[o].status = "active" /\ pc = "scan"
      BY <1>2, <2>4, MatchRoundAssumption
    <3>2. (\E k \in 1..Len(queue) : queue[k] = o) \/ o = last
      BY <1>0, <3>1 DEF QueueInv
    <3>3. pc' = "next" => o # last
      BY <2>4, MatchRoundAssumption DEF MarketGone, IsMarket
    <3> QED BY <2>4, <3>2, <3>3
  <2> QED BY <1>1, <2>1, <2>2, <2>3, <2>4 DEF QueueInv
<1>9. RoundInv'
  BY DEF RoundEffect, RoundInv
<1>10. NoOverdraft'
  BY <1>1 DEF RoundEffect, NoOverdraft
<1> QED BY <1>3, <1>4, <1>5, <1>7, <1>8, <1>9, <1>10 DEF BaseInv

LEMMA ListFacts ==
  ASSUME NEW S, S \subseteq Orders, NEW f, f \in Bijection(1..Cardinality(S), S)
  PROVE  /\ f \in Seq(Orders) /\ DOMAIN f = 1..Len(f)
         /\ \A k \in 1..Len(f) : f[k] \in S
         /\ \A o \in S : \E k \in 1..Len(f) : f[k] = o
<1>1. IsFiniteSet(S) /\ Cardinality(S) \in Nat
  BY MatchRoundAssumption, FS_Subset, FS_CardinalityType
<1>2. /\ f \in [1..Cardinality(S) -> S]
      /\ \A o \in S : \E k \in 1..Cardinality(S) : f[k] = o
  BY DEF Bijection, Injection, Surjection
<1>3. f \in Seq(S) /\ Len(f) = Cardinality(S)
  BY <1>1, <1>2
<1>4. f \in [1..Cardinality(S) -> Orders]
  BY <1>2
<1>5. f \in Seq(Orders)
  BY <1>1, <1>4
<1> QED BY <1>2, <1>3, <1>5

LEMMA StartKeepsBase ==
  ASSUME BaseInv, StartRound PROVE BaseInv'
<1>0. TypeOK /\ RowsInv
  BY DEF BaseInv
<1> DEFINE found == {o \in Orders : ord[o].status = "active"}
           S == {o \in found : IsSell(o)}
           B == {o \in found : ~ IsSell(o)}
           Q == {o \in found : Important(o)}
<1>1. /\ UNCHANGED <<ord, clock, bal, held, paid, trades, lastTime, lastBest>>
      /\ mem' = ord /\ time' = lastTime /\ last' = None /\ i' = 1 /\ j' = 1
      /\ validated' = {} /\ wallet' = [o \in Orders |-> None] /\ spent' = NoSpent
      /\ newTrades' = {} /\ skipped' = {} /\ pc' = "next"
  BY DEF StartRound, users, memory
<1>2. /\ sells' \in Bijection(1..Cardinality(S), S)
      /\ \A m, n \in DOMAIN sells' : m < n => Better(sells'[m], sells'[n])
  BY DEF StartRound, ByPrice
<1>3. /\ buys' \in Bijection(1..Cardinality(B), B)
      /\ \A m, n \in DOMAIN buys' : m < n => Better(buys'[m], buys'[n])
  BY DEF StartRound, ByPrice
<1>4. /\ queue' \in Bijection(1..Cardinality(Q), Q)
      /\ \A m, n \in DOMAIN queue' : m < n => Older(queue'[m], queue'[n])
  BY DEF StartRound, ByAge
<1>5. S \subseteq Orders /\ B \subseteq Orders /\ Q \subseteq Orders
  OBVIOUS
<1>6. \A o \in found : InBook(o)'
  BY <1>1 DEF InBook, Unseen
<1>7. \A o \in found : /\ IsSell(o) => o \in S
                       /\ ~ IsSell(o) => o \in B
                       /\ IsMarket(o) => o \in Q
  BY DEF Important
<1>8. /\ \A o \in S : o \in found /\ IsSell(o)
      /\ \A o \in B : o \in found /\ ~ IsSell(o)
      /\ \A o \in Q : o \in found
      /\ \A o \in Orders : mem'[o].status = "active" => o \in found
  BY <1>1
<1> HIDE DEF S, B, Q, found
<1>9. /\ sells' \in Seq(Orders) /\ DOMAIN sells' = 1..Len(sells')
      /\ \A k \in 1..Len(sells') : sells'[k] \in S
      /\ \A o \in S : \E k \in 1..Len(sells') : sells'[k] = o
  BY <1>2, <1>5, ListFacts
<1>10. /\ buys' \in Seq(Orders) /\ DOMAIN buys' = 1..Len(buys')
       /\ \A k \in 1..Len(buys') : buys'[k] \in B
       /\ \A o \in B : \E k \in 1..Len(buys') : buys'[k] = o
  BY <1>3, <1>5, ListFacts
<1>11. /\ queue' \in Seq(Orders) /\ DOMAIN queue' = 1..Len(queue')
       /\ \A k \in 1..Len(queue') : queue'[k] \in Q
       /\ \A o \in Q : \E k \in 1..Len(queue') : queue'[k] = o
  BY <1>4, <1>5, ListFacts
<1>12. NoSpent \in Wallets /\ \A u \in Users, c \in Currencies : NoSpent[u][c] = 0
  BY DEF NoSpent, Wallets
<1>13. TypeOK'
  BY <1>0, <1>1, <1>9, <1>10, <1>11, <1>12 DEF TypeOK
<1>14. RowsInv'
  BY <1>0, <1>1 DEF RowsInv, RowOK
<1>15. Snapshot'
  BY <1>1 DEF Snapshot, SameOrder
<1>16. BookInv'
  <2>1. /\ \A k \in 1..Len(sells') : InBook(sells[k])' /\ IsSell(sells'[k])
        /\ \A k \in 1..Len(buys') : InBook(buys[k])' /\ ~ IsSell(buys'[k])
    BY <1>6, <1>8, <1>9, <1>10
  <2>2. /\ \A k, l \in 1..Len(sells') : k < l => Better(sells[k], sells[l])'
        /\ \A k, l \in 1..Len(buys') : k < l => Better(buys[k], buys[l])'
    BY ZenonT(30), <1>1, <1>2, <1>3, <1>9, <1>10 DEF Better
  <2>3. \A o \in Orders : mem'[o].status = "active" =>
          /\ IsSell(o) => \E k \in 1..Len(sells') : sells'[k] = o
          /\ ~ IsSell(o) => \E k \in 1..Len(buys') : buys'[k] = o
    BY <1>7, <1>8, <1>9, <1>10
  <2> QED BY <2>1, <2>2, <2>3 DEF BookInv, IsSell
<1>17. QueueInv'
  <2>1. \A k \in 1..Len(queue') : InBook(queue[k])'
    BY <1>6, <1>8, <1>11
  <2>2. \A k, l \in 1..Len(queue') : k < l => Older(queue[k], queue[l])'
    BY <1>1, <1>4, <1>11 DEF Older
  <2>3. \A o \in MarketOrders : mem'[o].status = "active" =>
          \E k \in 1..Len(queue') : queue'[k] = o
    BY <1>7, <1>8, <1>11, MatchRoundAssumption DEF IsMarket
  <2> QED BY <1>1, <2>1, <2>2, <2>3 DEF QueueInv
<1>18. RoundInv'
  BY <1>1 DEF RoundInv
<1>19. NoOverdraft'
  BY <1>0, <1>1, <1>12 DEF NoOverdraft, TypeOK, Wallets
<1> QED BY <1>13, <1>14, <1>15, <1>16, <1>17, <1>18, <1>19 DEF BaseInv

LEMMA NextOrderKeepsBase ==
  ASSUME BaseInv, NextOrder PROVE BaseInv'
<1>0. /\ TypeOK /\ RowsInv /\ Snapshot /\ BookInv /\ QueueInv /\ RoundInv /\ NoOverdraft
  BY DEF BaseInv
<1>1. /\ UNCHANGED <<ord, clock, bal, held, paid, trades, lastTime, lastBest, sells, buys, time,
                     mem, validated, wallet, spent, newTrades, skipped>>
      /\ i' = 1 /\ j' = 1 /\ pc' = "scan" /\ pc = "next"
  BY DEF NextOrder, users, memory, lists, tx
<1>2. RowsInv' /\ Snapshot' /\ NoOverdraft'
  BY <1>0, <1>1 DEF RowsInv, RowOK, Snapshot, SameOrder, NoOverdraft
<1>3. BookInv'
  BY <1>0, <1>1 DEF BookInv, InBook, Better
<1>4. RoundInv'
  BY <1>0, <1>1 DEF RoundInv
<1>5. CASE queue = <<>>
  <2>1. last' = None /\ queue' = queue
    BY <1>5 DEF NextOrder
  <2>2. TypeOK'
    BY <1>0, <1>1, <2>1 DEF TypeOK
  <2>3. QueueInv'
    BY <1>0, <1>1, <1>5, <2>1 DEF QueueInv, InBook, Older
  <2> QED BY <1>2, <1>3, <1>4, <2>2, <2>3 DEF BaseInv
<1>6. CASE queue # <<>>
  <2>1. last' = Head(queue) /\ queue' = Tail(queue) /\ queue \in Seq(Orders)
    BY <1>0, <1>6 DEF NextOrder, TypeOK
  <2>2. /\ queue' \in Seq(Orders) /\ Len(queue) \in Nat /\ Len(queue') = Len(queue) - 1
        /\ last' = queue[1] /\ 1 \in 1..Len(queue) /\ last' \in Orders
        /\ \A k \in 1..Len(queue') : queue'[k] = queue[k + 1] /\ k + 1 \in 1..Len(queue)
    BY <1>6, <2>1
  <2>3. TypeOK'
    BY <1>0, <1>1, <2>2 DEF TypeOK
  <2>4. InBook(last)' /\ \A k \in 1..Len(queue') : InBook(queue[k])'
    <3>1. \A k \in 1..Len(queue) : InBook(queue[k])
      BY <1>0 DEF QueueInv
    <3>2. \A o : InBook(o) => InBook(o)'
      BY <1>1 DEF InBook
    <3> QED BY <2>2, <3>1, <3>2
  <2>5. \A k, l \in 1..Len(queue') : k < l => Older(queue[k], queue[l])'
    <3>1. \A k, l \in 1..Len(queue) : k < l => Older(queue[k], queue[l])
      BY <1>0 DEF QueueInv
    <3>2. \A k, l \in 1..Len(queue') : k < l => Older(queue'[k], queue'[l])
      BY <2>2, <3>1
    <3> QED BY <1>1, <3>2 DEF Older
  <2>6. \A k \in 1..Len(queue') : Older(last, queue[k])'
    <3>1. \A k \in 1..Len(queue') : Older(last', queue'[k])
      <4>1. \A k, l \in 1..Len(queue) : k < l => Older(queue[k], queue[l])
        BY <1>0 DEF QueueInv
      <4> QED BY <2>2, <4>1
    <3> QED BY <1>1, <3>1 DEF Older
  <2>7. last' # None
    BY <2>2, MatchRoundAssumption
  <2>8. ASSUME NEW o \in MarketOrders, mem'[o].status = "active"
        PROVE  (\E k \in 1..Len(queue') : queue'[k] = o) \/ o = last'
    <3>1. PICK k \in 1..Len(queue) : queue[k] = o
      BY <1>0, <1>1, <2>8 DEF QueueInv
    <3>2. CASE k = 1
      BY <2>2, <3>1, <3>2
    <3>3. CASE k # 1
      <4>1. k - 1 \in 1..Len(queue') /\ queue'[k - 1] = o
        BY <2>2, <3>1, <3>3
      <4> QED BY <4>1
    <3> QED BY <3>2, <3>3
  <2>9. QueueInv'
    BY <1>1, <2>4, <2>5, <2>6, <2>7, <2>8 DEF QueueInv
  <2> QED BY <1>2, <1>3, <1>4, <2>3, <2>9 DEF BaseInv
<1> QED BY <1>5, <1>6

LEMMA RestartKeepsBase ==
  ASSUME BaseInv, Restart PROVE BaseInv'
<1>0. /\ TypeOK /\ RowsInv /\ Snapshot /\ BookInv /\ QueueInv /\ RoundInv /\ NoOverdraft
  BY DEF BaseInv
<1>1. /\ UNCHANGED <<ord, clock, bal, held, paid, trades, pc, sells, buys, queue, last, i, j, time,
                     mem, validated, wallet, spent, newTrades, skipped>>
      /\ lastTime' = 0 /\ lastBest' = NoBest
  BY DEF Restart, users, lists, scan, tx
<1>2. TypeOK'
  BY <1>0, <1>1 DEF TypeOK, NoBest
<1>3. RowsInv' /\ Snapshot' /\ NoOverdraft' /\ RoundInv'
  BY <1>0, <1>1 DEF RowsInv, RowOK, Snapshot, SameOrder, NoOverdraft, RoundInv
<1>4. BookInv'
  BY <1>0, <1>1 DEF BookInv, InBook, Better
<1>5. QueueInv'
  BY <1>0, <1>1 DEF QueueInv, InBook, Older
<1> QED BY <1>2, <1>3, <1>4, <1>5 DEF BaseInv

\* Nothing of a round is left.
NoRound ==
  /\ mem = NoOrders /\ sells = <<>> /\ buys = <<>> /\ queue = <<>>
  /\ last = None /\ i = 1 /\ j = 1 /\ time = 0
  /\ validated = {} /\ wallet = [o \in Orders |-> None]
  /\ spent = NoSpent /\ newTrades = {} /\ skipped = {} /\ pc = "idle"

RowsIdle ==
  /\ NoRound /\ ord \in [Orders -> Rows] /\ clock \in Nat /\ lastTime \in Nat
  /\ bal \in Wallets /\ held \in Wallets /\ paid \in Wallets /\ trades \subseteq Trades
  /\ lastBest \in [sell : Prices \cup {0}, buy : Prices \cup {Infinity}]
  /\ \A o \in Orders : RowOK(ord[o]) /\ ord[o].born <= clock
  /\ \A a, b \in Orders : ord[a].status # "absent" /\ ord[b].status # "absent"
                          /\ ord[a].born = ord[b].born => a = b

LEMMA IdleBase == RowsIdle => BaseInv
<1> SUFFICES ASSUME RowsIdle PROVE BaseInv
  OBVIOUS
<1> USE DEF RowsIdle
<1>1. /\ mem \in [Orders -> Rows]
      /\ \A o \in Orders : mem[o].status = "absent" /\ RowOK(mem[o])
  BY DEF NoRound, NoOrders, Rows, RowOK, Unseen
<1>2. spent \in Wallets /\ \A u \in Users, c \in Currencies : spent[u][c] = 0
  BY DEF NoRound, NoSpent, Wallets
<1>3. TypeOK
  BY <1>1, <1>2 DEF TypeOK, NoRound
<1>4. RowsInv
  BY <1>1 DEF RowsInv
<1>5. Snapshot
  BY <1>1 DEF Snapshot, Unseen
<1>6. BookInv
  BY <1>1 DEF BookInv, NoRound
<1>7. QueueInv
  BY DEF QueueInv, NoRound
<1>8. RoundInv
  BY DEF RoundInv, NoRound
<1>9. NoOverdraft
  BY <1>2 DEF NoOverdraft, Wallets
<1> QED BY <1>3, <1>4, <1>5, <1>6, <1>7, <1>8, <1>9 DEF BaseInv

\* A round ends by its COMMIT or its rollback.
LEMMA CommitKeepsBase ==
  ASSUME BaseInv, CommitRound
  PROVE  /\ BaseInv' /\ NoRound' /\ paid' = paid
         /\ \A o \in Orders : /\ mem[o].status \in Unseen => ord'[o] = ord[o]
                              /\ mem[o].status \notin Unseen => ord'[o] = mem[o]
         /\ \A u \in Users, c \in Currencies : bal'[u][c] = bal[u][c] - spent[u][c]
         /\ trades' = trades \cup newTrades
<1>0. /\ TypeOK /\ RowsInv /\ Snapshot /\ NoOverdraft
  BY DEF BaseInv
<1>1. NoRound' /\ UNCHANGED <<clock, held, paid, lastTime, lastBest>>
  BY DEF CommitRound, EndRound, NoRound, NoOrders, memory, NoSpent
<1>2. /\ ord' = [o \in Orders |-> IF mem[o].status \in Unseen THEN ord[o] ELSE mem[o]]
      /\ bal' = [u \in Users |-> [c \in Currencies |-> bal[u][c] - spent[u][c]]]
      /\ trades' = trades \cup newTrades
  BY DEF CommitRound, Unseen
<1>3. \A o \in Orders : /\ mem[o].status \in Unseen => ord'[o] = ord[o]
                        /\ mem[o].status \notin Unseen => ord'[o] = mem[o]
  BY <1>2
<1>4. ord' \in [Orders -> Rows]
  BY <1>0, <1>2 DEF TypeOK
<1>5. \A o \in Orders : /\ ord'[o].born = ord[o].born /\ RowOK(ord'[o])
                        /\ ord'[o].status # "absent" => ord[o].status # "absent"
  BY <1>0, <1>3 DEF Snapshot, SameOrder, RowsInv, Unseen
<1>6. \A u \in Users, c \in Currencies :
        bal'[u][c] = bal[u][c] - spent[u][c] /\ bal'[u][c] \in Nat
  BY <1>0, <1>2 DEF TypeOK, Wallets, NoOverdraft
<1>7. bal' \in Wallets
  BY <1>2, <1>6 DEF Wallets
<1>8. trades' \subseteq Trades
  BY <1>0, <1>2 DEF TypeOK
<1>9. /\ \A o \in Orders : RowOK(ord'[o]) /\ ord'[o].born <= clock'
      /\ \A a, b \in Orders : ord'[a].status # "absent" /\ ord'[b].status # "absent"
                              /\ ord'[a].born = ord'[b].born => a = b
  BY <1>0, <1>1, <1>5 DEF RowsInv
<1>10. /\ clock' \in Nat /\ lastTime' \in Nat /\ held' \in Wallets /\ paid' \in Wallets
       /\ lastBest' \in [sell : Prices \cup {0}, buy : Prices \cup {Infinity}]
  BY <1>0, <1>1 DEF TypeOK
<1>11. RowsIdle'
  BY <1>1, <1>4, <1>7, <1>8, <1>9, <1>10 DEF RowsIdle, RowOK
<1>12. BaseInv'
  BY <1>11, IdleBase, PTL
<1> QED BY <1>1, <1>2, <1>3, <1>6, <1>12

LEMMA FailKeepsBase ==
  ASSUME BaseInv, RoundFails
  PROVE  BaseInv' /\ NoRound' /\ UNCHANGED <<ord, bal, paid, trades>>
<1>1. NoRound' /\ UNCHANGED <<ord, clock, bal, held, paid, trades, lastTime, lastBest>>
  BY DEF RoundFails, EndRound, NoRound, NoOrders, memory, NoSpent
<1>2. TypeOK /\ RowsInv
  BY DEF BaseInv
<1>3. RowsIdle'
  BY <1>1, <1>2 DEF RowsIdle, TypeOK, RowsInv, RowOK
<1>4. BaseInv'
  BY <1>3, IdleBase, PTL
<1> QED BY <1>1, <1>4

LEMMA BaseInit == Init => BaseInv
<1> SUFFICES ASSUME Init PROVE BaseInv
  OBVIOUS
<1>1. NoRound
  BY DEF Init, NoRound
<1>2. /\ ord \in [Orders -> Rows]
      /\ \A o \in Orders : RowOK(ord[o]) /\ ord[o].born = 0 /\ ord[o].status = "absent"
  BY DEF Init, NoOrders, Rows, RowOK, Unseen
<1>3. bal \in Wallets /\ held \in Wallets /\ paid \in Wallets
  BY MatchRoundAssumption DEF Init, NoSpent, Wallets, Currencies
<1>4. lastBest \in [sell : Prices \cup {0}, buy : Prices \cup {Infinity}]
  BY DEF Init, NoBest
<1>5. clock = 0 /\ lastTime = 0 /\ trades = {}
  BY DEF Init
<1>6. RowsIdle
  BY <1>1, <1>2, <1>3, <1>4, <1>5 DEF RowsIdle
<1> QED BY <1>6, IdleBase

LEMMA BaseStep == BaseInv /\ [Next]_vars => BaseInv'
<1> SUFFICES ASSUME BaseInv, [Next]_vars PROVE BaseInv'
  OBVIOUS
<1>1. CASE UserStep
  BY <1>1, UserStepEffect, UserKeepsBase DEF BaseInv
<1>2. CASE StartRound
  BY <1>2, StartKeepsBase
<1>3. CASE NextOrder
  BY <1>3, NextOrderKeepsBase
<1>4. CASE SkipCandidate
  <2>1. pc = "scan"
    BY <1>4 DEF SkipCandidate
  <2> QED BY <1>4, <2>1, SkipEffect, RoundKeepsBase
<1>5. CASE ReturnFromScan
  <2>1. pc = "scan"
    BY <1>5 DEF ReturnFromScan
  <2> QED BY <1>5, <2>1, ReturnEffect, RoundKeepsBase
<1>6. CASE ForbiddenMatching
  <2>1. pc = "scan"
    BY <1>6 DEF ForbiddenMatching
  <2> QED BY <1>6, <2>1, ForbiddenEffect, RoundKeepsBase
<1>7. CASE Validate
  <2>1. pc = "scan"
    BY <1>7 DEF Validate
  <2> QED BY <1>7, <2>1, ValidateEffect, RoundKeepsBase
<1>8. CASE RejectMatch
  <2>1. pc = "scan"
    BY <1>8 DEF RejectMatch
  <2> QED BY <1>8, <2>1, RejectEffect, RoundKeepsBase
<1>9. CASE FailedMatch
  <2>1. pc = "scan"
    BY <1>9 DEF FailedMatch
  <2> QED BY <1>9, <2>1, FailedEffect, RoundKeepsBase
<1>10. CASE MatchTwoOrders
  <2>1. pc = "scan"
    BY <1>10 DEF MatchTwoOrders
  <2> QED BY <1>10, <2>1, MatchEffect, RoundKeepsBase
<1>11. CASE FinishMatching
  BY <1>11, FinishEffect, RoundKeepsBase
<1>12. CASE CommitRound
  BY <1>12, CommitKeepsBase
<1>13. CASE RoundFails
  BY <1>13, FailKeepsBase
<1>14. CASE Restart
  BY <1>14, RestartKeepsBase
<1>15. CASE UNCHANGED vars
  <2>1. UNCHANGED <<ord, clock, bal, held, paid, trades, lastTime, lastBest, pc, sells, buys, queue,
                    last, i, j, time, mem, validated, wallet, spent, newTrades, skipped>>
    BY <1>15 DEF vars, users, memory, lists, scan, tx
  <2>2. /\ TypeOK /\ RowsInv /\ Snapshot /\ BookInv /\ QueueInv /\ RoundInv /\ NoOverdraft
    BY DEF BaseInv
  <2>3. TypeOK' /\ RowsInv' /\ Snapshot' /\ NoOverdraft' /\ RoundInv'
    BY <2>1, <2>2 DEF TypeOK, RowsInv, RowOK, Snapshot, SameOrder, NoOverdraft, RoundInv
  <2>4. BookInv' /\ QueueInv'
    BY <2>1, <2>2 DEF BookInv, QueueInv, InBook, Better, Older
  <2> QED BY <2>3, <2>4 DEF BaseInv
<1> QED BY <1>1, <1>2, <1>3, <1>4, <1>5, <1>6, <1>7, <1>8, <1>9, <1>10, <1>11, <1>12, <1>13,
           <1>14, <1>15 DEF Next

LEMMA BaseHolds == Spec => []BaseInv
BY BaseInit, BaseStep, PTL DEF Spec

\* TypeOK for all orders, users and bounds: no committed balance and no amount of
\* a trade is ever negative, and a round only works on orders it has fetched.
THEOREM TypeCorrect == Spec => []TypeOK
<1>1. BaseInv => TypeOK
  BY DEF BaseInv
<1> QED BY <1>1, BaseHolds, PTL

\* NoOverdraft: the matcher decides on cached Wallet objects, and withdraws are
\* paid out meanwhile, but its open transaction never overdraws a wallet.
THEOREM NeverOverdrawn == Spec => []NoOverdraft
<1>1. BaseInv => NoOverdraft
  BY DEF BaseInv
<1> QED BY <1>1, BaseHolds, PTL

-----------------------------------------------------------------------------
(* The ledger: what the trades say of wallets and orders *)

\* Sums over the trades, on any larger set of trades
Volume(T) == [t \in T |-> t.amount]
Price(c, T) == [t \in T |-> IF c = "src" THEN t.amount ELSE t.amount * t.price]
OfOrder(o, T) == {t \in T : o \in {t.sell, t.buy}}
OfUser(u, c, T) == {t \in T : Owner[IF c = "src" THEN t.sell ELSE t.buy] = u}

LEMMA TradeAmounts ==
  ASSUME NEW t \in Trades
  PROVE  t.amount \in Nat \ {0} /\ t.price \in Nat /\ t.amount * t.price \in Nat
<1>1. t.amount \in Nat \ {0} /\ t.price \in Nat
  BY MatchRoundAssumption DEF Trades
<1> QED BY <1>1

LEMMA SumsOver ==
  ASSUME NEW T, T \subseteq Trades, IsFiniteSet(T), NEW U, T \subseteq U, U \subseteq Trades
  PROVE  /\ \A o : TradedBy(o, T) = SumOf(Volume(U), OfOrder(o, T))
         /\ \A u, c : PaidFor(u, c, T) = SumOf(Price(c, U), OfUser(u, c, T))
<1>1. ASSUME NEW o PROVE TradedBy(o, T) = SumOf(Volume(U), OfOrder(o, T))
  <2>1. OfOrder(o, T) \subseteq T /\ IsFiniteSet(OfOrder(o, T))
    BY FS_Subset DEF OfOrder
  <2>2. TradedBy(o, T) = SumOf(Volume(T), OfOrder(o, T))
    BY DEF TradedBy, Volume, OfOrder
  <2>3. \A x \in OfOrder(o, T) : Volume(T)[x] = Volume(U)[x]
    BY <2>1 DEF Volume
  <2>4. SumOf(Volume(T), OfOrder(o, T)) = SumOf(Volume(U), OfOrder(o, T))
    BY <2>1, <2>3, SumSame
  <2> QED BY <2>2, <2>4
<1>2. ASSUME NEW u, NEW c PROVE PaidFor(u, c, T) = SumOf(Price(c, U), OfUser(u, c, T))
  <2>1. OfUser(u, c, T) \subseteq T /\ IsFiniteSet(OfUser(u, c, T))
    BY FS_Subset DEF OfUser
  <2>2. PaidFor(u, c, T) = SumOf(Price(c, T), OfUser(u, c, T))
    BY DEF PaidFor, Price, OfUser
  <2>3. \A x \in OfUser(u, c, T) : Price(c, T)[x] = Price(c, U)[x]
    BY <2>1 DEF Price
  <2>4. SumOf(Price(c, T), OfUser(u, c, T)) = SumOf(Price(c, U), OfUser(u, c, T))
    BY <2>1, <2>3, SumSame
  <2> QED BY <2>2, <2>4
<1> QED BY <1>1, <1>2

LEMMA TradedNatural ==
  ASSUME NEW T, T \subseteq Trades, IsFiniteSet(T), NEW o
  PROVE  TradedBy(o, T) \in Nat
<1>1. OfOrder(o, T) \subseteq T /\ \A t \in T : Volume(T)[t] \in Nat
  BY TradeAmounts DEF OfOrder, Volume
<1>2. SumOf(Volume(T), OfOrder(o, T)) \in Nat
  BY <1>1, SumPart
<1> QED BY <1>2 DEF TradedBy, Volume, OfOrder

LEMMA NoTrades ==
  /\ IsFiniteSet({})
  /\ \A o : TradedBy(o, {}) = 0
  /\ \A u, c : PaidFor(u, c, {}) = 0
<1>1. \A o : OfOrder(o, {}) = {} /\ \A u, c : OfUser(u, c, {}) = {}
  BY DEF OfOrder, OfUser
<1>2. IsFiniteSet({}) /\ {} \subseteq Trades
  BY FS_EmptySet
<1>3. /\ \A o : TradedBy(o, {}) = SumOf(Volume({}), OfOrder(o, {}))
      /\ \A u, c : PaidFor(u, c, {}) = SumOf(Price(c, {}), OfUser(u, c, {}))
  BY <1>2, SumsOver
<1> QED BY <1>1, <1>2, <1>3, SumEmpty

LEMMA SumsUnion ==
  ASSUME NEW T, T \subseteq Trades, IsFiniteSet(T),
         NEW U, U \subseteq Trades, IsFiniteSet(U), T \cap U = {}
  PROVE  /\ \A o : TradedBy(o, T \cup U) = TradedBy(o, T) + TradedBy(o, U)
         /\ \A u, c : PaidFor(u, c, T \cup U) = PaidFor(u, c, T) + PaidFor(u, c, U)
         /\ \A o : TradedBy(o, T) \in Int
         /\ \A u, c : PaidFor(u, c, T) \in Int
         /\ IsFiniteSet(T \cup U)
<1> DEFINE W == T \cup U
<1>1. W \subseteq Trades /\ T \subseteq W /\ U \subseteq W /\ IsFiniteSet(W)
  BY FS_Union
<1>2. \A t \in W : t.amount \in Int /\ t.amount * t.price \in Int
  BY <1>1, TradeAmounts
<1>3. \A t \in W : Volume(W)[t] \in Int /\ \A c : Price(c, W)[t] \in Int
  BY <1>2 DEF Volume, Price
<1> HIDE DEF W
<1>4. /\ \A o : TradedBy(o, T) = SumOf(Volume(W), OfOrder(o, T))
      /\ \A u, c : PaidFor(u, c, T) = SumOf(Price(c, W), OfUser(u, c, T))
  BY <1>1, SumsOver
<1>5. /\ \A o : TradedBy(o, U) = SumOf(Volume(W), OfOrder(o, U))
      /\ \A u, c : PaidFor(u, c, U) = SumOf(Price(c, W), OfUser(u, c, U))
  BY <1>1, SumsOver
<1>6. /\ \A o : TradedBy(o, W) = SumOf(Volume(W), OfOrder(o, W))
      /\ \A u, c : PaidFor(u, c, W) = SumOf(Price(c, W), OfUser(u, c, W))
  BY <1>1, SumsOver
<1>7. ASSUME NEW o
      PROVE  TradedBy(o, W) = TradedBy(o, T) + TradedBy(o, U) /\ TradedBy(o, T) \in Int
  <2>1. /\ OfOrder(o, W) = OfOrder(o, T) \cup OfOrder(o, U)
        /\ OfOrder(o, T) \cap OfOrder(o, U) = {}
        /\ OfOrder(o, T) \subseteq T /\ OfOrder(o, U) \subseteq U
    BY DEF OfOrder, W
  <2>2. IsFiniteSet(OfOrder(o, T)) /\ IsFiniteSet(OfOrder(o, U))
    BY <2>1, FS_Subset
  <2>3. \A t \in OfOrder(o, T) \cup OfOrder(o, U) : Volume(W)[t] \in Int
    BY <1>1, <1>3, <2>1
  <2>4. SumOf(Volume(W), OfOrder(o, T)) \in Int
    BY <2>2, <2>3, SumInt
  <2>5. SumOf(Volume(W), OfOrder(o, T) \cup OfOrder(o, U))
          = SumOf(Volume(W), OfOrder(o, T)) + SumOf(Volume(W), OfOrder(o, U))
    BY <2>1, <2>2, <2>3, SumUnion
  <2> QED BY <1>4, <1>5, <1>6, <2>1, <2>4, <2>5
<1>8. ASSUME NEW u, NEW c
      PROVE  PaidFor(u, c, W) = PaidFor(u, c, T) + PaidFor(u, c, U) /\ PaidFor(u, c, T) \in Int
  <2>1. /\ OfUser(u, c, W) = OfUser(u, c, T) \cup OfUser(u, c, U)
        /\ OfUser(u, c, T) \cap OfUser(u, c, U) = {}
        /\ OfUser(u, c, T) \subseteq T /\ OfUser(u, c, U) \subseteq U
    BY DEF OfUser, W
  <2>2. IsFiniteSet(OfUser(u, c, T)) /\ IsFiniteSet(OfUser(u, c, U))
    BY <2>1, FS_Subset
  <2>3. \A t \in OfUser(u, c, T) \cup OfUser(u, c, U) : Price(c, W)[t] \in Int
    BY <1>1, <1>3, <2>1
  <2>4. SumOf(Price(c, W), OfUser(u, c, T)) \in Int
    BY <2>2, <2>3, SumInt
  <2>5. SumOf(Price(c, W), OfUser(u, c, T) \cup OfUser(u, c, U))
          = SumOf(Price(c, W), OfUser(u, c, T)) + SumOf(Price(c, W), OfUser(u, c, U))
    BY <2>1, <2>2, <2>3, SumUnion
  <2> QED BY <1>4, <1>5, <1>6, <2>1, <2>4, <2>5
<1> QED BY <1>1, <1>7, <1>8 DEF W

LEMMA OneTrade ==
  ASSUME NEW t \in Trades
  PROVE  /\ \A o : TradedBy(o, {t}) = IF o \in {t.sell, t.buy} THEN t.amount ELSE 0
         /\ \A u : /\ PaidFor(u, "src", {t}) = IF Owner[t.sell] = u THEN t.amount ELSE 0
                   /\ PaidFor(u, "dst", {t}) = IF Owner[t.buy] = u THEN t.amount * t.price ELSE 0
         /\ IsFiniteSet({t})
<1>1. IsFiniteSet({t}) /\ {t} \subseteq Trades
  BY FS_Singleton
<1>2. /\ \A o : TradedBy(o, {t}) = SumOf(Volume({t}), OfOrder(o, {t}))
      /\ \A u, c : PaidFor(u, c, {t}) = SumOf(Price(c, {t}), OfUser(u, c, {t}))
  BY <1>1, SumsOver
<1>3. /\ t.amount \in Int /\ t.amount * t.price \in Int
      /\ Volume({t})[t] = t.amount /\ Price("src", {t})[t] = t.amount
      /\ Price("dst", {t})[t] = t.amount * t.price
  BY TradeAmounts DEF Volume, Price
<1>4. \A f : f[t] \in Int => SumOf(f, {t}) = f[t]
  <2> SUFFICES ASSUME NEW f, f[t] \in Int PROVE SumOf(f, {t}) = f[t]
    OBVIOUS
  <2>1. {t} = {} \cup {t} /\ IsFiniteSet({}) /\ t \notin {}
    BY FS_EmptySet
  <2>2. SumOf(f, {} \cup {t}) = f[t] + SumOf(f, {})
    BY <2>1, SumInsert
  <2> QED BY <2>1, <2>2, SumEmpty
<1>5. /\ \A o : OfOrder(o, {t}) = IF o \in {t.sell, t.buy} THEN {t} ELSE {}
      /\ \A u : /\ OfUser(u, "src", {t}) = IF Owner[t.sell] = u THEN {t} ELSE {}
                /\ OfUser(u, "dst", {t}) = IF Owner[t.buy] = u THEN {t} ELSE {}
  BY DEF OfOrder, OfUser
<1>6. \A o : TradedBy(o, {t}) = IF o \in {t.sell, t.buy} THEN t.amount ELSE 0
  <2> SUFFICES ASSUME NEW o
               PROVE  TradedBy(o, {t}) = IF o \in {t.sell, t.buy} THEN t.amount ELSE 0
    OBVIOUS
  <2>1. TradedBy(o, {t}) = SumOf(Volume({t}), OfOrder(o, {t}))
    BY <1>2
  <2>2. CASE o \in {t.sell, t.buy}
    <3>1. OfOrder(o, {t}) = {t}
      BY <1>5, <2>2
    <3>2. SumOf(Volume({t}), {t}) = t.amount
      BY <1>3, <1>4
    <3> QED BY <2>1, <2>2, <3>1, <3>2
  <2>3. CASE o \notin {t.sell, t.buy}
    <3>1. OfOrder(o, {t}) = {}
      BY <1>5, <2>3
    <3> QED BY <2>1, <2>3, <3>1, SumEmpty
  <2> QED BY <2>2, <2>3
<1>7. \A u : PaidFor(u, "src", {t}) = IF Owner[t.sell] = u THEN t.amount ELSE 0
  <2> SUFFICES ASSUME NEW u
               PROVE  PaidFor(u, "src", {t}) = IF Owner[t.sell] = u THEN t.amount ELSE 0
    OBVIOUS
  <2>1. PaidFor(u, "src", {t}) = SumOf(Price("src", {t}), OfUser(u, "src", {t}))
    BY <1>2
  <2>2. SumOf(Price("src", {t}), {t}) = t.amount
    BY <1>3, <1>4
  <2>3. SumOf(Price("src", {t}), {}) = 0
    BY SumEmpty
  <2> QED BY <1>5, <2>1, <2>2, <2>3
<1>8. \A u : PaidFor(u, "dst", {t}) = IF Owner[t.buy] = u THEN t.amount * t.price ELSE 0
  <2> SUFFICES ASSUME NEW u
               PROVE  PaidFor(u, "dst", {t}) = IF Owner[t.buy] = u THEN t.amount * t.price ELSE 0
    OBVIOUS
  <2>1. PaidFor(u, "dst", {t}) = SumOf(Price("dst", {t}), OfUser(u, "dst", {t}))
    BY <1>2
  <2>2. SumOf(Price("dst", {t}), {t}) = t.amount * t.price
    BY <1>3, <1>4
  <2>3. SumOf(Price("dst", {t}), {}) = 0
    BY SumEmpty
  <2> QED BY <1>5, <2>1, <2>2, <2>3
<1> QED BY <1>1, <1>6, <1>7, <1>8

Ledger == LedgerInv /\ LedgerBalanced

\* A step that makes no trade and moves no money
LedgerQuiet ==
  /\ UNCHANGED <<trades, newTrades, spent>>
  /\ \A o \in Orders : ord'[o].matched = ord[o].matched /\ mem'[o].matched = mem[o].matched
  /\ pc' # "idle" => pc # "idle"
  /\ \A u \in Users, c \in Currencies : bal'[u][c] + paid'[u][c] = bal[u][c] + paid[u][c]

\* A round starts, or ends without a trace.
LedgerFresh ==
  /\ newTrades' = {} /\ spent' = NoSpent /\ UNCHANGED <<trades, ord, bal, paid>>
  /\ pc' # "idle" => mem' = ord

LEMMA QuietLedger ==
  ASSUME BaseInv, BaseInv', Ledger, LedgerQuiet PROVE Ledger'
<1>1. /\ LedgerInv /\ LedgerBalanced /\ TypeOK /\ TypeOK'
  BY DEF Ledger, BaseInv
<1>2. \A u \in Users, c \in Currencies :
        /\ bal[u][c] \in Int /\ paid[u][c] \in Int /\ bal'[u][c] \in Int /\ paid'[u][c] \in Int
        /\ bal'[u][c] + paid'[u][c] = bal[u][c] + paid[u][c]
  BY <1>1 DEF TypeOK, Wallets, LedgerQuiet
<1>3. \A u \in Users, c \in Currencies :
        Funds[u][c] = bal'[u][c] + paid'[u][c] + PaidFor(u, c, trades)
  BY <1>1, <1>2 DEF LedgerBalanced
<1>4. /\ \A u \in Users, c \in Currencies :
           Funds[u][c] = bal'[u][c] + paid'[u][c] + PaidFor(u, c, trades')
      /\ \A o \in Orders : ord'[o].matched = TradedBy(o, trades')
  BY <1>1, <1>3 DEF LedgerQuiet, LedgerBalanced
<1>5. LedgerBalanced'
  BY <1>4 DEF LedgerBalanced, PaidFor, TradedBy
<1>6. /\ IsFiniteSet(trades') /\ IsFiniteSet(newTrades') /\ trades' \cap newTrades' = {}
      /\ \A u \in Users, c \in Currencies : spent'[u][c] = PaidFor(u, c, newTrades')
      /\ pc' # "idle" => \A o \in Orders :
                           mem'[o].matched = ord'[o].matched + TradedBy(o, newTrades')
  BY <1>1 DEF LedgerQuiet, LedgerInv
<1>7. LedgerInv'
  BY <1>6 DEF LedgerInv, PaidFor, TradedBy
<1> QED BY <1>5, <1>7 DEF Ledger

LEMMA FreshLedger ==
  ASSUME BaseInv, Ledger, LedgerFresh PROVE Ledger'
<1>1. LedgerInv /\ LedgerBalanced /\ TypeOK
  BY DEF Ledger, BaseInv
<1>2. LedgerBalanced'
  BY <1>1 DEF LedgerFresh, LedgerBalanced, PaidFor, TradedBy
<1>3. \A u \in Users, c \in Currencies : NoSpent[u][c] = 0
  BY DEF NoSpent
<1>4. \A o \in Orders : ord[o].matched + 0 = ord[o].matched
  BY <1>1 DEF TypeOK, Rows
<1>5. /\ IsFiniteSet(trades') /\ IsFiniteSet(newTrades') /\ trades' \cap newTrades' = {}
      /\ \A u \in Users, c \in Currencies : spent'[u][c] = PaidFor(u, c, newTrades')
      /\ pc' # "idle" => \A o \in Orders :
                           mem'[o].matched = ord'[o].matched + TradedBy(o, newTrades')
  BY <1>1, <1>3, <1>4, NoTrades DEF LedgerFresh, LedgerInv
<1>6. LedgerInv'
  BY <1>5 DEF LedgerInv, PaidFor, TradedBy
<1> QED BY <1>2, <1>6 DEF Ledger

LEMMA DealLedger ==
  ASSUME BaseInv, Ledger, RoundEffect, Candidates, NEW a, NEW p, Deal(a, p), pc = "scan"
  PROVE  Ledger'
<1>1. /\ LedgerInv /\ LedgerBalanced /\ TypeOK
      /\ UNCHANGED <<ord, bal, paid, trades>>
  BY DEF Ledger, BaseInv, RoundEffect, users
<1>2. /\ sell \in Orders /\ buy \in Orders /\ sell # buy /\ a \in Nat \ {0} /\ p \in Prices
  BY DEF Candidates, InBook, Deal
<1> DEFINE t == [sell |-> sell, buy |-> buy, price |-> p, amount |-> a]
<1>3. /\ t \in Trades /\ t.sell = sell /\ t.buy = buy /\ t.price = p /\ t.amount = a
      /\ newTrades' = newTrades \cup {t} /\ t \notin newTrades /\ t \notin trades
  BY <1>2 DEF Deal, Trades, Traded
<1> HIDE DEF t
<1>4. newTrades \cap {t} = {} /\ newTrades \subseteq Trades /\ {t} \subseteq Trades
  BY <1>1, <1>3 DEF TypeOK
<1>5. /\ \A o : TradedBy(o, {t}) = IF o \in {sell, buy} THEN a ELSE 0
      /\ \A u : /\ PaidFor(u, "src", {t}) = IF Owner[sell] = u THEN a ELSE 0
                /\ PaidFor(u, "dst", {t}) = IF Owner[buy] = u THEN a * p ELSE 0
      /\ IsFiniteSet({t})
  BY <1>3, OneTrade
<1>6. /\ \A o : TradedBy(o, newTrades') = TradedBy(o, newTrades) + TradedBy(o, {t})
      /\ \A u, c : PaidFor(u, c, newTrades') = PaidFor(u, c, newTrades) + PaidFor(u, c, {t})
      /\ \A o : TradedBy(o, newTrades) \in Int
      /\ \A u, c : PaidFor(u, c, newTrades) \in Int
      /\ IsFiniteSet(newTrades')
  <2>1. IsFiniteSet(newTrades)
    BY <1>1 DEF LedgerInv
  <2>2. /\ \A o : TradedBy(o, newTrades \cup {t}) = TradedBy(o, newTrades) + TradedBy(o, {t})
        /\ \A u, c : PaidFor(u, c, newTrades \cup {t}) = PaidFor(u, c, newTrades) + PaidFor(u, c, {t})
        /\ \A o : TradedBy(o, newTrades) \in Int
        /\ \A u, c : PaidFor(u, c, newTrades) \in Int
        /\ IsFiniteSet(newTrades \cup {t})
    BY <1>4, <1>5, <2>1, SumsUnion
  <2> QED BY <1>3, <2>2
<1>7. \A o \in Orders : mem'[o].matched = ord[o].matched + TradedBy(o, newTrades')
  <2> SUFFICES ASSUME NEW o \in Orders
               PROVE  mem'[o].matched = ord[o].matched + TradedBy(o, newTrades')
    OBVIOUS
  <2>1. /\ mem[o].matched = ord[o].matched + TradedBy(o, newTrades)
        /\ ord[o].matched \in Nat /\ TradedBy(o, newTrades) \in Int
    BY <1>1, <1>6 DEF LedgerInv, TypeOK, Rows
  <2>2. CASE o \in {sell, buy}
    <3>1. mem'[o].matched = mem[o].matched + a
      BY <2>2 DEF Deal
    <3>2. TradedBy(o, newTrades') = TradedBy(o, newTrades) + a
      BY <1>5, <1>6, <2>2
    <3> QED BY <1>2, <2>1, <3>1, <3>2
  <2>3. CASE o \notin {sell, buy}
    <3>1. mem'[o].matched = mem[o].matched
      BY <2>3 DEF Deal
    <3>2. TradedBy(o, newTrades') = TradedBy(o, newTrades) + 0
      BY <1>5, <1>6, <2>3
    <3> QED BY <2>1, <3>1, <3>2
  <2> QED BY <2>2, <2>3
<1>8. \A u \in Users, c \in Currencies : spent'[u][c] = PaidFor(u, c, newTrades')
  <2> SUFFICES ASSUME NEW u \in Users
               PROVE  /\ spent'[u]["src"] = PaidFor(u, "src", newTrades')
                      /\ spent'[u]["dst"] = PaidFor(u, "dst", newTrades')
    BY DEF Currencies
  <2>1. /\ spent[u]["src"] = PaidFor(u, "src", newTrades)
        /\ spent[u]["dst"] = PaidFor(u, "dst", newTrades)
    BY <1>1 DEF LedgerInv, Currencies
  <2>2. /\ PaidFor(u, "src", newTrades') = PaidFor(u, "src", newTrades) + PaidFor(u, "src", {t})
        /\ PaidFor(u, "dst", newTrades') = PaidFor(u, "dst", newTrades) + PaidFor(u, "dst", {t})
        /\ PaidFor(u, "src", newTrades) \in Int /\ PaidFor(u, "dst", newTrades) \in Int
    BY <1>6
  <2>3. spent'[u]["src"] = PaidFor(u, "src", newTrades')
    <3>1. CASE Owner[sell] = u
      <4>1. PaidFor(u, "src", {t}) = a /\ spent'[u]["src"] = spent[u]["src"] + a
        BY <1>5, <3>1 DEF Deal
      <4> QED BY <2>1, <2>2, <4>1
    <3>2. CASE Owner[sell] # u
      <4>1. PaidFor(u, "src", {t}) = 0 /\ spent'[u]["src"] = spent[u]["src"]
        BY <1>5, <3>2 DEF Deal
      <4> QED BY <2>1, <2>2, <4>1
    <3> QED BY <3>1, <3>2
  <2>4. spent'[u]["dst"] = PaidFor(u, "dst", newTrades')
    <3>1. CASE Owner[buy] = u
      <4>1. PaidFor(u, "dst", {t}) = a * p /\ spent'[u]["dst"] = spent[u]["dst"] + a * p
        BY <1>5, <3>1 DEF Deal
      <4> QED BY <2>1, <2>2, <4>1
    <3>2. CASE Owner[buy] # u
      <4>1. PaidFor(u, "dst", {t}) = 0 /\ spent'[u]["dst"] = spent[u]["dst"]
        BY <1>5, <3>2 DEF Deal
      <4> QED BY <2>1, <2>2, <4>1
    <3> QED BY <3>1, <3>2
  <2> QED BY <2>3, <2>4
<1>9. IsFiniteSet(trades') /\ IsFiniteSet(newTrades') /\ trades' \cap newTrades' = {}
  BY <1>1, <1>3, <1>6 DEF LedgerInv
<1>10. LedgerInv'
  BY <1>1, <1>7, <1>8, <1>9 DEF LedgerInv, PaidFor, TradedBy
<1>11. LedgerBalanced'
  BY <1>1 DEF LedgerBalanced, PaidFor, TradedBy
<1> QED BY <1>10, <1>11 DEF Ledger

LEMMA CommitLedger ==
  ASSUME BaseInv, Ledger, CommitRound PROVE Ledger'
<1>1. /\ LedgerInv /\ LedgerBalanced /\ TypeOK /\ RowsInv
  BY DEF Ledger, BaseInv
<1>2. /\ NoRound' /\ paid' = paid
      /\ \A o \in Orders : /\ mem[o].status \in Unseen => ord'[o] = ord[o]
                           /\ mem[o].status \notin Unseen => ord'[o] = mem[o]
      /\ \A u \in Users, c \in Currencies : bal'[u][c] = bal[u][c] - spent[u][c]
      /\ trades' = trades \cup newTrades /\ pc = "commit"
  BY CommitKeepsBase DEF CommitRound
<1>3. /\ trades \subseteq Trades /\ newTrades \subseteq Trades
      /\ IsFiniteSet(trades) /\ IsFiniteSet(newTrades) /\ trades \cap newTrades = {}
  BY <1>1 DEF TypeOK, LedgerInv
<1>4. /\ \A o : TradedBy(o, trades \cup newTrades) = TradedBy(o, trades) + TradedBy(o, newTrades)
      /\ \A u, c : PaidFor(u, c, trades \cup newTrades)
                     = PaidFor(u, c, trades) + PaidFor(u, c, newTrades)
      /\ \A o : TradedBy(o, trades) \in Int
      /\ \A u, c : PaidFor(u, c, trades) \in Int
      /\ IsFiniteSet(trades \cup newTrades)
  BY <1>3, SumsUnion
<1>5. /\ \A o : TradedBy(o, trades') = TradedBy(o, trades) + TradedBy(o, newTrades)
      /\ \A u, c : PaidFor(u, c, trades') = PaidFor(u, c, trades) + PaidFor(u, c, newTrades)
      /\ IsFiniteSet(trades')
  BY <1>2, <1>4
<1>6. \A o \in Orders : ord'[o].matched = TradedBy(o, trades')
  <2> SUFFICES ASSUME NEW o \in Orders PROVE ord'[o].matched = TradedBy(o, trades')
    OBVIOUS
  <2>1. /\ mem[o].matched = ord[o].matched + TradedBy(o, newTrades)
        /\ ord[o].matched = TradedBy(o, trades)
    BY <1>1, <1>2 DEF LedgerInv, LedgerBalanced
  <2>2. mem[o].matched = TradedBy(o, trades')
    BY <1>5, <2>1
  <2>3. CASE mem[o].status \notin Unseen
    BY <1>2, <2>2, <2>3
  <2>4. CASE mem[o].status \in Unseen
    <3>1. mem[o].matched = 0 /\ ord'[o].matched = ord[o].matched /\ ord[o].matched \in Nat
      BY <1>1, <1>2, <2>4 DEF RowsInv, RowOK, TypeOK, Rows
    <3>2. TradedBy(o, newTrades) \in Nat
      BY <1>3, TradedNatural
    <3>3. ord[o].matched = 0
      BY <2>1, <3>1, <3>2
    <3> QED BY <2>2, <3>1, <3>3
  <2> QED BY <2>3, <2>4
<1>7. \A u \in Users, c \in Currencies :
        Funds[u][c] = bal'[u][c] + paid'[u][c] + PaidFor(u, c, trades')
  <2> SUFFICES ASSUME NEW u \in Users, NEW c \in Currencies
               PROVE  Funds[u][c] = bal'[u][c] + paid'[u][c] + PaidFor(u, c, trades')
    OBVIOUS
  <2>1. /\ Funds[u][c] = bal[u][c] + paid[u][c] + PaidFor(u, c, trades)
        /\ spent[u][c] = PaidFor(u, c, newTrades)
    BY <1>1, <1>2 DEF LedgerInv, LedgerBalanced
  <2>2. bal[u][c] \in Nat /\ paid[u][c] \in Nat /\ spent[u][c] \in Nat
    BY <1>1 DEF TypeOK, Wallets
  <2>3. bal'[u][c] = bal[u][c] - spent[u][c] /\ paid'[u][c] = paid[u][c]
    BY <1>2
  <2>4. /\ PaidFor(u, c, trades) \in Int
        /\ PaidFor(u, c, trades') = PaidFor(u, c, trades) + PaidFor(u, c, newTrades)
    BY <1>4, <1>5
  <2> QED BY <2>1, <2>2, <2>3, <2>4
<1>8. LedgerBalanced'
  BY <1>6, <1>7 DEF LedgerBalanced, PaidFor, TradedBy
<1>9. LedgerInv'
  <2>1. newTrades' = {} /\ spent' = NoSpent /\ pc' = "idle"
    BY <1>2 DEF NoRound, NoSpent
  <2>2. /\ IsFiniteSet(newTrades') /\ trades' \cap newTrades' = {}
        /\ \A u \in Users, c \in Currencies : spent'[u][c] = PaidFor(u, c, newTrades')
    BY <2>1, NoTrades DEF NoSpent
  <2> QED BY <1>5, <2>1, <2>2 DEF LedgerInv, PaidFor, TradedBy
<1> QED BY <1>8, <1>9 DEF Ledger

LEMMA LedgerInit == Init => Ledger
<1> SUFFICES ASSUME Init PROVE Ledger
  OBVIOUS
<1>1. /\ trades = {} /\ newTrades = {} /\ spent = NoSpent /\ pc = "idle"
      /\ bal = Funds /\ paid = NoSpent /\ ord = NoOrders
  BY DEF Init
<1>2. \A u \in Users, c \in Currencies : NoSpent[u][c] = 0 /\ Funds[u][c] \in Nat
  BY MatchRoundAssumption DEF NoSpent, Currencies
<1>3. \A o \in Orders : NoOrders[o].matched = 0
  BY DEF NoOrders
<1>4. LedgerBalanced
  BY <1>1, <1>2, <1>3, NoTrades DEF LedgerBalanced
<1>5. LedgerInv
  BY <1>1, <1>2, NoTrades DEF LedgerInv
<1> QED BY <1>4, <1>5 DEF Ledger

\* What a step does, for the invariants that only look at trades and money
LEMMA StepKinds ==
  ASSUME BaseInv, [Next]_vars
  PROVE  \/ LedgerQuiet
         \/ LedgerFresh
         \/ RoundEffect /\ Candidates /\ pc = "scan" /\ \E a, p : Deal(a, p)
         \/ CommitRound
<1>0. TypeOK /\ RowsInv /\ NoOverdraft
  BY DEF BaseInv
<1>1. CASE UserStep
  <2>1. UserEffect
    BY <1>0, <1>1, UserStepEffect
  <2> QED BY <2>1 DEF UserEffect, LedgerQuiet, tx
<1>2. CASE StartRound
  BY <1>2 DEF StartRound, LedgerFresh, users
<1>3. CASE NextOrder \/ Restart \/ UNCHANGED vars
  <2>1. UNCHANGED <<trades, newTrades, spent, ord, mem, bal, paid>> /\ (pc' # "idle" => pc # "idle")
    BY <1>3 DEF NextOrder, Restart, vars, users, tx
  <2> QED BY <2>1 DEF LedgerQuiet
<1>4. ASSUME RoundEffect, UNCHANGED <<newTrades, spent>>, pc # "idle",
             \A o \in Orders : mem'[o].matched = mem[o].matched
      PROVE  LedgerQuiet
  BY <1>4 DEF RoundEffect, LedgerQuiet, users
<1>5. CASE SkipCandidate
  BY <1>4, <1>5, SkipEffect DEF SkipCandidate
<1>6. CASE ReturnFromScan
  BY <1>4, <1>6, ReturnEffect DEF ReturnFromScan
<1>7. CASE ForbiddenMatching
  BY <1>4, <1>7, ForbiddenEffect DEF ForbiddenMatching
<1>8. CASE Validate
  BY <1>4, <1>8, ValidateEffect DEF Validate
<1>9. CASE RejectMatch
  BY <1>4, <1>9, RejectEffect DEF RejectMatch
<1>10. CASE FailedMatch
  BY <1>4, <1>10, FailedEffect DEF FailedMatch
<1>11. CASE FinishMatching
  BY <1>4, <1>11, FinishEffect
<1>12. CASE MatchTwoOrders
  BY <1>12, MatchEffect DEF MatchTwoOrders
<1>13. CASE RoundFails
  <2>1. NoRound' /\ UNCHANGED <<ord, bal, paid, trades>>
    BY <1>13, FailKeepsBase
  <2> QED BY <2>1 DEF NoRound, LedgerFresh, NoSpent
<1> QED BY <1>1, <1>2, <1>3, <1>5, <1>6, <1>7, <1>8, <1>9, <1>10, <1>11, <1>12, <1>13 DEF Next

LEMMA LedgerStep == BaseInv /\ Ledger /\ [Next]_vars => Ledger'
<1> SUFFICES ASSUME BaseInv, Ledger, [Next]_vars PROVE Ledger'
  OBVIOUS
<1>1. BaseInv'
  BY BaseStep
<1> QED BY <1>1, StepKinds, QuietLedger, FreshLedger, DealLedger, CommitLedger

LEMMA LedgerHolds == Spec => []Ledger
BY BaseHolds, LedgerInit, LedgerStep, PTL DEF Spec

\* LedgerBalanced: whatever failed halfway inside a savepoint and however many
\* rounds were rolled back, money has left a wallet only for a trade or a withdraw,
\* and the matched amounts account for the same trades.
THEOREM LedgerCorrect == Spec => []LedgerBalanced
<1>1. Ledger => LedgerBalanced
  BY DEF Ledger
<1> QED BY <1>1, LedgerHolds, PTL

-----------------------------------------------------------------------------
(* Trades honour the orders *)

\* A row that has been committed keeps its price and never goes back.
LEMMA RowsFixed ==
  ASSUME BaseInv, [Next]_vars
  PROVE  \A o \in Orders : ord[o].status \notin Unseen =>
           ord'[o].status \notin Unseen /\ ord'[o].price = ord[o].price
<1>1. CASE UserStep
  <2>1. UserEffect
    BY <1>1, UserStepEffect DEF BaseInv
  <2> QED BY <2>1 DEF UserEffect
<1>2. CASE CommitRound
  <2>1. \A o \in Orders : /\ mem[o].status \in Unseen => ord'[o] = ord[o]
                          /\ mem[o].status \notin Unseen => ord'[o] = mem[o]
    BY <1>2, CommitKeepsBase
  <2>2. Snapshot
    BY DEF BaseInv
  <2> QED BY <2>1, <2>2 DEF Snapshot, SameOrder
<1>3. CASE ~ UserStep /\ ~ CommitRound
  <2>1. \/ StartRound \/ NextOrder \/ SkipCandidate \/ ReturnFromScan
        \/ ForbiddenMatching \/ Validate \/ RejectMatch \/ FailedMatch \/ MatchTwoOrders
        \/ FinishMatching \/ RoundFails \/ Restart \/ UNCHANGED vars
    BY <1>3 DEF Next
  <2>2. UNCHANGED ord
    BY <2>1 DEF StartRound, NextOrder, SkipCandidate, ReturnFromScan, ForbiddenMatching, Validate,
                ValidateOrder, RejectMatch, FailedMatch, MatchTwoOrders, FinishMatching,
                RoundFails, Restart, vars, users
  <2> QED BY <2>2
<1> QED BY <1>1, <1>2, <1>3

\* The price of a trade is the maker's, and market orders get no worse than their
\* acceptable range.
LEMMA DealFair ==
  ASSUME BaseInv, Candidates, NEW a, NEW p, Deal(a, p),
         NEW t, t = [sell |-> sell, buy |-> buy, price |-> p, amount |-> a]
  PROVE  Fair(t)
<1>1. /\ sell \in Orders /\ buy \in Orders /\ IsSell(sell) /\ ~ IsSell(buy)
      /\ mem[sell].status \notin Unseen /\ mem[buy].status \notin Unseen
      /\ ~ (IsMarket(sell) /\ IsMarket(buy)) /\ Crosses(sell, buy)
      /\ t.sell = sell /\ t.buy = buy /\ t.price = p
  BY DEF Candidates, InBook
<1>2. SameOrder(sell) /\ SameOrder(buy)
  BY <1>1 DEF BaseInv, Snapshot
<1>3. mem[sell].price \in Nat /\ mem[buy].price \in Nat
  BY <1>1, OpenFacts DEF BaseInv
<1>4. p = MatchedPrice(sell, buy) /\ UnexpectedFor(sell, buy) = {}
  BY DEF Deal
<1>5. ~ IsMarket(sell) /\ ~ IsMarket(buy) => mem[buy].price >= mem[sell].price
  BY <1>1 DEF Crosses
<1>6. /\ p = mem[sell].price \/ p = mem[buy].price
      /\ IsMarket(sell) => p = mem[buy].price
      /\ IsMarket(buy) => p = mem[sell].price
  BY <1>1, <1>4 DEF MatchedPrice, IsSellerMaker
<1>7. IsMarket(buy) => 10 * p <= 11 * mem[buy].price
  <2>1. IsMarket(buy) => ~ (10 * p > 11 * mem[buy].price)
    BY <1>4 DEF UnexpectedFor
  <2> QED BY <1>3, <1>6, <2>1
<1>8. IsMarket(sell) => 10 * p >= 9 * mem[sell].price
  <2>1. IsMarket(sell) => ~ (10 * p < 9 * mem[sell].price)
    BY <1>1, <1>4 DEF UnexpectedFor
  <2> QED BY <1>3, <1>6, <2>1
<1>9. ~ IsMarket(sell) => p >= mem[sell].price
  BY <1>3, <1>5, <1>6
<1>10. ~ IsMarket(buy) => p <= mem[buy].price
  BY <1>3, <1>5, <1>6
<1> QED BY <1>1, <1>2, <1>7, <1>8, <1>9, <1>10 DEF Fair, SameOrder

LEMMA FairStep == BaseInv /\ FairInv /\ [Next]_vars => FairInv'
<1> SUFFICES ASSUME BaseInv, FairInv, [Next]_vars, NEW t \in trades' \cup newTrades'
             PROVE  Fair(t)'
  BY DEF FairInv
<1>1. Fair(t) => Fair(t)'
  <2> SUFFICES ASSUME Fair(t), BaseInv' PROVE Fair(t)'
    BY BaseStep
  <2>1. t.sell \in Orders /\ t.buy \in Orders
    BY DEF BaseInv, TypeOK, Trades
  <2>2. /\ ord'[t.sell].status \notin Unseen /\ ord'[t.sell].price = ord[t.sell].price
        /\ ord'[t.buy].status \notin Unseen /\ ord'[t.buy].price = ord[t.buy].price
    BY <2>1, RowsFixed DEF Fair
  <2> QED BY <2>2 DEF Fair
<1>2. CASE t \in trades \cup newTrades
  BY <1>1, <1>2 DEF FairInv
<1>3. CASE t \notin trades \cup newTrades
  <2>1. RoundEffect /\ Candidates /\ \E a, p : Deal(a, p)
    <3>1. ~ LedgerQuiet /\ ~ LedgerFresh
      BY <1>3 DEF LedgerQuiet, LedgerFresh
    <3>2. ~ CommitRound
      BY <1>3 DEF CommitRound, EndRound
    <3> QED BY <3>1, <3>2, StepKinds
  <2>2. PICK a, p : Deal(a, p)
    BY <2>1
  <2>3. t = [sell |-> sell, buy |-> buy, price |-> p, amount |-> a]
    BY <1>3, <2>1, <2>2 DEF Deal, RoundEffect
  <2> QED BY <1>1, <2>1, <2>2, <2>3, DealFair
<1> QED BY <1>2, <1>3

LEMMA FairHolds == Spec => []FairInv
<1>1. Init => FairInv
  BY DEF Init, FairInv
<1> QED BY <1>1, BaseHolds, FairStep, PTL DEF Spec

LEMMA HonourFacts ==
  ASSUME BaseInv, Ledger, FairInv PROVE TradesHonourOrders
<1>1. /\ LedgerInv /\ LedgerBalanced /\ TypeOK /\ RowsInv /\ Snapshot /\ RoundInv
  BY DEF Ledger, BaseInv
<1>2. /\ \A o : TradedBy(o, trades \cup newTrades) = TradedBy(o, trades) + TradedBy(o, newTrades)
  BY <1>1, SumsUnion DEF LedgerInv, TypeOK
<1>3. ASSUME NEW o \in Orders PROVE TradedBy(o, trades \cup newTrades) <= ord[o].amount
  <2>1. /\ ord[o].matched = TradedBy(o, trades) /\ ord[o].matched <= ord[o].amount
        /\ mem[o].matched <= mem[o].amount /\ ord[o].matched \in Nat /\ ord[o].amount \in Nat
    <3>1. ord[o].matched = TradedBy(o, trades) /\ RowOK(ord[o]) /\ RowOK(mem[o])
      BY <1>1 DEF LedgerBalanced, RowsInv
    <3>2. ord[o].matched \in Nat /\ ord[o].amount \in Nat
      <4>1. ord[o] \in Rows
        BY <1>1 DEF TypeOK
      <4>2. ord[o].matched \in Nat /\ ord[o].amount \in Amounts \cup {0}
        BY <4>1 DEF Rows
      <4>3. \A x \in Amounts \cup {0} : x \in Nat
        BY MatchRoundAssumption
      <4> QED BY <4>2, <4>3, Zenon
    <3> QED BY <3>1, <3>2 DEF RowOK
  <2>2. CASE pc = "idle"
    <3>1. newTrades = {}
      BY <1>1, <2>2 DEF RoundInv
    <3>2. TradedBy(o, newTrades) = 0
      BY <3>1, NoTrades
    <3>3. TradedBy(o, trades \cup newTrades) = ord[o].matched
      <4>1. TradedBy(o, trades \cup newTrades) = ord[o].matched + 0
        BY <1>2, <2>1, <3>2
      <4> QED BY <2>1, <4>1
    <3> QED BY <2>1, <3>3
  <2>3. CASE pc # "idle"
    <3>1. TradedBy(o, trades \cup newTrades) = mem[o].matched
      BY <1>1, <1>2, <2>1, <2>3 DEF LedgerInv
    <3>2. CASE mem[o].status \in Unseen
      <4>1. mem[o].matched = 0
        BY <1>1, <3>2 DEF RowsInv, RowOK
      <4> QED BY <2>1, <3>1, <4>1
    <3>3. CASE mem[o].status \notin Unseen
      <4>1. mem[o].amount = ord[o].amount
        BY <1>1, <3>3 DEF Snapshot, SameOrder
      <4> QED BY <2>1, <3>1, <4>1
    <3> QED BY <3>2, <3>3
  <2> QED BY <2>2, <2>3
<1> QED BY <1>3 DEF TradesHonourOrders, FairInv, Fair

\* TradesHonourOrders: over all rounds, limit prices are kept, market orders stay
\* within MARKET_ORDER_MAX_PRICE_DIFF of their expected price, and no order trades
\* more than its amount.
THEOREM HonourCorrect == Spec => []TradesHonourOrders
<1>1. BaseInv /\ Ledger /\ FairInv => TradesHonourOrders
  BY HonourFacts
<1> QED BY <1>1, BaseHolds, LedgerHolds, FairHolds, PTL

-----------------------------------------------------------------------------
(* What a scan leaves behind it: Examined *)

LEMMA RestsShrink ==
  ASSUME BaseInv, RoundEffect, NEW o \in Orders, Rests(o)' PROVE Rests(o)
<1>1. /\ mem'[o].amount = mem[o].amount /\ mem'[o].matched >= mem[o].matched
      /\ mem'[o].status = "active" => mem[o].status = "active"
      /\ mem'[o] \in Rows
  BY DEF RoundEffect, KeptMem, Kept
<1>2. mem'[o].status = "active" /\ mem'[o].amount - mem'[o].matched > 0
  BY DEF Rests, Unmatched
<1>3. mem[o].status = "active"
  BY <1>1, <1>2
<1>4. mem[o].amount \in Nat /\ mem[o].matched \in Nat
  BY <1>3, OpenFacts DEF BaseInv, Unseen
<1>5. mem'[o].matched \in Nat
  BY <1>1 DEF Rows
<1>6. PICK x, y, z : /\ x \in Nat /\ x = mem[o].amount /\ y \in Nat /\ y = mem[o].matched
                     /\ z \in Nat /\ z = mem'[o].matched
  BY <1>4, <1>5
<1>7. x - z > 0 /\ z >= y
  BY <1>1, <1>2, <1>6
<1>8. x - y > 0
  BY <1>6, <1>7
<1> QED BY <1>3, <1>6, <1>8 DEF Rests, Unmatched

LEMMA TriedGrows ==
  ASSUME RoundEffect, NEW s, NEW b, Tried(s, b) PROVE Tried(s, b)'
<1>1. skipped \subseteq skipped' /\ trades' = trades /\ newTrades \subseteq newTrades'
  BY DEF RoundEffect
<1> QED BY <1>1 DEF Tried, Traded

LEMMA TooNewKept ==
  ASSUME BaseInv, RoundEffect, NEW o \in Orders PROVE TooNew(o)' <=> TooNew(o)
<1>1. last' = last /\ \A q \in Orders : mem'[q].born = mem[q].born
  BY DEF RoundEffect, KeptMem, Kept
<1>2. last # None => last \in Orders
  BY DEF BaseInv, TypeOK
<1> QED BY <1>1, <1>2 DEF TooNew

LEMMA DoneKept ==
  ASSUME BaseInv, RoundEffect, NEW s \in Orders, NEW b \in Orders, Done(s, b)
  PROVE  Done(s, b)'
<1>1. (TooNew(s)' <=> TooNew(s)) /\ (TooNew(b)' <=> TooNew(b))
  BY TooNewKept
<1>2. (Rests(s)' => Rests(s)) /\ (Rests(b)' => Rests(b))
  BY RestsShrink
<1>3. Tried(s, b) => Tried(s, b)'
  BY TriedGrows
<1> QED BY <1>1, <1>2, <1>3 DEF Done, IsMarket

LEMMA ScanGoesOn ==
  ASSUME BaseInv, Examined, RoundEffect, pc = "scan",
         \/ UNCHANGED <<i, j>>
         \/ NextBuy /\ (i \in 1..Len(SellList) /\ j \in 1..Len(BuyList) =>
                          \A s, b : s = sell /\ b = buy => Done(s, b)')
         \/ NextSell /\ \A s, l : i \in 1..Len(SellList) /\ s = sell
                                  /\ l \in 1..Len(BuyList) /\ l >= j =>
                          \A b : b = BuyList[l] => Done(s, b)'
  PROVE  Examined'
<1>1. /\ SellList' = SellList /\ BuyList' = BuyList
  BY DEF RoundEffect, SellList, BuyList, lists
<1>2. i \in Nat /\ j \in Nat /\ Len(SellList) \in Nat /\ Len(BuyList) \in Nat
  BY ListTypes DEF BaseInv, TypeOK
<1>3. /\ \A k \in 1..Len(SellList) : SellList[k] \in Orders
      /\ \A l \in 1..Len(BuyList) : BuyList[l] \in Orders
  BY BookFacts DEF InBook
<1> SUFFICES ASSUME NEW k \in 1..Len(SellList), NEW l \in 1..Len(BuyList),
                    k < i' \/ (k = i' /\ l < j'),
                    NEW s, s = SellList[k], NEW b, b = BuyList[l]
             PROVE  Done(s, b)'
  BY <1>1 DEF Examined
<1>4. k < i \/ (k = i /\ l < j) => Done(s, b)'
  <2>1. k < i \/ (k = i /\ l < j) => Done(s, b)
    BY DEF Examined
  <2> QED BY <1>3, <2>1, DoneKept
<1>5. CASE UNCHANGED <<i, j>>
  BY <1>4, <1>5
<1>6. CASE NextBuy /\ (i \in 1..Len(SellList) /\ j \in 1..Len(BuyList) =>
                          \A x, y : x = sell /\ y = buy => Done(x, y)')
  <2>1. i' = i /\ j' = j + 1
    BY <1>6 DEF NextBuy
  <2>2. CASE k = i /\ l = j
    <3>1. s = sell /\ b = buy
      BY <2>2 DEF sell, buy
    <3> QED BY <1>6, <2>2, <3>1
  <2> QED BY <1>2, <1>4, <2>1, <2>2
<1>7. CASE NextSell /\ \A x, m : i \in 1..Len(SellList) /\ x = sell
                                  /\ m \in 1..Len(BuyList) /\ m >= j =>
                          \A y : y = BuyList[m] => Done(x, y)'
  <2>1. i' = i + 1 /\ j' = 1
    BY <1>7 DEF NextSell
  <2>2. CASE k = i /\ l >= j
    <3>1. s = sell
      BY <2>2 DEF sell
    <3> QED BY <1>7, <2>2, <3>1
  <2> QED BY <1>2, <1>4, <2>1, <2>2
<1> QED BY <1>5, <1>6, <1>7

LEMMA ExaminedStep == BaseInv /\ Examined /\ [Next]_vars => Examined'
<1> SUFFICES ASSUME BaseInv, Examined, [Next]_vars, pc' = "scan" PROVE Examined'
  BY DEF Examined
<1>0. /\ i \in Nat /\ j \in Nat /\ i >= 1 /\ j >= 1
      /\ Len(SellList) \in Nat /\ Len(BuyList) \in Nat
  BY ListTypes DEF BaseInv, TypeOK, RoundInv
<1>1. CASE UserStep \/ Restart \/ UNCHANGED vars
  <2>1. UNCHANGED <<trades, pc, sells, buys, last, i, j, mem, newTrades, skipped>>
    <3>1. CASE UserStep
      BY <3>1, UserStepEffect DEF BaseInv, UserEffect, lists, scan, tx
    <3>2. CASE Restart \/ UNCHANGED vars
      BY <3>2 DEF Restart, vars, lists, scan, tx
    <3> QED BY <1>1, <3>1, <3>2
  <2>2. SellList' = SellList /\ BuyList' = BuyList
    BY <2>1 DEF SellList, BuyList
  <2>3. \A s, b : Done(s, b)' <=> Done(s, b)
    BY <2>1 DEF Done, TooNew, Rests, Unmatched, Tried, Traded
  <2> QED BY <2>1, <2>2, <2>3 DEF Examined
<1>2. CASE NextOrder
  <2>1. i' = 1 /\ j' = 1
    BY <1>2 DEF NextOrder
  <2>2. SellList' \in Seq(Orders) /\ BuyList' \in Seq(Orders)
    <3>1. TypeOK'
      BY BaseStep DEF BaseInv
    <3> QED BY <3>1 DEF TypeOK, SellList, BuyList
  <2>3. \A k \in 1..Len(SellList'), l \in 1..Len(BuyList') : ~ (k < i' \/ (k = i' /\ l < j'))
    BY <2>1, <2>2
  <2> QED BY <2>3 DEF Examined
<1>3. CASE SkipCandidate
  <2>1. RoundEffect /\ UNCHANGED mem /\ pc = "scan" /\ last' = last
    BY <1>3, SkipEffect DEF SkipCandidate
  <2>2. CASE Verdict = "nextSell" /\ NextSell
    <3>1. i <= Len(SellList) /\ (TooNew(sell) \/ j > Len(BuyList) \/ ~ Rests(sell))
      BY <1>0, <2>2 DEF Verdict, sell, Rests, Alive
    <3>2. ASSUME NEW s, s = sell, NEW l \in 1..Len(BuyList), l >= j, NEW b
          PROVE  Done(s, b)'
      <4>1. TooNew(s) \/ ~ Rests(s)
        BY <1>0, <3>1, <3>2
      <4>2. TooNew(s)' \/ ~ Rests(s)'
        BY <2>1, <4>1 DEF TooNew, Rests, Unmatched
      <4> QED BY <4>2 DEF Done
    <3> QED BY <2>1, <2>2, <3>2, ScanGoesOn
  <2>3. CASE Verdict = "nextBuy" /\ NextBuy
    <3>1. TooNew(buy) \/ ~ Rests(buy) \/ (IsMarket(sell) /\ IsMarket(buy))
      BY <2>3 DEF Verdict, sell, buy, Rests, Alive
    <3>2. ASSUME NEW s, s = sell, NEW b, b = buy PROVE Done(s, b)'
      <4>1. TooNew(b) \/ ~ Rests(b) \/ (IsMarket(s) /\ IsMarket(b))
        BY <3>1, <3>2
      <4>2. TooNew(b)' \/ ~ Rests(b)' \/ (IsMarket(s) /\ IsMarket(b))
        BY <2>1, <4>1 DEF TooNew, Rests, Unmatched
      <4> QED BY <4>2 DEF Done, IsMarket
    <3> QED BY <2>1, <2>3, <3>2, ScanGoesOn
  <2> QED BY <1>3, <2>2, <2>3 DEF SkipCandidate
<1>4. CASE Validate
  <2>1. RoundEffect /\ pc = "scan"
    BY <1>4, ValidateEffect DEF Validate
  <2>2. CASE UNCHANGED <<mem, i, j>>
    BY <2>1, <2>2, ScanGoesOn
  <2>3. CASE NextBuy /\ mem'[buy].status = "canceled"
    <3>1. ASSUME NEW s, NEW b, b = buy PROVE Done(s, b)'
      <4>1. ~ Rests(b)'
        BY <2>3, <3>1 DEF Rests
      <4> QED BY <4>1 DEF Done
    <3> QED BY <2>1, <2>3, <3>1, ScanGoesOn
  <2>4. CASE NextSell /\ mem'[sell].status = "canceled"
    <3>1. ASSUME NEW s, s = sell, NEW b PROVE Done(s, b)'
      <4>1. ~ Rests(s)'
        BY <2>4, <3>1 DEF Rests
      <4> QED BY <4>1 DEF Done
    <3> QED BY <2>1, <2>4, <3>1, ScanGoesOn
  <2> QED BY <1>4, <2>2, <2>3, <2>4, ValidateEffect
<1>5. CASE RejectMatch \/ FailedMatch
  <2>1. RoundEffect /\ pc = "scan" /\ NextBuy /\ <<sell, buy>> \in skipped'
    BY <1>5, RejectEffect, FailedEffect DEF RejectMatch, FailedMatch
  <2>2. \A s, b : s = sell /\ b = buy => Done(s, b)'
    BY <2>1 DEF Done, Tried
  <2> QED BY <2>1, <2>2, ScanGoesOn
<1>6. CASE MatchTwoOrders
  <2>1. RoundEffect /\ pc = "scan" /\ NextBuy
    BY <1>6, MatchEffect DEF MatchTwoOrders
  <2>2. PICK a, p : Deal(a, p)
    BY <1>6, MatchEffect
  <2>3. \A s, b : s = sell /\ b = buy => Done(s, b)'
    <3> SUFFICES ASSUME NEW s, s = sell, NEW b, b = buy PROVE Done(s, b)'
      OBVIOUS
    <3>1. [sell |-> s, buy |-> b, price |-> p, amount |-> a] \in newTrades'
      BY <2>2 DEF Deal
    <3>2. \E t \in newTrades' : t.sell = s /\ t.buy = b
      BY <3>1
    <3> QED BY <3>2 DEF Done, Tried, Traded
  <2> QED BY <2>1, <2>3, ScanGoesOn
<1>7. CASE StartRound \/ CommitRound \/ RoundFails \/ FinishMatching
  BY <1>7 DEF StartRound, CommitRound, RoundFails, EndRound, FinishMatching
<1>8. CASE ReturnFromScan \/ ForbiddenMatching
  BY <1>8, ReturnEffect, ForbiddenEffect
<1> QED BY <1>1, <1>2, <1>3, <1>4, <1>5, <1>6, <1>7, <1>8 DEF Next

LEMMA ExaminedHolds == Spec => []Examined
<1>1. Init => Examined
  BY DEF Init, Examined
<1> QED BY <1>1, BaseHolds, ExaminedStep, PTL DEF Spec

-----------------------------------------------------------------------------
(* Price-time priority *)

LEMMA BetterAsym ==
  ASSUME TypeOK, NEW a \in Orders, NEW b \in Orders, Side[a] = Side[b], Better(a, b)
  PROVE  ~ Better(b, a)
<1>1. Prices \subseteq Nat
  BY MatchRoundAssumption
<1>2. \A o \in Orders : ord[o].price \in Prices \cup {0} /\ ord[o].born \in Nat
  BY DEF TypeOK, Rows
<1>3. \A o \in Orders : ord[o].price \in Nat
  BY <1>1, <1>2
<1>4. IsSell(a) <=> IsSell(b)
  BY DEF IsSell
<1> QED BY <1>2, <1>3, <1>4 DEF Better

\* The order of the lists, as the round's objects show it
LEMMA AheadBetter ==
  ASSUME BaseInv, NEW a \in Orders, NEW b \in Orders, Side[a] = Side[b],
         ~ IsMarket(a), ~ IsMarket(b),
         mem[a].status \notin Unseen, mem[b].status \notin Unseen
  PROVE  Ahead(a, b) <=> Better(a, b)
<1>1. SameOrder(a) /\ SameOrder(b)
  BY DEF BaseInv, Snapshot
<1>2. /\ mem[a].price \in Nat /\ mem[b].price \in Nat
      /\ mem[a].born \in Nat /\ mem[b].born \in Nat
  BY OpenFacts DEF BaseInv
<1>3. PICK x, y, m, n : /\ x \in Nat /\ x = mem[a].price /\ x = ord[a].price
                        /\ y \in Nat /\ y = mem[b].price /\ y = ord[b].price
                        /\ m \in Nat /\ m = mem[a].born /\ m = ord[a].born
                        /\ n \in Nat /\ n = mem[b].born /\ n = ord[b].born
  BY <1>1, <1>2 DEF SameOrder
<1>4. CASE IsSell(a)
  <2>1. Ahead(a, b) <=> (y - x > 0 \/ (y - x = 0 /\ m < n))
    BY <1>3, <1>4 DEF Ahead
  <2>2. Better(a, b) <=> (x < y \/ (x = y /\ m < n))
    BY <1>3, <1>4 DEF Better
  <2> QED BY <1>3, <2>1, <2>2
<1>5. CASE ~ IsSell(a)
  <2>1. Ahead(a, b) <=> (x - y > 0 \/ (x - y = 0 /\ m < n))
    BY <1>3, <1>5 DEF Ahead
  <2>2. Better(a, b) <=> (x > y \/ (x = y /\ m < n))
    BY <1>3, <1>5 DEF Better
  <2> QED BY <1>3, <2>1, <2>2
<1> QED BY <1>4, <1>5

LEMMA SellsAhead ==
  ASSUME BaseInv, Candidates, last = None \/ ~ IsSell(last),
         NEW o \in Orders, mem[o].status = "active", IsSell(o), Better(o, sell)
  PROVE  \E k \in 1..Len(SellList) : k < i /\ SellList[k] = o
<1>0. TypeOK /\ BookInv
  BY DEF BaseInv
<1>1. SellList = sells
  BY DEF SellList
<1>2. PICK k \in 1..Len(sells) : sells[k] = o
  BY <1>0 DEF BookInv
<1>3. i \in 1..Len(sells) /\ sell = sells[i] /\ sell \in Orders /\ Side[o] = Side[sell]
  BY <1>1 DEF Candidates, InBook, sell, IsSell
<1>4. ~ Better(sell, o) /\ o # sell
  <2>1. ~ Better(sell, o)
    BY <1>0, <1>3, BetterAsym
  <2> QED BY <2>1
<1>5. ~ (i < k)
  BY <1>0, <1>2, <1>3, <1>4 DEF BookInv
<1>6. i # k
  BY <1>2, <1>3, <1>4
<1> QED BY <1>1, <1>2, <1>3, <1>5, <1>6

LEMMA BuysAhead ==
  ASSUME BaseInv, Candidates, last = None \/ IsSell(last),
         NEW o \in Orders, mem[o].status = "active", ~ IsSell(o), Better(o, buy)
  PROVE  \E k \in 1..Len(BuyList) : k < j /\ BuyList[k] = o
<1>0. TypeOK /\ BookInv
  BY DEF BaseInv
<1>1. BuyList = buys
  BY DEF BuyList
<1>2. PICK k \in 1..Len(buys) : buys[k] = o
  BY <1>0 DEF BookInv
<1>3. j \in 1..Len(buys) /\ buy = buys[j] /\ buy \in Orders /\ Side[o] = Side[buy]
  <2>1. j \in 1..Len(buys) /\ buy = buys[j] /\ buy \in Orders /\ ~ IsSell(buy)
    BY <1>1 DEF Candidates, InBook, buy
  <2> QED BY <2>1, MatchRoundAssumption DEF IsSell
<1>4. ~ Better(buy, o) /\ o # buy
  <2>1. ~ Better(buy, o)
    BY <1>0, <1>3, BetterAsym
  <2> QED BY <2>1
<1>5. ~ (j < k)
  BY <1>0, <1>2, <1>3, <1>4 DEF BookInv
<1>6. j # k
  BY <1>2, <1>3, <1>4
<1> QED BY <1>1, <1>2, <1>3, <1>5, <1>6

\* An active market order has its scan now, or is newer than the one that has.
LEMMA MarketIsNew ==
  ASSUME BaseInv, pc = "scan", NEW o \in Orders, IsMarket(o), mem[o].status = "active"
  PROVE  last # None /\ (o = last \/ TooNew(o))
<1>0. QueueInv /\ Snapshot /\ TypeOK
  BY DEF BaseInv
<1>1. (\E k \in 1..Len(queue) : queue[k] = o) \/ o = last
  BY <1>0 DEF QueueInv, IsMarket
<1>2. CASE o = last
  BY <1>2, MatchRoundAssumption
<1>3. CASE o # last
  <2>1. PICK k \in 1..Len(queue) : queue[k] = o
    BY <1>1, <1>3
  <2>2. last # None
    <3>1. SUFFICES ASSUME last = None PROVE FALSE
      OBVIOUS
    <3>2. queue = <<>>
      BY <1>0, <3>1 DEF QueueInv
    <3> QED BY <2>1, <3>2
  <2>3. Older(last, o) /\ InBook(last)
    BY <1>0, <2>1, <2>2 DEF QueueInv
  <2>4. SameOrder(o) /\ SameOrder(last)
    BY <1>0, <2>3 DEF Snapshot, InBook, Unseen
  <2>5. ord[o].born \in Nat /\ ord[last].born \in Nat
    BY <1>0, <2>3 DEF TypeOK, Rows, InBook
  <2> QED BY <2>2, <2>3, <2>4, <2>5 DEF Older, SameOrder, TooNew
<1> QED BY <1>2, <1>3

\* Facts about the two candidates and the order whose scan it is
LEMMA ScanOf ==
  ASSUME BaseInv, Candidates
  PROVE  /\ last # None /\ IsSell(last) => last = sell
         /\ last # None /\ ~ IsSell(last) => last = buy
<1>1. i \in 1..Len(SellList) /\ j \in 1..Len(BuyList)
  BY DEF Candidates
<1>2. CASE last # None /\ IsSell(last)
  <2>1. SellList = <<last>>
    BY <1>2 DEF SellList
  <2>2. i = 1
    BY <1>1, <2>1
  <2> QED BY <1>2, <2>1, <2>2 DEF sell
<1>3. CASE last # None /\ ~ IsSell(last)
  <2>1. BuyList = <<last>>
    BY <1>3 DEF BuyList
  <2>2. j = 1
    BY <1>1, <2>1
  <2> QED BY <1>3, <2>1, <2>2 DEF buy
<1> QED BY <1>2, <1>3

\* A scan makes its order the taker, unless the two were created together.
LEMMA LastIsTaker ==
  ASSUME BaseInv, Candidates, pc = "scan", last # None,
         NEW t, t.sell = sell, t.buy = buy
  PROVE  last = Taker(t)
<1>1. /\ sell \in Orders /\ buy \in Orders /\ sell # buy
      /\ mem[sell].status = "active" /\ mem[buy].status = "active"
      /\ ~ TooNew(sell) /\ ~ TooNew(buy)
  BY DEF Candidates, InBook, Alive
<1>2. /\ mem[sell].born \in Nat /\ mem[buy].born \in Nat
  BY <1>1, OpenFacts DEF BaseInv, Unseen
<1>3. mem[sell].born # mem[buy].born
  <2>1. SameOrder(sell) /\ SameOrder(buy)
    BY <1>1 DEF BaseInv, Snapshot, Unseen
  <2>2. ord[sell].born # ord[buy].born
    BY <1>1, <2>1 DEF BaseInv, RowsInv, SameOrder, Unseen
  <2> QED BY <2>1, <2>2 DEF SameOrder
<1>4. /\ mem[sell].born <= mem[last].born /\ mem[buy].born <= mem[last].born
  <2>1. last = sell \/ last = buy
    BY ScanOf
  <2> QED BY <1>1, <1>2, <2>1 DEF TooNew
<1>5. /\ IsMarket(sell) => last = sell
      /\ IsMarket(buy) => last = buy
  BY <1>1, MarketIsNew
<1>6. CASE last = sell
  <2>1. ~ IsMarket(buy) /\ mem[buy].born < mem[sell].born
    BY <1>1, <1>2, <1>3, <1>4, <1>5, <1>6
  <2>2. ~ IsSellerMaker(sell, buy)
    BY <1>2, <2>1 DEF IsSellerMaker
  <2> QED BY <1>6, <2>2 DEF Taker
<1>7. CASE last = buy
  <2>1. ~ IsMarket(sell) /\ mem[sell].born < mem[buy].born
    BY <1>1, <1>2, <1>3, <1>4, <1>5, <1>7
  <2>2. IsSellerMaker(sell, buy)
    BY <1>2, <2>1 DEF IsSellerMaker
  <2> QED BY <1>7, <2>2 DEF Taker
<1> QED BY <1>6, <1>7, ScanOf

LEMMA DealPriority ==
  ASSUME BaseInv, Examined, Candidates, pc = "scan",
         NEW t, t.sell = sell, t.buy = buy, NEW o \in Orders, PassedOver(t, o)
  PROVE  TriedWith(o, Taker(t))
<1>1. /\ sell \in Orders /\ buy \in Orders /\ IsSell(sell) /\ ~ IsSell(buy) /\ sell # buy
      /\ mem[sell].status = "active" /\ mem[buy].status = "active"
      /\ Rests(sell) /\ Rests(buy) /\ ~ TooNew(sell) /\ ~ TooNew(buy)
      /\ ~ (IsMarket(sell) /\ IsMarket(buy))
      /\ i \in 1..Len(SellList) /\ j \in 1..Len(BuyList)
  BY DEF Candidates, InBook, Alive, Rests
<1>2. /\ Rests(o) /\ Side[o] = Side[Maker(t)] /\ Ahead(o, Maker(t))
      /\ mem[o].born < mem[Taker(t)].born /\ mem[o].status = "active"
  BY DEF PassedOver, Rests
<1>3. \/ Maker(t) = sell /\ Taker(t) = buy
      \/ Maker(t) = buy /\ Taker(t) = sell
  BY DEF Maker, Taker
<1>4. ~ IsMarket(Maker(t))
  BY <1>1 DEF Maker, IsSellerMaker
<1>5. last # None => last = Taker(t)
  BY LastIsTaker
<1>6. ~ TooNew(o)
  <2>1. mem[o].born \in Nat /\ mem[Taker(t)].born \in Nat
    BY <1>1, <1>2, <1>3, OpenFacts DEF BaseInv, Unseen
  <2> QED BY <1>2, <1>5, <2>1 DEF TooNew
<1>7. ~ IsMarket(o)
  <2>1. o # Taker(t)
    BY <1>1, <1>2, <1>3 DEF IsSell
  <2> QED BY <1>2, <1>5, <1>6, <2>1, MarketIsNew
<1>8. Better(o, Maker(t))
  <2>1. Maker(t) \in Orders /\ mem[Maker(t)].status \notin Unseen /\ mem[o].status \notin Unseen
    BY <1>1, <1>2, <1>3 DEF Unseen
  <2> QED BY <1>2, <1>4, <1>7, <2>1, AheadBetter
<1>9. CASE Maker(t) = sell /\ Taker(t) = buy
  <2>1. IsSell(o) /\ (last = None \/ ~ IsSell(last))
    BY <1>1, <1>2, <1>5, <1>9 DEF IsSell
  <2>2. PICK k \in 1..Len(SellList) : k < i /\ SellList[k] = o
    BY <1>2, <1>8, <1>9, <2>1, SellsAhead
  <2>3. Done(o, buy)
    BY <1>1, <2>2 DEF Examined, buy
  <2>4. Tried(o, buy)
    BY <1>1, <1>2, <1>6, <1>7, <2>3 DEF Done
  <2> QED BY <1>9, <2>1, <2>4 DEF TriedWith
<1>10. CASE Maker(t) = buy /\ Taker(t) = sell
  <2>1. ~ IsSell(o) /\ (last = None \/ IsSell(last))
    BY <1>1, <1>2, <1>5, <1>10 DEF IsSell
  <2>2. PICK k \in 1..Len(BuyList) : k < j /\ BuyList[k] = o
    BY <1>2, <1>8, <1>10, <2>1, BuysAhead
  <2>3. Done(sell, o)
    BY <1>1, <2>2 DEF Examined, sell
  <2>4. Tried(sell, o)
    BY <1>1, <1>2, <1>6, <1>7, <2>3 DEF Done
  <2> QED BY <1>10, <2>1, <2>4 DEF TriedWith
<1> QED BY <1>3, <1>9, <1>10

LEMMA PassedKept ==
  ASSUME BaseInv, RoundEffect, NEW t \in Trades, NEW o \in Orders, PassedOver(t, o)'
  PROVE  PassedOver(t, o) /\ Taker(t)' = Taker(t)
<1>1. t.sell \in Orders /\ t.buy \in Orders
  BY DEF Trades
<1>2. \A q \in Orders : mem'[q].price = mem[q].price /\ mem'[q].born = mem[q].born
  BY DEF RoundEffect, KeptMem, Kept
<1>3. Maker(t)' = Maker(t) /\ Taker(t)' = Taker(t)
  BY <1>1, <1>2 DEF Maker, Taker, IsSellerMaker, IsMarket
<1>4. Maker(t) \in Orders /\ Taker(t) \in Orders
  BY <1>1 DEF Maker, Taker
<1>5. PICK m, q : m = Maker(t) /\ q = Taker(t) /\ m \in Orders /\ q \in Orders
  BY <1>4
<1>6. /\ Rests(o)' /\ Side[o] = Side[m] /\ Ahead(o, m)' /\ mem'[o].born < mem'[q].born
  BY <1>3, <1>5 DEF PassedOver
<1>7. Rests(o)
  BY <1>6, RestsShrink
<1>8. Ahead(o, m)
  BY <1>2, <1>5, <1>6 DEF Ahead, IsSell
<1> QED BY <1>2, <1>3, <1>5, <1>6, <1>7, <1>8 DEF PassedOver

LEMMA RoundPriority ==
  ASSUME BaseInv, PriorityInv, RoundEffect,
         \A t \in newTrades' \ newTrades, o \in Orders :
           PassedOver(t, o) => TriedWith(o, Taker(t))
  PROVE  PriorityInv'
<1> SUFFICES ASSUME NEW t \in newTrades', NEW o \in Orders, PassedOver(t, o)'
             PROVE  TriedWith(o, Taker(t))'
  BY DEF PriorityInv
<1>1. t \in Trades
  BY DEF RoundEffect
<1>2. PassedOver(t, o) /\ Taker(t)' = Taker(t)
  BY <1>1, PassedKept
<1>3. TriedWith(o, Taker(t))
  BY <1>2 DEF PriorityInv
<1>4. PICK q : q = Taker(t)
  OBVIOUS
<1>5. TriedWith(o, q)'
  BY <1>3, <1>4, TriedGrows DEF TriedWith, IsSell
<1> QED BY <1>2, <1>4, <1>5

LEMMA PriorityStep == BaseInv /\ Examined /\ PriorityInv /\ [Next]_vars => PriorityInv'
<1> SUFFICES ASSUME BaseInv, Examined, PriorityInv, [Next]_vars PROVE PriorityInv'
  OBVIOUS
<1>1. CASE UserStep \/ Restart \/ NextOrder \/ UNCHANGED vars
  <2>1. UNCHANGED <<trades, mem, newTrades, skipped>>
    <3>1. CASE UserStep
      BY <3>1, UserStepEffect DEF BaseInv, UserEffect, tx
    <3>2. CASE Restart \/ NextOrder \/ UNCHANGED vars
      BY <3>2 DEF Restart, NextOrder, vars, tx
    <3> QED BY <1>1, <3>1, <3>2
  <2>2. \A t : Maker(t)' = Maker(t) /\ Taker(t)' = Taker(t)
    BY <2>1 DEF Maker, Taker, IsSellerMaker, IsMarket
  <2>3. \A t, o : PassedOver(t, o)' <=> PassedOver(t, o)
    BY <2>1, <2>2 DEF PassedOver, Rests, Unmatched, Ahead, IsSell
  <2>4. \A o, q : TriedWith(o, q)' <=> TriedWith(o, q)
    BY <2>1 DEF TriedWith, Tried, Traded, IsSell
  <2> QED BY <2>1, <2>2, <2>3, <2>4 DEF PriorityInv
<1>2. CASE StartRound \/ CommitRound \/ RoundFails
  <2>1. newTrades' = {}
    BY <1>2 DEF StartRound, CommitRound, RoundFails, EndRound
  <2> QED BY <2>1 DEF PriorityInv
<1>3. CASE \/ SkipCandidate \/ ReturnFromScan \/ ForbiddenMatching \/ Validate
           \/ RejectMatch \/ FailedMatch \/ FinishMatching
  <2>1. RoundEffect /\ newTrades' = newTrades
    BY <1>3, SkipEffect, ReturnEffect, ForbiddenEffect, ValidateEffect, RejectEffect,
       FailedEffect, FinishEffect
  <2> QED BY <2>1, RoundPriority
<1>4. CASE MatchTwoOrders
  <2>1. RoundEffect /\ Candidates /\ pc = "scan"
    BY <1>4, MatchEffect DEF MatchTwoOrders
  <2>2. PICK a, p : Deal(a, p)
    BY <1>4, MatchEffect
  <2>3. \A t \in newTrades' \ newTrades : t.sell = sell /\ t.buy = buy
    BY <2>2 DEF Deal
  <2>4. \A t \in newTrades' \ newTrades, o \in Orders :
          PassedOver(t, o) => TriedWith(o, Taker(t))
    BY <2>1, <2>3, DealPriority
  <2> QED BY <2>1, <2>4, RoundPriority
<1> QED BY <1>1, <1>2, <1>3, <1>4 DEF Next

LEMMA PriorityHolds == Spec => []PriorityInv
<1>1. Init => PriorityInv
  BY DEF Init, PriorityInv
<1> QED BY <1>1, BaseHolds, ExaminedHolds, PriorityStep, PTL DEF Spec

\* NoTradeThrough: for every book and every order of events, a round's trades keep
\* price-time priority among the orders it has fetched.
THEOREM PriorityCorrect == Spec => []NoTradeThrough
<1>1. PriorityInv => NoTradeThrough
  BY DEF PriorityInv, NoTradeThrough, PassedOver, TriedWith
<1> QED BY <1>1, PriorityHolds, PTL

-----------------------------------------------------------------------------
(* L1: all possible matchings are executed *)

\* Among limit orders of a list, prices only get worse.
LEMMA ListPrices ==
  ASSUME BaseInv
  PROVE  /\ \A k, l \in 1..Len(sells) :
              k <= l /\ ~ IsMarket(sells[k]) /\ ~ IsMarket(sells[l])
                => mem[sells[k]].price <= mem[sells[l]].price
         /\ \A k, l \in 1..Len(buys) :
              k <= l /\ ~ IsMarket(buys[k]) /\ ~ IsMarket(buys[l])
                => mem[buys[k]].price >= mem[buys[l]].price
<1>0. BookInv /\ Snapshot /\ TypeOK /\ RowsInv
  BY DEF BaseInv
<1>1. \A o : InBook(o) => mem[o].price = ord[o].price /\ mem[o].price \in Nat
  BY <1>0, OpenFacts DEF InBook, Snapshot, SameOrder
<1>2. ASSUME NEW k \in 1..Len(sells), NEW l \in 1..Len(sells),
             k <= l, ~ IsMarket(sells[k]), ~ IsMarket(sells[l])
      PROVE  mem[sells[k]].price <= mem[sells[l]].price
  <2>1. /\ InBook(sells[k]) /\ InBook(sells[l]) /\ IsSell(sells[k])
        /\ k < l => Better(sells[k], sells[l])
    BY <1>0 DEF BookInv
  <2>2. /\ mem[sells[k]].price = ord[sells[k]].price /\ mem[sells[k]].price \in Nat
        /\ mem[sells[l]].price = ord[sells[l]].price /\ mem[sells[l]].price \in Nat
    BY <1>1, <2>1
  <2>3. CASE k < l
    BY <1>2, <2>1, <2>2, <2>3 DEF Better
  <2>4. CASE k = l
    BY <2>2, <2>4
  <2> QED BY <1>2, <2>3, <2>4
<1>3. ASSUME NEW k \in 1..Len(buys), NEW l \in 1..Len(buys),
             k <= l, ~ IsMarket(buys[k]), ~ IsMarket(buys[l])
      PROVE  mem[buys[k]].price >= mem[buys[l]].price
  <2>1. /\ InBook(buys[k]) /\ InBook(buys[l]) /\ ~ IsSell(buys[k])
        /\ k < l => Better(buys[k], buys[l])
    BY <1>0 DEF BookInv
  <2>2. /\ mem[buys[k]].price = ord[buys[k]].price /\ mem[buys[k]].price \in Nat
        /\ mem[buys[l]].price = ord[buys[l]].price /\ mem[buys[l]].price \in Nat
    BY <1>1, <2>1
  <2>3. CASE k < l
    BY <1>3, <2>1, <2>2, <2>3 DEF Better
  <2>4. CASE k = l
    BY <2>2, <2>4
  <2> QED BY <1>3, <2>3, <2>4
<1> QED BY <1>2, <1>3

\* The closing scan has returned.
LEMMA ClosingScan ==
  ASSUME BaseInv, Examined, pc = "scan", last = None, Verdict = "return",
         NEW s \in Orders, NEW b \in Orders
  PROVE  Settled(s, b)
<1>0. BookInv /\ TypeOK /\ RoundInv /\ RowsInv
  BY DEF BaseInv
<1> SUFFICES ASSUME Rests(s), Rests(b), IsSell(s), ~ IsSell(b), Crosses(s, b), ~ Tried(s, b)
             PROVE  \E o \in Orders : Rests(o) /\ IsSell(o) /\ Ahead(o, s) /\ Tried(o, b)
  BY DEF Settled
<1>1. SellList = sells /\ BuyList = buys
  BY DEF SellList, BuyList
<1>2. mem[s].status = "active" /\ mem[b].status = "active"
  BY DEF Rests
<1>3. PICK k \in 1..Len(sells) : sells[k] = s
  BY <1>0, <1>2 DEF BookInv
<1>4. PICK l \in 1..Len(buys) : buys[l] = b
  BY <1>0, <1>2 DEF BookInv
<1>5. \A o \in Orders : mem[o].status = "active" => ~ IsMarket(o)
  BY MarketIsNew
<1>6. ~ Done(s, b)
  BY <1>2, <1>5 DEF Done, TooNew
<1>7. ~ (k < i \/ (k = i /\ l < j))
  BY <1>1, <1>3, <1>4, <1>6 DEF Examined
<1>8. /\ i \in Nat /\ j \in Nat /\ i >= 1 /\ j >= 1 /\ Len(sells) \in Nat /\ Len(buys) \in Nat
  BY <1>0 DEF TypeOK, RoundInv
<1>9. i \in 1..Len(sells)
  BY <1>7, <1>8
<1>10. sell = sells[i] /\ sell \in Orders /\ sell # last
  BY <1>0, <1>1, <1>9, MatchRoundAssumption DEF BookInv, InBook, sell
<1>11. j \in 1..Len(buys)
  BY <1>1, <1>8, <1>9 DEF Verdict, TooNew
<1>12. buy = buys[j] /\ buy \in Orders /\ buy # last
  BY <1>0, <1>1, <1>11, MatchRoundAssumption DEF BookInv, InBook, buy
<1>13. Alive(sell) /\ Alive(buy) /\ ~ Crosses(sell, buy)
  BY <1>1, <1>8, <1>9, <1>10, <1>11, <1>12 DEF Verdict, TooNew, sell, buy
<1>14. /\ mem[sell].status = "active" /\ mem[buy].status = "active"
       /\ ~ IsMarket(sell) /\ ~ IsMarket(buy) /\ ~ IsMarket(s) /\ ~ IsMarket(b)
  BY <1>2, <1>5, <1>10, <1>12, <1>13 DEF Alive
<1>15. PICK x, y, v, w : /\ x \in Nat /\ x = mem[s].price /\ y \in Nat /\ y = mem[b].price
                         /\ v \in Nat /\ v = mem[sell].price /\ w \in Nat /\ w = mem[buy].price
  BY <1>0, <1>2, <1>10, <1>12, <1>14, OpenFacts DEF Unseen
<1>16. y >= x /\ w < v
  BY <1>13, <1>14, <1>15 DEF Crosses
<1>17. v <= x
  <2>1. i <= k
    BY <1>7, <1>8
  <2> QED BY <1>3, <1>9, <1>10, <1>14, <1>15, <2>1, ListPrices
<1>18. l < j
  <2>1. SUFFICES ASSUME j <= l PROVE FALSE
    BY <1>8
  <2>2. w >= y
    BY <1>4, <1>11, <1>12, <1>14, <1>15, <2>1, ListPrices
  <2> QED BY SMTT(30), <1>15, <1>16, <1>17, <2>2
<1>19. i < k
  BY <1>7, <1>8, <1>18
<1>20. Rests(sell) /\ IsSell(sell)
  BY <1>0, <1>9, <1>10, <1>13 DEF Rests, Alive, BookInv
<1>21. Tried(sell, b)
  <2>1. Done(sell, b)
    BY <1>1, <1>4, <1>9, <1>10, <1>18 DEF Examined
  <2> QED BY <1>14, <1>20, <2>1 DEF Done, TooNew
<1>22. Ahead(sell, s)
  <2>1. Better(sell, s)
    BY <1>0, <1>3, <1>9, <1>10, <1>19 DEF BookInv
  <2> QED BY <1>2, <1>10, <1>14, <1>20, <2>1, AheadBetter DEF Unseen, IsSell
<1> QED BY <1>10, <1>20, <1>21, <1>22

LEMMA ClosedStep == BaseInv /\ Examined /\ ClosedInv /\ [Next]_vars => ClosedInv'
<1> SUFFICES ASSUME BaseInv, Examined, ClosedInv, [Next]_vars,
                    pc' \in {"finish", "commit"}, last' = None,
                    NEW s \in Orders, NEW b \in Orders
             PROVE  Settled(s, b)'
  BY DEF ClosedInv
<1>1. CASE UserStep \/ Restart \/ FinishMatching \/ UNCHANGED vars
  <2>1. UNCHANGED <<trades, mem, newTrades, skipped, last>> /\ pc \in {"finish", "commit"}
    <3>1. CASE UserStep
      BY <3>1, UserStepEffect DEF BaseInv, UserEffect, tx, scan
    <3>2. CASE Restart \/ FinishMatching \/ UNCHANGED vars
      BY <3>2 DEF Restart, FinishMatching, vars, tx, scan
    <3> QED BY <1>1, <3>1, <3>2
  <2>2. \A o \in Orders : ord[o].status = "active" => ord'[o].status = "active"
    <3>1. CASE UserStep
      BY <3>1, UserStepEffect DEF BaseInv, UserEffect, Unseen
    <3>2. CASE Restart \/ FinishMatching \/ UNCHANGED vars
      BY <3>2 DEF Restart, FinishMatching, vars, users
    <3> QED BY <1>1, <3>1, <3>2
  <2>3. Settled(s, b)
    BY <2>1 DEF ClosedInv
  <2>4. \A o : (Rests(o)' <=> Rests(o)) /\ \A q : (Tried(o, q)' <=> Tried(o, q))
    BY <2>1 DEF Rests, Unmatched, Tried, Traded
  <2>5. \A o, q : (Ahead(o, q)' <=> Ahead(o, q)) /\ (Crosses(o, q)' <=> Crosses(o, q))
    BY <2>1 DEF Ahead, Crosses, IsSell, IsMarket
  <2>6. ForbiddenFound => ForbiddenFound'
    BY <2>1, <2>2 DEF ForbiddenFound, IsSell
  <2> QED BY <2>3, <2>4, <2>5, <2>6 DEF Settled, IsSell
<1>2. CASE ReturnFromScan
  <2>1. /\ pc = "scan" /\ last = None /\ Verdict = "return"
        /\ UNCHANGED <<ord, trades, mem, newTrades, skipped>>
    BY <1>2 DEF ReturnFromScan, EndScan, scan, users
  <2>2. Settled(s, b)
    BY <2>1, ClosingScan
  <2> QED BY <2>1, <2>2 DEF Settled, Rests, Unmatched, Tried, Traded, Ahead, Crosses,
                            ForbiddenFound, IsSell, IsMarket
<1>3. CASE ForbiddenMatching
  <2>1. /\ Candidates /\ Owner[sell] \in Bots /\ Owner[buy] \in Bots
        /\ mem'[sell].status = "canceled" /\ mem'[buy].status = "canceled" /\ ord' = ord
    BY <1>3, ForbiddenEffect DEF RoundEffect, users
  <2>2. PICK x, y : x = sell /\ y = buy /\ x \in Orders /\ y \in Orders
    BY <2>1 DEF Candidates, InBook
  <2>3. /\ IsSell(x) /\ ~ IsSell(y) /\ Owner[x] \in Bots /\ Owner[y] \in Bots
        /\ \A o \in {x, y} : ord'[o].status = "active" /\ mem'[o].status = "canceled"
    BY <2>1, <2>2 DEF Candidates, InBook
  <2>4. ForbiddenFound'
    BY <2>2, <2>3 DEF ForbiddenFound, IsSell
  <2> QED BY <2>4 DEF Settled
<1>4. CASE \/ SkipCandidate \/ Validate \/ RejectMatch \/ FailedMatch \/ MatchTwoOrders
           \/ NextOrder \/ StartRound \/ CommitRound \/ RoundFails
  <2>1. pc' \notin {"finish", "commit"}
    BY <1>4 DEF SkipCandidate, Validate, ValidateOrder, RejectMatch, FailedMatch, MatchTwoOrders,
                NextOrder, StartRound, CommitRound, RoundFails, EndRound
  <2> QED BY <2>1
<1> QED BY <1>1, <1>2, <1>3, <1>4 DEF Next

\* AllMatchingsExecuted, L1 of match_all_orders_v3, with its two exceptions: the
\* closing scan leaves no two crossing orders that have not been tried.
THEOREM MatchingsCorrect == Spec => []AllMatchingsExecuted
<1>1. Init => ClosedInv
  BY DEF Init, ClosedInv
<1>2. ClosedInv => AllMatchingsExecuted
  BY DEF ClosedInv, AllMatchingsExecuted, Settled
<1> QED BY <1>1, <1>2, BaseHolds, ExaminedHolds, ClosedStep, PTL DEF Spec
=============================================================================
