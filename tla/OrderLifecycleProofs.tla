------------------------ MODULE OrderLifecycleProofs ------------------------
(***************************************************************************)
(* Proofs about OrderLifecycle, for any orders, OCO pairs, amounts and     *)
(* cancel requests, from the named assumptions of OrderLifecycle.  The     *)
(* three theorems about the pair cancel inside a trade also assume that no *)
(* request is a batch cancel, which can deadlock with it.                  *)
(***************************************************************************)
EXTENDS OrderLifecycle, TLAPS

-----------------------------------------------------------------------------
(* What the matcher has at hand *)

Matching == {"match", "trade", "pair"}
InRound == Matching \cup {"save"}
Trading == {"trade", "pair"}
Stopping == {"activate", "oco"}

\* The order whose matched amount is being increased
CurOrder == IF cur.side = "sell" THEN cur.sell ELSE cur.buy

\* The sides of the running trade whose objects are still to be increased
Due == IF mpc = "trade" /\ cur.side = "sell" THEN {cur.sell, cur.buy}
       ELSE IF mpc = "trade" \/ (mpc = "pair" /\ cur.side = "sell") THEN {cur.buy}
       ELSE {}

\* The running trade is between a sell and a buy of the book; the savepoint has
\* the writes that were there before it.
CurTyped ==
  mpc \in Trading =>
    /\ cur \in [sell : Orders, buy : Orders, amount : Nat \ {0}, side : {"sell", "buy"},
                saved : [Orders -> {None, "canceled"}]]
    /\ cur.sell \in pending /\ cur.buy \in pending
    /\ Side[cur.sell] = "sell" /\ Side[cur.buy] = "buy"
    /\ \A o \in Orders : cur.saved[o] # None => written[Matcher][o] # None

\* What a round keeps is about its book, and nothing outlives it.
RoundLists ==
  /\ pending \subseteq book /\ cancels \subseteq book
  /\ mpc \notin InRound => book = {}
  /\ mpc \in InRound => \A o \in book : mem[o].status \in {"active", "canceled", "done"}
  /\ \A o \in Orders \ pending : newTraded[o] = 0
  /\ mpc \notin Stopping => act = {}

\* The statement the matcher runs
MatcherStmt ==
  /\ mpc \notin {"pair", "save", "activate", "oco"} => stmt[Matcher].rows = {}
  /\ mpc \in {"pair", "save", "oco"} => stmt[Matcher].set = "canceled"
  /\ mpc = "pair" => stmt[Matcher].rows \subseteq {Pair[CurOrder]}
  /\ mpc = "activate" => stmt[Matcher].set = "active" /\ stmt[Matcher].rows \subseteq act

\* Requests only cancel.
RequestWrites ==
  \A c \in Requests : /\ stmt[c].set = "canceled"
                      /\ \A o \in Orders : written[c][o] \in {None, "canceled"}

\* A round cancels until its objects are saved; only the stop orders that were
\* reached are activated.
MatcherWrites ==
  \A o \in Orders :
    /\ mpc \in {"idle", "stops"} => written[Matcher][o] = None
    /\ mpc \in Matching => written[Matcher][o] \in {None, "canceled"}
    /\ mpc = "save" /\ o \notin pending => written[Matcher][o] \in {None, "canceled"}
    /\ mpc = "save" /\ o \in pending => written[Matcher][o] \in {mem[o].status, "canceled"}
    /\ mpc = "activate" => written[Matcher][o] \in {None, "active"}
    /\ mpc \in Stopping /\ written[Matcher][o] = "active" => o \in act
    /\ mpc = "oco" => written[Matcher][o] \in {None, "active", "canceled"}

\* A request that cancels one order knows which, and goes on to a pair that exists.
ReqTyped ==
  \A c \in Requests :
    /\ req[c].pc # "idle" /\ req[c].kind # "batch" => req[c].order \in Orders
    /\ req[c].pc = "pair" => req[c].kind # "batch" /\ Pair[req[c].order] # None

Shape == /\ TypeOK /\ CurTyped /\ RoundLists /\ MatcherStmt
         /\ RequestWrites /\ MatcherWrites /\ ReqTyped

\* A status written into a row leaves its matched amount alone.
LEMMA WithStatus ==
  ASSUME NEW r \in Rows, NEW st \in RowStatuses
  PROVE  /\ [r EXCEPT !.status = st] \in Rows
         /\ [r EXCEPT !.status = st].status = st
         /\ [r EXCEPT !.status = st].matched = r.matched
BY DEF Rows

LEMMA TypeStep == Shape /\ [Next]_vars => TypeOK'
<1> SUFFICES ASSUME Shape, [Next]_vars PROVE TypeOK'
  OBVIOUS
<1>0. TypeOK /\ CurTyped /\ RoundLists /\ ReqTyped /\ Matcher \in Procs /\ Requests \subseteq Procs
  BY DEF Shape, Procs
<1> USE DEF db, txs, round
<1> DEFINE StmtType == [rows : SUBSET Orders, set : Statuses, check : SUBSET Statuses]
           ReqType == [pc : {"idle", "update", "pair"}, kind : {"view", "task", "batch"},
                       order : Orders \cup {None}, pairStatus : RowStatuses \cup {None}]
<1>1. \A p \in Procs, o \in Orders : Seen(p, o) \in RowStatuses
  BY <1>0 DEF TypeOK, Seen, Rows, RowStatuses
<1>2. NoRow \in Rows /\ NoWrites \in [Orders -> {None}]
      /\ NoStmt \in StmtType
  BY DEF NoRow, NoWrites, NoStmt, Rows, RowStatuses, Statuses, Closed
<1>3. CASE UNCHANGED vars
  BY <1>0, <1>3 DEF vars, TypeOK
<1>4. ASSUME NEW o \in Orders, CreateOrder(o) PROVE TypeOK'
  <2>1. row' \in [Orders -> Rows]
    BY <1>0, <1>4 DEF CreateOrder, TypeOK, Rows, InitialStatus, RowStatuses, Statuses, Open
  <2> QED BY <1>0, <1>4, <2>1 DEF CreateOrder, TypeOK
<1>5. ASSUME NEW p \in Procs, NEW o \in Orders, UpdateRow(p, o) PROVE TypeOK'
  <2>1. stmt[p] \in StmtType /\ stmt \in [Procs -> StmtType]
    BY <1>0 DEF TypeOK
  <2>2. [stmt[p] EXCEPT !.rows = @ \ {o}] \in StmtType /\ stmt[p].set \in Statuses
    BY <2>1
  <2>3. stmt' \in [Procs -> StmtType]
    BY <1>5, <2>1, <2>2 DEF UpdateRow
  <2>4. lock' \in [Orders -> Procs \cup {None}]
    BY <1>0, <1>5 DEF UpdateRow, TypeOK
  <2>5. written' \in [Procs -> [Orders -> Statuses \cup {None}]]
    <3>1. written \in [Procs -> [Orders -> Statuses \cup {None}]]
      BY <1>0 DEF TypeOK
    <3>2. [written[p] EXCEPT ![o] = stmt[p].set] \in [Orders -> Statuses \cup {None}]
      BY <2>2, <3>1
    <3> QED BY <1>5, <3>1, <3>2 DEF UpdateRow
  <2> QED BY <1>0, <1>5, <2>3, <2>4, <2>5 DEF UpdateRow, TypeOK
<1>6. CASE StartRound
  BY <1>0, <1>2, <1>6 DEF StartRound, RoundLocks, TypeOK
<1>7. ASSUME NEW o \in Orders, CancelInMemory(o) PROVE TypeOK'
  <2>1. mem' \in [Orders -> Rows]
    BY <1>0, <1>7 DEF CancelInMemory, TypeOK, Rows, RowStatuses, Statuses, Closed
  <2> QED BY <1>0, <1>7, <2>1 DEF CancelInMemory, TypeOK
<1>8. ASSUME NEW s \in Orders, NEW b \in Orders, NEW a \in 1..Amount[s], MatchTwoOrders(s, b, a)
      PROVE  TypeOK'
  BY <1>0, <1>8 DEF MatchTwoOrders, TypeOK
<1>9. ASSUME mpc \in Trading, NextSide
      PROVE  newTrades' \subseteq Orders \X Orders /\ newTraded' \in [Orders -> Nat]
             /\ mpc' \in {"match", "trade"}
  <2>1. cur.sell \in Orders /\ cur.buy \in Orders /\ cur.amount \in Nat
    BY <1>0, <1>9 DEF CurTyped, RoundLists, TypeOK
  <2> QED BY SMTT(30), <1>0, <1>9, <2>1 DEF NextSide, TypeOK
<1>10. CASE IncreaseOrderMatchedAmount
  <2>1. CurOrder \in Orders /\ cur.amount \in Nat
    BY <1>0, <1>10 DEF IncreaseOrderMatchedAmount, CurTyped, Trading, RoundLists, TypeOK, CurOrder
  <2>2. mem' \in [Orders -> Rows]
    BY <1>0, <1>10, <2>1 DEF IncreaseOrderMatchedAmount, CurOrder, StatusAfter, TypeOK, Rows,
       RowStatuses, Statuses, Closed
  <2>3. Pair[CurOrder] # None => Pair[CurOrder] \in Orders /\ PairSeen(CurOrder) \in RowStatuses
    BY <1>0, <1>1, <2>1, PairAssumption DEF PairSeen, TypeOK
  <2>4. pairObj' \in [Orders -> RowStatuses \cup {None}]
    BY <1>0, <1>10, <2>1, <2>3 DEF IncreaseOrderMatchedAmount, CurOrder, CancelsPair, TypeOK,
       RowStatuses, Statuses, Closed
  <2>5. CASE CancelsPair(CurOrder)
    <3>1. stmt' \in [Procs -> StmtType]
      <4>1. stmt' = [stmt EXCEPT ![Matcher] = Update({Pair[CurOrder]}, "canceled", Statuses)]
        BY <1>10, <2>5 DEF IncreaseOrderMatchedAmount, CurOrder
      <4>2. Update({Pair[CurOrder]}, "canceled", Statuses) \in StmtType
        BY <2>3, <2>5 DEF CancelsPair, Update, Statuses, Closed
      <4>3. stmt \in [Procs -> StmtType]
        BY <1>0 DEF TypeOK
      <4> HIDE DEF StmtType
      <4> QED BY <4>1, <4>2, <4>3
    <3> QED BY <1>0, <1>10, <2>2, <2>4, <2>5, <3>1 DEF IncreaseOrderMatchedAmount, CurOrder, TypeOK
  <2>6. CASE ~ CancelsPair(CurOrder)
    <3>1. NextSide /\ UNCHANGED stmt
      BY <1>10, <2>6 DEF IncreaseOrderMatchedAmount, CurOrder
    <3> QED BY <1>0, <1>9, <1>10, <2>2, <2>4, <3>1 DEF IncreaseOrderMatchedAmount, Trading, TypeOK
  <2> QED BY <2>5, <2>6
<1>11. CASE PairCanceled
  BY <1>0, <1>9, <1>11 DEF PairCanceled, Trading, TypeOK
<1>12. CASE TradeFails
  <2>1. written' \in [Procs -> [Orders -> Statuses \cup {None}]]
    BY <1>0, <1>12 DEF TradeFails, CurTyped, Trading, TypeOK, Statuses, Closed
  <2> QED BY <1>0, <1>2, <1>12, <2>1 DEF TradeFails, TypeOK
<1>13. ASSUME NEW expired \in SUBSET System, SaveRound(expired) PROVE TypeOK'
  <2>1. \A o \in pending : mem[o].status \in Statuses
    BY <1>0, <1>13 DEF SaveRound, RoundLists, InRound, Matching, Statuses, Open, Closed
  <2>2. written' \in [Procs -> [Orders -> Statuses \cup {None}]]
    BY <1>0, <1>13, <2>1 DEF SaveRound, TypeOK, Statuses, Closed
  <2>3. {Pair[o] : o \in (cancels \ pending) \cup expired} \ {None} \subseteq Orders
    BY <1>0, <1>13, PairAssumption, OrdersAssumption DEF TypeOK
  <2>4. stmt' \in [Procs -> StmtType]
    BY <1>0, <1>13, <2>3 DEF SaveRound, Update, TypeOK, Statuses, Closed
  <2> QED BY <1>0, <1>13, <2>2, <2>4 DEF SaveRound, TypeOK
<1>14. DropRound => /\ book' \subseteq Orders /\ mem' \in [Orders -> Rows]
                    /\ pairObj' \in [Orders -> RowStatuses \cup {None}]
                    /\ pending' \subseteq Orders /\ cancels' \subseteq Orders
                    /\ newTrades' \subseteq Orders \X Orders /\ newTraded' \in [Orders -> Nat]
  BY <1>2 DEF DropRound
<1>15. CASE CommitRound
  <2>1. row' \in [Orders -> Rows]
    BY <1>0, <1>1, <1>15 DEF CommitRound, SavedMatched, TypeOK, Rows
  <2>2. written' \in [Procs -> [Orders -> Statuses \cup {None}]]
    BY <1>0, <1>2, <1>15 DEF CommitRound, TypeOK
  <2> QED BY <1>0, <1>14, <1>15, <2>1, <2>2 DEF CommitRound, Unlocked, TypeOK
<1>16. ASSUME NEW p \in Procs, Rollback(p)
       PROVE  /\ lock' \in [Orders -> Procs \cup {None}]
              /\ written' \in [Procs -> [Orders -> Statuses \cup {None}]]
              /\ stmt' \in [Procs -> StmtType]
  BY <1>0, <1>2, <1>16 DEF Rollback, Unlocked, TypeOK
<1>17. CASE RoundFails
  BY <1>0, <1>14, <1>16, <1>17 DEF RoundFails, TypeOK
<1>18. ASSUME NEW reached \in SUBSET Orders, ActivateStopOrders(reached) PROVE TypeOK'
  <2>1. stmt' \in [Procs -> StmtType]
    BY <1>0, <1>18 DEF ActivateStopOrders, Update, TypeOK, Statuses, Open
  <2> QED BY <1>0, <1>18, <2>1 DEF ActivateStopOrders, TypeOK
<1>19. CASE CancelOcoOrderPair
  <2>1. {Pair[o] : o \in act} \ {None} \subseteq Orders
    BY <1>0, PairAssumption DEF TypeOK
  <2>2. stmt' \in [Procs -> StmtType]
    BY <1>0, <1>19, <2>1 DEF CancelOcoOrderPair, Update, TypeOK, Statuses, Open, Closed
  <2> QED BY <1>0, <1>19, <2>2 DEF CancelOcoOrderPair, TypeOK
<1>20. ASSUME NEW p \in Procs, CommitStatuses(p)
       PROVE  /\ row' \in [Orders -> Rows]
              /\ lock' \in [Orders -> Procs \cup {None}]
              /\ written' \in [Procs -> [Orders -> Statuses \cup {None}]]
  <2>1. row' \in [Orders -> Rows]
    <3>1. ASSUME NEW o \in Orders PROVE [row[o] EXCEPT !.status = Seen(p, o)] \in Rows
      <4>1. row[o] \in Rows /\ Seen(p, o) \in RowStatuses
        BY <1>0, <1>1 DEF TypeOK
      <4> QED BY <4>1, WithStatus
    <3> QED BY <1>20, <3>1 DEF CommitStatuses
  <2> QED BY <1>0, <1>2, <1>20, <2>1 DEF CommitStatuses, Unlocked, TypeOK
<1>21. CASE CommitStops
  BY <1>0, <1>20, <1>21 DEF CommitStops, TypeOK
<1>22. CASE StopsFail
  BY <1>0, <1>16, <1>22 DEF StopsFail, TypeOK
<1>23. ASSUME NEW c \in Requests, NEW kind \in {"view", "task", "batch"},
              NEW o \in Orders \cup {None}, NEW ps \in RowStatuses \cup {None},
              NEW R \in SUBSET Orders, NEW check \in SUBSET Statuses,
              Begin(c, kind, o, ps, R, check)
       PROVE  TypeOK'
  <2>1. stmt' \in [Procs -> StmtType]
    BY <1>0, <1>23 DEF Begin, Update, TypeOK, Statuses, Closed
  <2>2. req' \in [Requests -> ReqType]
    BY <1>0, <1>23 DEF Begin, TypeOK
  <2> QED BY <1>0, <1>23, <2>1, <2>2 DEF Begin, TypeOK
<1>24. ASSUME NEW c \in Requests, NEW o \in Orders, ViewCancel(c, o) \/ TaskCancel(c, o)
       PROVE  TypeOK'
  <2>1. Swaps(o) => Pair[o] \in Orders
    BY PairAssumption DEF Swaps
  <2>2. row[o].status \in RowStatuses /\ Statuses \in SUBSET Statuses /\ None \in RowStatuses \cup {None}
    BY <1>0 DEF TypeOK, Rows
  <2>3. CASE ViewCancel(c, o)
    <3>1. PICK t \in Orders, ps \in RowStatuses \cup {None} : Begin(c, "view", t, ps, {t}, Statuses)
      BY <2>1, <2>2, <2>3 DEF ViewCancel
    <3> QED BY <1>23, <2>2, <3>1
  <2>4. CASE TaskCancel(c, o)
    BY <1>23, <2>2, <2>4 DEF TaskCancel
  <2> QED BY <1>24, <2>3, <2>4
<1>25. ASSUME NEW c \in Requests, NEW ids \in SUBSET Orders, BatchCancel(c, ids) PROVE TypeOK'
  <2>1. PICK R \in SUBSET Orders : Begin(c, "batch", None, None, R, Open)
    BY <1>25 DEF BatchCancel
  <2> QED BY <1>23, <2>1 DEF Statuses
<1>26. ASSUME NEW c \in Requests, CancelPair(c) PROVE TypeOK'
  <2>1. Pair[req[c].order] \in Orders
    BY <1>0, <1>26, PairAssumption DEF CancelPair, PairFollows, ReqTyped
  <2>2. req' \in [Requests -> ReqType]
    <3>1. req \in [Requests -> ReqType] /\ req' = [req EXCEPT ![c].pc = "pair"]
      BY <1>0, <1>26 DEF CancelPair, TypeOK
    <3>2. req[c] \in ReqType
      BY <3>1
    <3>3. [req[c] EXCEPT !.pc = "pair"] \in ReqType
      BY <3>2
    <3> HIDE DEF ReqType
    <3> QED BY <3>1, <3>3
  <2>3. stmt' \in [Procs -> StmtType]
    BY <1>0, <1>26, <2>1 DEF CancelPair, Update, TypeOK, Statuses, Closed
  <2>4. /\ row' \in [Orders -> Rows]
        /\ lock' \in [Orders -> Procs \cup {None}]
        /\ written' \in [Procs -> [Orders -> Statuses \cup {None}]]
    BY <1>0, <1>20, <1>26 DEF CancelPair, TypeOK
  <2> QED BY <1>0, <1>26, <2>2, <2>3, <2>4 DEF CancelPair, TypeOK
<1>27. ASSUME NEW c \in Requests, CancelDone(c) \/ CancelFails(c) PROVE TypeOK'
  <2>1. req' \in [Requests -> ReqType]
    <3>1. NoReq \in ReqType
      BY DEF NoReq
    <3> QED BY <1>0, <1>27, <3>1 DEF CancelDone, CancelFails, TypeOK
  <2>2. CASE CancelDone(c)
    BY <1>0, <1>20, <2>1, <2>2 DEF CancelDone, TypeOK
  <2>3. CASE CancelFails(c)
    BY <1>0, <1>16, <2>1, <2>3 DEF CancelFails, TypeOK
  <2> QED BY <1>27, <2>2, <2>3
<1> QED BY <1>3, <1>4, <1>5, <1>6, <1>7, <1>8, <1>10, <1>11, <1>12, <1>13, <1>15, <1>17, <1>18,
           <1>19, <1>21, <1>22, <1>24, <1>25, <1>26, <1>27
        DEF Next, MatcherStep, RequestStep

-----------------------------------------------------------------------------
(* What the operations do, row by row *)

LEMMA UpdateRowStmt ==
  ASSUME TypeOK, NEW p \in Procs, NEW o \in Orders, UpdateRow(p, o), NEW q \in Procs
  PROVE  /\ stmt'[q].rows = IF q = p THEN stmt[p].rows \ {o} ELSE stmt[q].rows
         /\ stmt'[q].set = stmt[q].set /\ stmt'[q].check = stmt[q].check
<1>1. stmt \in [Procs -> [rows : SUBSET Orders, set : Statuses, check : SUBSET Statuses]]
  BY DEF TypeOK
<1>2. stmt' = [stmt EXCEPT ![p] = [stmt[p] EXCEPT !.rows = @ \ {o}]]
  BY DEF UpdateRow
<1>3. stmt[p] \in [rows : SUBSET Orders, set : Statuses, check : SUBSET Statuses]
  BY <1>1
<1>4. stmt'[q] = IF q = p THEN [stmt[p] EXCEPT !.rows = @ \ {o}] ELSE stmt[q]
  BY <1>1, <1>2
<1> QED BY <1>3, <1>4

\* The row is written under its lock, unless the WHERE clause no longer holds.
LEMMA UpdateRowWrites ==
  ASSUME TypeOK, NEW p \in Procs, NEW o \in Orders, UpdateRow(p, o)
  PROVE  /\ o \in stmt[p].rows /\ lock[o] \in {None, p}
         /\ \/ /\ Seen(p, o) \in stmt[p].check
               /\ written'[p][o] = stmt[p].set
               /\ lock'[o] = p
            \/ /\ Seen(p, o) \notin stmt[p].check
               /\ written'[p][o] = written[p][o]
               /\ lock'[o] = lock[o]
         /\ \A q \in Procs, x \in Orders : q # p \/ x # o => written'[q][x] = written[q][x]
         /\ \A x \in Orders : x # o => lock'[x] = lock[x]
<1>1. written \in [Procs -> [Orders -> Statuses \cup {None}]] /\ lock \in [Orders -> Procs \cup {None}]
  BY DEF TypeOK
<1>2. CASE Seen(p, o) \in stmt[p].check
  BY <1>1, <1>2 DEF UpdateRow
<1>3. CASE Seen(p, o) \notin stmt[p].check
  BY <1>1, <1>3 DEF UpdateRow
<1> QED BY <1>2, <1>3

LEMMA CommitEffect ==
  ASSUME TypeOK, NEW p \in Procs, CommitStatuses(p)
  PROVE  /\ \A o \in Orders : /\ row'[o].status = Seen(p, o)
                              /\ row'[o].matched = row[o].matched
                              /\ lock'[o] = IF lock[o] = p THEN None ELSE lock[o]
         /\ \A q \in Procs, o \in Orders :
              written'[q][o] = IF q = p THEN None ELSE written[q][o]
<1>1. ASSUME NEW o \in Orders
      PROVE  row'[o].status = Seen(p, o) /\ row'[o].matched = row[o].matched
  <2>1. row[o] \in Rows /\ Seen(p, o) \in RowStatuses
    BY DEF TypeOK, Seen, Rows, RowStatuses
  <2>2. row'[o] = [row[o] EXCEPT !.status = Seen(p, o)]
    BY DEF CommitStatuses
  <2> QED BY <2>1, <2>2, WithStatus
<1>2. ASSUME NEW q \in Procs, NEW o \in Orders
      PROVE  written'[q][o] = IF q = p THEN None ELSE written[q][o]
  BY DEF CommitStatuses, NoWrites, TypeOK
<1> QED BY <1>1, <1>2 DEF CommitStatuses, Unlocked

LEMMA RollbackEffect ==
  ASSUME TypeOK, NEW p \in Procs, Rollback(p)
  PROVE  /\ \A o \in Orders : lock'[o] = IF lock[o] = p THEN None ELSE lock[o]
         /\ \A q \in Procs, o \in Orders :
              written'[q][o] = IF q = p THEN None ELSE written[q][o]
         /\ \A q \in Procs : stmt'[q] = IF q = p THEN NoStmt ELSE stmt[q]
<1>1. ASSUME NEW q \in Procs, NEW o \in Orders
      PROVE  written'[q][o] = IF q = p THEN None ELSE written[q][o]
  BY DEF Rollback, NoWrites, TypeOK
<1> QED BY <1>1 DEF Rollback, Unlocked, TypeOK

LEMMA CommitRoundEffect ==
  ASSUME TypeOK, CommitRound
  PROVE  /\ \A o \in Orders : /\ row'[o].status = Seen(Matcher, o)
                              /\ row'[o].matched = SavedMatched(o)
                              /\ traded'[o] = traded[o] + newTraded[o]
                              /\ lock'[o] = IF lock[o] = Matcher THEN None ELSE lock[o]
         /\ \A q \in Procs, o \in Orders :
              written'[q][o] = IF q = Matcher THEN None ELSE written[q][o]
<1>1. ASSUME NEW q \in Procs, NEW o \in Orders
      PROVE  written'[q][o] = IF q = Matcher THEN None ELSE written[q][o]
  BY DEF CommitRound, NoWrites, TypeOK
<1> QED BY <1>1 DEF CommitRound, Unlocked

LEMMA SaveRoundStmt ==
  ASSUME TypeOK, NEW expired, SaveRound(expired)
  PROVE  /\ stmt'[Matcher].rows = {Pair[o] : o \in (cancels \ pending) \cup expired} \ {None}
         /\ stmt'[Matcher].set = "canceled" /\ stmt'[Matcher].check = Statuses
         /\ \A q \in Procs \ {Matcher} : stmt'[q] = stmt[q]
<1>1. stmt \in [Procs -> [rows : SUBSET Orders, set : Statuses, check : SUBSET Statuses]]
      /\ Matcher \in Procs
  BY DEF TypeOK, Procs
<1> QED BY <1>1 DEF SaveRound, Update

LEMMA SaveRoundWrites ==
  ASSUME TypeOK, NEW expired, SaveRound(expired), NEW o \in Orders
  PROVE  /\ \A q \in Procs \ {Matcher} : written'[q][o] = written[q][o]
         /\ o \in (cancels \ pending) \cup expired => written'[Matcher][o] = "canceled"
         /\ o \in pending \ expired => written'[Matcher][o] = mem[o].status
         /\ o \notin pending \cup cancels \cup expired => written'[Matcher][o] = written[Matcher][o]
<1>1. written \in [Procs -> [Orders -> Statuses \cup {None}]] /\ Matcher \in Procs
  BY DEF TypeOK, Procs
<1> DEFINE ids == (cancels \ pending) \cup expired
<1>2. written' = [written EXCEPT ![Matcher] =
                   [x \in Orders |-> CASE x \in ids -> "canceled"
                                       [] x \in pending \ ids -> mem[x].status
                                       [] OTHER -> @[x]]]
  BY DEF SaveRound
<1> QED BY <1>1, <1>2

LEMMA BeginEffect ==
  ASSUME TypeOK, NEW c \in Requests, NEW kind, NEW o, NEW ps, NEW R, NEW check,
         Begin(c, kind, o, ps, R, check)
  PROVE  /\ stmt'[c].rows = R /\ stmt'[c].set = "canceled" /\ stmt'[c].check = check
         /\ \A q \in Procs \ {c} : stmt'[q] = stmt[q]
         /\ req'[c].pc = "update" /\ req'[c].kind = kind
         /\ req'[c].order = o /\ req'[c].pairStatus = ps
         /\ \A d \in Requests \ {c} : req'[d] = req[d]
BY DEF Begin, Update, TypeOK, Procs

LEMMA CurFacts ==
  ASSUME Shape, mpc \in Trading
  PROVE  /\ cur.sell \in Orders /\ cur.buy \in Orders /\ cur.sell # cur.buy
         /\ cur.sell \in pending /\ cur.buy \in pending
         /\ cur.amount \in Nat \ {0} /\ cur.side \in {"sell", "buy"}
         /\ CurOrder \in {cur.sell, cur.buy} /\ CurOrder \in Orders /\ CurOrder \in pending
         /\ CurOrder \in book
         /\ mem[CurOrder] \in Rows /\ cur.saved \in [Orders -> {None, "canceled"}]
<1>1. cur \in [sell : Orders, buy : Orders, amount : Nat \ {0}, side : {"sell", "buy"},
               saved : [Orders -> {None, "canceled"}]]
      /\ cur.sell \in pending /\ cur.buy \in pending
      /\ Side[cur.sell] = "sell" /\ Side[cur.buy] = "buy"
  BY DEF Shape, CurTyped
<1>2. mem \in [Orders -> Rows] /\ pending \subseteq book
  BY DEF Shape, TypeOK, RoundLists
<1> QED BY <1>1, <1>2 DEF CurOrder

LEMMA NextSideEffect ==
  ASSUME Shape, mpc \in Trading, NextSide
  PROVE  \/ /\ cur.side = "sell" /\ mpc' = "trade"
            /\ cur' \in [sell : Orders, buy : Orders, amount : Nat \ {0}, side : {"sell", "buy"},
                         saved : [Orders -> {None, "canceled"}]]
            /\ cur'.sell = cur.sell /\ cur'.buy = cur.buy /\ cur'.amount = cur.amount
            /\ cur'.side = "buy" /\ cur'.saved = cur.saved
            /\ newTrades' = newTrades /\ newTraded' = newTraded
         \/ /\ cur.side = "buy" /\ mpc' = "match"
            /\ \A o \in Orders : newTraded'[o] = IF o \in {cur.sell, cur.buy}
                                                 THEN newTraded[o] + cur.amount ELSE newTraded[o]
<1>1. cur \in [sell : Orders, buy : Orders, amount : Nat \ {0}, side : {"sell", "buy"},
               saved : [Orders -> {None, "canceled"}]]
      /\ newTraded \in [Orders -> Nat] /\ cur.sell # cur.buy
  BY CurFacts DEF Shape, CurTyped, TypeOK
<1>2. CASE cur.side = "sell"
  BY <1>1, <1>2 DEF NextSide
<1>3. CASE cur.side = "buy"
  BY <1>1, <1>3 DEF NextSide
<1> QED BY <1>1, <1>2, <1>3

LEMMA IncreaseEffect ==
  ASSUME Shape, IncreaseOrderMatchedAmount
  PROVE  /\ mpc = "trade"
         /\ \A o \in Orders :
              /\ o # CurOrder => mem'[o] = mem[o] /\ pairObj'[o] = pairObj[o]
              /\ o = CurOrder =>
                   /\ mem'[o].matched = mem[o].matched + cur.amount
                   /\ mem'[o].status = StatusAfter(o, mem[o].matched + cur.amount)
                   /\ pairObj'[o] = IF Pair[o] = None THEN pairObj[o]
                                    ELSE IF CancelsPair(o) THEN "canceled" ELSE PairSeen(o)
         /\ \/ /\ CancelsPair(CurOrder) /\ mpc' = "pair"
               /\ UNCHANGED <<cur, newTrades, newTraded>>
               /\ \A q \in Procs : stmt'[q] = IF q = Matcher
                    THEN Update({Pair[CurOrder]}, "canceled", Statuses) ELSE stmt[q]
            \/ ~ CancelsPair(CurOrder) /\ NextSide /\ UNCHANGED stmt
         /\ UNCHANGED <<db, lock, written, book, pending, cancels, act, req>>
<1>1. mpc = "trade" /\ mpc \in Trading
  BY DEF IncreaseOrderMatchedAmount, Trading
<1>2. mem \in [Orders -> Rows] /\ pairObj \in [Orders -> RowStatuses \cup {None}] /\ CurOrder \in Orders
      /\ stmt \in [Procs -> [rows : SUBSET Orders, set : Statuses, check : SUBSET Statuses]]
      /\ Matcher \in Procs
  BY <1>1, CurFacts DEF Shape, TypeOK, Procs
<1> DEFINE matched == mem[CurOrder].matched + cur.amount
<1>3. /\ mem' = [mem EXCEPT ![CurOrder] = [status |-> StatusAfter(CurOrder, matched), matched |-> matched]]
      /\ pairObj' = IF Pair[CurOrder] = None THEN pairObj
                    ELSE [pairObj EXCEPT ![CurOrder] = IF CancelsPair(CurOrder) THEN "canceled"
                                                       ELSE PairSeen(CurOrder)]
      /\ IF CancelsPair(CurOrder)
         THEN /\ stmt' = [stmt EXCEPT ![Matcher] = Update({Pair[CurOrder]}, "canceled", Statuses)]
              /\ mpc' = "pair"
              /\ UNCHANGED <<cur, newTrades, newTraded>>
         ELSE NextSide /\ UNCHANGED stmt
      /\ UNCHANGED <<db, lock, written, book, pending, cancels, act, req>>
  BY DEF IncreaseOrderMatchedAmount, CurOrder
<1>4. ASSUME NEW o \in Orders
      PROVE  mem'[o] = IF o = CurOrder THEN [status |-> StatusAfter(o, matched), matched |-> matched] ELSE mem[o]
  BY <1>2, <1>3
<1>5. ASSUME NEW o \in Orders
      PROVE  pairObj'[o] = IF o # CurOrder \/ Pair[o] = None THEN pairObj[o]
                           ELSE IF CancelsPair(o) THEN "canceled" ELSE PairSeen(o)
  BY <1>2, <1>3
<1>6. CASE CancelsPair(CurOrder)
  BY <1>1, <1>2, <1>3, <1>4, <1>5, <1>6
<1>7. CASE ~ CancelsPair(CurOrder)
  BY <1>1, <1>2, <1>3, <1>4, <1>5, <1>7
<1> QED BY <1>6, <1>7

-----------------------------------------------------------------------------
(* The shape of the state is kept *)

LEMMA CurTypedStep == Shape /\ [Next]_vars => CurTyped'
<1> SUFFICES ASSUME Shape, [Next]_vars PROVE CurTyped'
  OBVIOUS
<1> USE DEF db, txs, round
<1>0. /\ TypeOK /\ CurTyped /\ Matcher \in Procs /\ Requests \subseteq Procs
      /\ \A c \in Requests : c # Matcher
  BY ProcsAssumption DEF Shape, Procs
<1>1. ASSUME mpc' \notin Trading PROVE CurTyped'
  BY <1>1 DEF CurTyped
<1>2. ASSUME UNCHANGED <<mpc, cur, pending>>,
             \A o \in Orders : written[Matcher][o] # None => written'[Matcher][o] # None
      PROVE  CurTyped'
  BY <1>0, <1>2 DEF CurTyped
<1>3. ASSUME mpc \in Trading, NextSide, UNCHANGED <<pending, written>> PROVE CurTyped'
  <2>1. CASE mpc' = "match"
    BY <1>1, <2>1 DEF Trading
  <2>2. CASE mpc' # "match"
    BY <1>0, <1>3, <2>2, NextSideEffect DEF CurTyped
  <2> QED BY <2>1, <2>2
<1>4. CASE UNCHANGED vars
  BY <1>2, <1>4 DEF vars
<1>5. ASSUME NEW o \in Orders, CreateOrder(o) PROVE CurTyped'
  BY <1>2, <1>5 DEF CreateOrder
<1>6. ASSUME NEW p \in Procs, NEW o \in Orders, UpdateRow(p, o) PROVE CurTyped'
  <2>1. stmt[p].set # None
    BY <1>0, NoneAssumption DEF TypeOK, RowStatuses
  <2>2. \A x \in Orders : written[Matcher][x] # None => written'[Matcher][x] # None
    BY <1>0, <1>6, <2>1, UpdateRowWrites
  <2> QED BY <1>2, <1>6, <2>2 DEF UpdateRow
<1>7. ASSUME NEW o \in Orders, CancelInMemory(o) PROVE CurTyped'
  BY <1>2, <1>7 DEF CancelInMemory
<1>8. ASSUME NEW s \in Orders, NEW b \in Orders, NEW a \in 1..Amount[s], MatchTwoOrders(s, b, a)
      PROVE  CurTyped'
  <2>1. written[Matcher] \in [Orders -> {None, "canceled"}]
    <3>1. \A x \in Orders : written[Matcher][x] \in {None, "canceled"}
      BY <1>8 DEF Shape, MatcherWrites, MatchTwoOrders, Matching
    <3>2. written[Matcher] \in [Orders -> Statuses \cup {None}]
      BY <1>0 DEF TypeOK
    <3> QED BY <3>1, <3>2
  <2>2. a \in Nat \ {0}
    BY <1>8, OrdersAssumption
  <2>3. cur' = [sell |-> s, buy |-> b, amount |-> a, side |-> "sell", saved |-> written[Matcher]]
        /\ pending' = pending \cup {s, b} /\ Side[s] = "sell" /\ Side[b] = "buy" /\ written' = written
    BY <1>8 DEF MatchTwoOrders
  <2> QED BY <2>1, <2>2, <2>3 DEF CurTyped
<1>9. CASE StartRound \/ TradeFails \/ (\E expired \in SUBSET System : SaveRound(expired))
           \/ CommitRound \/ RoundFails \/ CancelOcoOrderPair \/ CommitStops \/ StopsFail
           \/ (\E reached \in SUBSET Orders : ActivateStopOrders(reached))
  <2>1. mpc' \in {"idle", "match", "save", "stops", "activate", "oco"}
    BY <1>9 DEF StartRound, TradeFails, SaveRound, CommitRound, RoundFails, CancelOcoOrderPair,
       CommitStops, StopsFail, ActivateStopOrders
  <2> QED BY <1>1, <2>1 DEF Trading
<1>10. CASE IncreaseOrderMatchedAmount
  <2>1. CASE CancelsPair(CurOrder)
    <3>1. /\ mpc = "trade" /\ mpc' = "pair" /\ cur' = cur /\ pending' = pending /\ written' = written
      BY <1>10, <2>1, IncreaseEffect
    <3> QED BY <1>0, <3>1 DEF CurTyped, Trading
  <2>2. CASE ~ CancelsPair(CurOrder)
    <3>1. /\ mpc = "trade" /\ NextSide /\ pending' = pending /\ written' = written
      BY <1>10, <2>2, IncreaseEffect
    <3> QED BY <1>3, <3>1 DEF Trading
  <2> QED BY <2>1, <2>2
<1>11. CASE PairCanceled
  BY <1>3, <1>11 DEF PairCanceled, Trading
<1>12. ASSUME NEW c \in Requests, NEW o \in Orders, ViewCancel(c, o) \/ TaskCancel(c, o)
       PROVE  CurTyped'
  BY <1>2, <1>12 DEF ViewCancel, TaskCancel, Begin
<1>13. ASSUME NEW c \in Requests, NEW ids \in SUBSET Orders, BatchCancel(c, ids) PROVE CurTyped'
  BY <1>2, <1>13 DEF BatchCancel, Begin
<1>14. ASSUME NEW c \in Requests, CancelPair(c) \/ CancelDone(c) \/ CancelFails(c) PROVE CurTyped'
  <2>1. CommitStatuses(c) \/ Rollback(c) \/ written' = written
    BY <1>14 DEF CancelPair, CancelDone, CancelFails
  <2>2. \A x \in Orders : written'[Matcher][x] = written[Matcher][x]
    BY <1>0, <2>1, CommitEffect, RollbackEffect
  <2>3. UNCHANGED <<mpc, cur, pending>>
    BY <1>14 DEF CancelPair, CancelDone, CancelFails
  <2> QED BY <1>2, <2>2, <2>3
<1> QED BY <1>4, <1>5, <1>6, <1>7, <1>8, <1>9, <1>10, <1>11, <1>12, <1>13, <1>14
        DEF Next, MatcherStep, RequestStep

LEMMA RoundListsStep == Shape /\ [Next]_vars => RoundLists'
<1> SUFFICES ASSUME Shape, [Next]_vars PROVE RoundLists'
  OBVIOUS
<1> USE DEF db, txs, round
<1>0. TypeOK /\ RoundLists /\ MatcherStmt
  BY DEF Shape
<1> USE DEF InRound, Matching, Trading, Stopping
<1>1. ASSUME UNCHANGED <<book, mem, pending, cancels, newTraded, act>>,
             mpc' = mpc \/ (mpc \in Matching /\ mpc' \in InRound) \/ (mpc = "activate" /\ mpc' = "oco")
      PROVE  RoundLists'
  BY <1>0, <1>1 DEF RoundLists
<1>2. ASSUME mpc \in Trading, NextSide, book' = book, pending' = pending, cancels' = cancels, act' = act,
             \A o \in book : mem'[o].status \in {"active", "canceled", "done"}
      PROVE  RoundLists'
  <2>1. mpc' \in Matching
    BY <1>2, NextSideEffect
  <2>2. \A o \in Orders \ pending : newTraded'[o] = newTraded[o]
    BY <1>2, CurFacts, NextSideEffect
  <2> QED BY <1>0, <1>2, <2>1, <2>2 DEF RoundLists
<1>3. ASSUME DropRound, mpc' \in {"idle", "stops"}, act' = {} PROVE RoundLists'
  BY <1>3 DEF DropRound, RoundLists
<1>4. CASE UNCHANGED vars
  BY <1>1, <1>4 DEF vars
<1>5. ASSUME NEW o \in Orders, CreateOrder(o) PROVE RoundLists'
  BY <1>1, <1>5 DEF CreateOrder
<1>6. ASSUME NEW p \in Procs, NEW o \in Orders, UpdateRow(p, o) PROVE RoundLists'
  BY <1>1, <1>6 DEF UpdateRow
<1>7. ASSUME NEW o \in Orders, CancelInMemory(o) PROVE RoundLists'
  <2>1. \A x \in Orders : mem'[x].status = IF x = o THEN "canceled" ELSE mem[x].status
    BY <1>0, <1>7 DEF CancelInMemory, TypeOK, Rows
  <2> QED BY <1>0, <1>7, <2>1 DEF CancelInMemory, RoundLists, TypeOK
<1>8. ASSUME NEW s \in Orders, NEW b \in Orders, NEW a \in 1..Amount[s], MatchTwoOrders(s, b, a)
      PROVE  RoundLists'
  BY <1>0, <1>8 DEF MatchTwoOrders, Matchable, RoundLists
<1>9. CASE StartRound
  BY <1>0, <1>9 DEF StartRound, RoundLists
<1>10. CASE IncreaseOrderMatchedAmount
  <2>1. \A x \in book : mem'[x].status \in {"active", "canceled", "done"}
    <3>1. mpc = "trade" /\ \A x \in Orders : \/ mem'[x].status = mem[x].status
                                             \/ mem'[x].status = StatusAfter(x, mem[x].matched + cur.amount)
      BY <1>10, IncreaseEffect
    <3> QED BY <1>0, <3>1 DEF RoundLists, StatusAfter, TypeOK
  <2>2. mpc = "trade" /\ UNCHANGED <<book, pending, cancels, act>>
    BY <1>10, IncreaseEffect
  <2>3. CASE mpc' = "pair" /\ newTraded' = newTraded
    BY <1>0, <2>1, <2>2, <2>3 DEF RoundLists
  <2>4. CASE NextSide
    BY <1>2, <2>1, <2>2, <2>4
  <2> QED BY <1>10, <2>3, <2>4, IncreaseEffect
<1>11. CASE PairCanceled
  BY <1>0, <1>2, <1>11 DEF PairCanceled, RoundLists
<1>12. CASE TradeFails
  BY <1>1, <1>12 DEF TradeFails
<1>13. ASSUME NEW expired \in SUBSET System, SaveRound(expired) PROVE RoundLists'
  BY <1>1, <1>13 DEF SaveRound
<1>14. CASE CommitRound
  BY <1>0, <1>3, <1>14 DEF CommitRound, RoundLists
<1>15. CASE RoundFails
  BY <1>0, <1>3, <1>15 DEF RoundFails, RoundLists
<1>16. ASSUME NEW reached \in SUBSET Orders, ActivateStopOrders(reached) PROVE RoundLists'
  BY <1>0, <1>16 DEF ActivateStopOrders, RoundLists
<1>17. CASE CancelOcoOrderPair
  BY <1>1, <1>17 DEF CancelOcoOrderPair
<1>18. CASE CommitStops \/ StopsFail
  BY <1>0, <1>18 DEF CommitStops, StopsFail, RoundLists
<1>19. ASSUME NEW c \in Requests, NEW o \in Orders, ViewCancel(c, o) \/ TaskCancel(c, o)
       PROVE  RoundLists'
  BY <1>1, <1>19 DEF ViewCancel, TaskCancel, Begin
<1>20. ASSUME NEW c \in Requests, NEW ids \in SUBSET Orders, BatchCancel(c, ids) PROVE RoundLists'
  BY <1>1, <1>20 DEF BatchCancel, Begin
<1>21. ASSUME NEW c \in Requests, CancelPair(c) \/ CancelDone(c) \/ CancelFails(c) PROVE RoundLists'
  BY <1>1, <1>21 DEF CancelPair, CancelDone, CancelFails
<1> QED BY <1>4, <1>5, <1>6, <1>7, <1>8, <1>9, <1>10, <1>11, <1>12, <1>13, <1>14, <1>15, <1>16,
           <1>17, <1>18, <1>19, <1>20, <1>21
        DEF Next, MatcherStep, RequestStep

LEMMA MatcherStmtStep == Shape /\ [Next]_vars => MatcherStmt'
<1> SUFFICES ASSUME Shape, [Next]_vars PROVE MatcherStmt'
  OBVIOUS
<1> USE DEF db, txs, round
<1>0. /\ TypeOK /\ MatcherStmt /\ Matcher \in Procs /\ Requests \subseteq Procs
      /\ \A c \in Requests : c # Matcher
  BY ProcsAssumption DEF Shape, Procs
<1>1. ASSUME UNCHANGED <<mpc, cur, act>>, stmt'[Matcher] = stmt[Matcher]
      PROVE  MatcherStmt'
  BY <1>0, <1>1 DEF MatcherStmt, CurOrder
<1>2. ASSUME mpc' \in {"idle", "match", "trade", "stops"}, stmt'[Matcher].rows = {}
      PROVE  MatcherStmt'
  BY <1>2 DEF MatcherStmt
<1>4. CASE UNCHANGED vars
  BY <1>1, <1>4 DEF vars
<1>5. ASSUME NEW o \in Orders, CreateOrder(o) PROVE MatcherStmt'
  BY <1>1, <1>5 DEF CreateOrder
<1>6. ASSUME NEW p \in Procs, NEW o \in Orders, UpdateRow(p, o) PROVE MatcherStmt'
  <2>1. stmt'[Matcher].rows \subseteq stmt[Matcher].rows /\ stmt'[Matcher].set = stmt[Matcher].set
    BY <1>0, <1>6, UpdateRowStmt
  <2>2. UNCHANGED <<mpc, cur, act>>
    BY <1>6 DEF UpdateRow
  <2> QED BY <1>0, <2>1, <2>2 DEF MatcherStmt, CurOrder
<1>7. ASSUME NEW o \in Orders, CancelInMemory(o) PROVE MatcherStmt'
  BY <1>1, <1>7 DEF CancelInMemory
<1>8. ASSUME NEW s \in Orders, NEW b \in Orders, NEW a \in 1..Amount[s], MatchTwoOrders(s, b, a)
      PROVE  MatcherStmt'
  BY <1>0, <1>2, <1>8 DEF MatchTwoOrders, MatcherStmt
<1>9. CASE StartRound
  BY <1>0, <1>2, <1>9 DEF StartRound, MatcherStmt
<1>10. CASE IncreaseOrderMatchedAmount
  <2>1. mpc = "trade"
    BY <1>10, IncreaseEffect
  <2>2. CASE mpc' = "pair" /\ cur' = cur /\ stmt'[Matcher] = Update({Pair[CurOrder]}, "canceled", Statuses)
    BY <2>2 DEF MatcherStmt, CurOrder, Update
  <2>3. CASE NextSide /\ stmt' = stmt
    <3>1. mpc' \in {"trade", "match"}
      BY <2>1, <2>3, NextSideEffect DEF Trading
    <3> QED BY <1>0, <1>2, <2>1, <2>3, <3>1 DEF MatcherStmt
  <2> QED BY <1>0, <1>10, <2>2, <2>3, IncreaseEffect
<1>11. CASE PairCanceled
  <2>1. mpc' \in {"trade", "match"}
    BY <1>11, NextSideEffect DEF PairCanceled, Trading
  <2> QED BY <1>2, <1>11, <2>1 DEF PairCanceled, Finished
<1>12. CASE TradeFails
  BY <1>0, <1>2, <1>12 DEF TradeFails, NoStmt, TypeOK
<1>13. ASSUME NEW expired \in SUBSET System, SaveRound(expired) PROVE MatcherStmt'
  <2>1. stmt'[Matcher].set = "canceled" /\ mpc' = "save"
    BY <1>0, <1>13, SaveRoundStmt DEF SaveRound
  <2> QED BY <2>1 DEF MatcherStmt
<1>14. CASE CommitRound
  BY <1>2, <1>14 DEF CommitRound, Finished
<1>15. CASE RoundFails
  <2>1. stmt'[Matcher] = NoStmt /\ mpc' = "idle"
    BY <1>0, <1>15, RollbackEffect DEF RoundFails
  <2> QED BY <1>2, <2>1 DEF NoStmt
<1>16. ASSUME NEW reached \in SUBSET Orders, ActivateStopOrders(reached) PROVE MatcherStmt'
  <2>1. stmt'[Matcher] = Update(reached, "active", Statuses) /\ act' = reached
        /\ mpc' = IF reached = {} THEN "idle" ELSE "activate"
    BY <1>0, <1>16 DEF ActivateStopOrders, TypeOK
  <2> QED BY <2>1 DEF MatcherStmt, Update
<1>17. CASE CancelOcoOrderPair
  <2>1. stmt'[Matcher].set = "canceled" /\ mpc' = "oco"
    BY <1>0, <1>17 DEF CancelOcoOrderPair, TypeOK, Update
  <2> QED BY <2>1 DEF MatcherStmt
<1>18. CASE CommitStops
  BY <1>2, <1>18 DEF CommitStops, Finished
<1>19. CASE StopsFail
  <2>1. stmt'[Matcher] = NoStmt /\ mpc' = "idle"
    BY <1>0, <1>19, RollbackEffect DEF StopsFail
  <2> QED BY <1>2, <2>1 DEF NoStmt
<1>20. ASSUME NEW c \in Requests, NEW o \in Orders, ViewCancel(c, o) \/ TaskCancel(c, o)
       PROVE  MatcherStmt'
  <2>1. stmt'[Matcher] = stmt[Matcher] /\ UNCHANGED <<mpc, cur, act>>
    BY <1>0, <1>20, BeginEffect DEF ViewCancel, TaskCancel, Begin, TypeOK
  <2> QED BY <1>1, <2>1
<1>21. ASSUME NEW c \in Requests, NEW ids \in SUBSET Orders, BatchCancel(c, ids) PROVE MatcherStmt'
  <2>1. stmt'[Matcher] = stmt[Matcher] /\ UNCHANGED <<mpc, cur, act>>
    BY <1>0, <1>21, BeginEffect DEF BatchCancel, Begin, TypeOK
  <2> QED BY <1>1, <2>1
<1>22. ASSUME NEW c \in Requests, CancelPair(c) \/ CancelDone(c) \/ CancelFails(c) PROVE MatcherStmt'
  <2>1. stmt'[Matcher] = stmt[Matcher]
    BY <1>0, <1>22, RollbackEffect DEF CancelPair, CancelDone, CancelFails, TypeOK
  <2> QED BY <1>1, <1>22, <2>1 DEF CancelPair, CancelDone, CancelFails
<1> QED BY <1>4, <1>5, <1>6, <1>7, <1>8, <1>9, <1>10, <1>11, <1>12, <1>13, <1>14, <1>15, <1>16,
           <1>17, <1>18, <1>19, <1>20, <1>21, <1>22
        DEF Next, MatcherStep, RequestStep

LEMMA RequestWritesStep == Shape /\ [Next]_vars => RequestWrites'
<1> SUFFICES ASSUME Shape, [Next]_vars PROVE RequestWrites'
  OBVIOUS
<1> USE DEF db, txs, round
<1>0. /\ TypeOK /\ RequestWrites /\ Matcher \in Procs /\ Requests \subseteq Procs
      /\ \A c \in Requests : c # Matcher
  BY ProcsAssumption DEF Shape, Procs
<1>1. ASSUME \A c \in Requests :
               /\ stmt'[c] = stmt[c] \/ stmt'[c].set = "canceled"
               /\ \A o \in Orders : written'[c][o] = written[c][o] \/ written'[c][o] \in {None, "canceled"}
      PROVE  RequestWrites'
  BY <1>0, <1>1 DEF RequestWrites
<1>2. CASE UNCHANGED <<stmt, written>>
  BY <1>1, <1>2
<1>3. ASSUME NEW p \in Procs, NEW o \in Orders, UpdateRow(p, o) PROVE RequestWrites'
  <2>1. ASSUME NEW c \in Requests PROVE stmt'[c].set = "canceled"
    BY <1>0, <1>3, UpdateRowStmt DEF RequestWrites
  <2>2. ASSUME NEW c \in Requests, NEW x \in Orders PROVE written'[c][x] \in {None, "canceled"}
    BY <1>0, <1>3, UpdateRowWrites DEF RequestWrites
  <2> QED BY <2>1, <2>2 DEF RequestWrites
<1>4. CASE IncreaseOrderMatchedAmount
  <2>1. written' = written /\ \A c \in Requests : stmt'[c] = stmt[c]
    BY <1>0, <1>4, IncreaseEffect
  <2> QED BY <1>1, <2>1
<1>5. CASE TradeFails
  BY <1>0, <1>1, <1>5 DEF TradeFails, TypeOK
<1>6. ASSUME NEW expired \in SUBSET System, SaveRound(expired) PROVE RequestWrites'
  BY <1>0, <1>1, <1>6, SaveRoundStmt, SaveRoundWrites
<1>7. CASE CommitRound
  BY <1>0, <1>1, <1>7 DEF CommitRound, TypeOK
<1>8. ASSUME NEW p \in Procs, CommitStatuses(p), stmt' = stmt PROVE RequestWrites'
  BY <1>1, <1>0, <1>8, CommitEffect
<1>9. ASSUME NEW p \in Procs, Rollback(p) PROVE RequestWrites'
  <2>1. ASSUME NEW c \in Requests PROVE stmt'[c] \in {stmt[c], NoStmt}
    BY <1>0, <1>9, RollbackEffect
  <2>2. ASSUME NEW c \in Requests, NEW o \in Orders PROVE written'[c][o] \in {written[c][o], None}
    BY <1>0, <1>9, RollbackEffect
  <2> QED BY <1>1, <2>1, <2>2 DEF NoStmt
<1>10. CASE CancelOcoOrderPair \/ (\E reached \in SUBSET Orders : ActivateStopOrders(reached))
  <2>1. written' = written /\ \A c \in Requests : stmt'[c] = stmt[c]
    BY <1>0, <1>10 DEF CancelOcoOrderPair, ActivateStopOrders, TypeOK
  <2> QED BY <1>1, <2>1
<1>11. ASSUME NEW c \in Requests, NEW kind, NEW o, NEW ps, NEW R, NEW check, Begin(c, kind, o, ps, R, check)
       PROVE  RequestWrites'
  <2>1. written' = written /\ \A d \in Requests : stmt'[d] = stmt[d] \/ stmt'[d].set = "canceled"
    BY <1>0, <1>11, BeginEffect DEF Begin
  <2> QED BY <1>1, <2>1
<1>12. ASSUME NEW c \in Requests, CancelPair(c) PROVE RequestWrites'
  <2>1. ASSUME NEW d \in Requests
        PROVE  stmt'[d] \in {stmt[d], Update({Pair[req[c].order]}, "canceled", Statuses)}
    BY <1>0, <1>12 DEF CancelPair, TypeOK
  <2>2. ASSUME NEW d \in Requests, NEW o \in Orders PROVE written'[d][o] \in {written[d][o], None}
    <3>1. CommitStatuses(c) \/ written' = written
      BY <1>12 DEF CancelPair
    <3> QED BY <1>0, <3>1, CommitEffect
  <2> QED BY <1>1, <2>1, <2>2 DEF Update
<1>13. CASE UNCHANGED vars
  BY <1>2, <1>13 DEF vars
<1>14. CASE (\E o \in Orders : CreateOrder(o) \/ CancelInMemory(o)) \/ StartRound \/ PairCanceled
            \/ (\E s, b \in Orders : \E a \in 1..Amount[s] : MatchTwoOrders(s, b, a))
  BY ZenonT(30), <1>2, <1>14 DEF CreateOrder, CancelInMemory, StartRound, PairCanceled, MatchTwoOrders
<1>15. CASE RoundFails \/ StopsFail \/ CommitStops
  BY <1>0, <1>8, <1>9, <1>15 DEF RoundFails, StopsFail, CommitStops
<1>16. ASSUME NEW c \in Requests,
              (\E o \in Orders : ViewCancel(c, o) \/ TaskCancel(c, o))
              \/ (\E ids \in SUBSET Orders : BatchCancel(c, ids))
       PROVE  RequestWrites'
  BY <1>11, <1>16 DEF ViewCancel, TaskCancel, BatchCancel
<1>17. ASSUME NEW c \in Requests, CancelDone(c) \/ CancelFails(c) PROVE RequestWrites'
  BY <1>0, <1>8, <1>9, <1>17 DEF CancelDone, CancelFails
<1> QED BY <1>3, <1>4, <1>5, <1>6, <1>7, <1>10, <1>12, <1>13, <1>14, <1>15, <1>16, <1>17
        DEF Next, MatcherStep, RequestStep

LEMMA MatcherWritesStep == Shape /\ [Next]_vars => MatcherWrites'
<1> SUFFICES ASSUME Shape, [Next]_vars PROVE MatcherWrites'
  OBVIOUS
<1> USE DEF db, txs, round
<1>0. /\ TypeOK /\ MatcherStmt /\ RoundLists /\ CurTyped /\ MatcherWrites /\ Matcher \in Procs
      /\ Requests \subseteq Procs /\ \A c \in Requests : c # Matcher
  BY ProcsAssumption DEF Shape, Procs
<1> USE DEF Matching, Trading, Stopping
<1>1. ASSUME UNCHANGED <<mpc, pending, mem, act>>,
             \A o \in Orders : written'[Matcher][o] = written[Matcher][o]
      PROVE  MatcherWrites'
  BY <1>0, <1>1 DEF MatcherWrites
<1>2. ASSUME mpc \in Matching, mpc' \in Matching, written' = written PROVE MatcherWrites'
  BY <1>0, <1>2 DEF MatcherWrites
<1>3. ASSUME mpc' \in {"idle", "stops"}, \A o \in Orders : written'[Matcher][o] = None
      PROVE  MatcherWrites'
  BY <1>3 DEF MatcherWrites
<1>4. CASE UNCHANGED vars
  BY <1>1, <1>4 DEF vars
<1>5. ASSUME NEW o \in Orders, CreateOrder(o) PROVE MatcherWrites'
  BY <1>1, <1>5 DEF CreateOrder
<1>6. ASSUME NEW p \in Procs, NEW o \in Orders, UpdateRow(p, o) PROVE MatcherWrites'
  <2>1. UNCHANGED <<mpc, pending, mem, act>>
    BY <1>6 DEF UpdateRow
  <2>2. CASE \A x \in Orders : written'[Matcher][x] = written[Matcher][x]
    BY <1>1, <2>1, <2>2
  <2>3. CASE p = Matcher /\ written'[p][o] = stmt[p].set
    <3>1. \A x \in Orders : x # o => written'[Matcher][x] = written[Matcher][x]
      BY <1>0, <1>6, <2>3, UpdateRowWrites
    <3>2. o \in stmt[Matcher].rows
      BY <1>6, <2>3 DEF UpdateRow
    <3>3. CASE mpc = "activate"
      BY <1>0, <2>1, <2>3, <3>1, <3>2, <3>3 DEF MatcherWrites, MatcherStmt
    <3>4. CASE mpc \in {"pair", "save", "oco"}
      <4>1. written'[Matcher][o] = "canceled"
        BY <1>0, <2>3, <3>4 DEF MatcherStmt
      <4> QED BY <1>0, <2>1, <3>1, <3>4, <4>1 DEF MatcherWrites
    <3> QED BY <1>0, <3>2, <3>3, <3>4 DEF MatcherStmt
  <2> QED BY <1>0, <1>6, <2>2, <2>3, UpdateRowWrites
<1>7. CASE \E o \in Orders : CancelInMemory(o)
  BY <1>2, <1>7 DEF CancelInMemory
<1>8. CASE \E s, b \in Orders : \E a \in 1..Amount[s] : MatchTwoOrders(s, b, a)
  BY <1>2, <1>8 DEF MatchTwoOrders
<1>9. CASE StartRound
  BY <1>0, <1>9 DEF StartRound, MatcherWrites
<1>10. CASE IncreaseOrderMatchedAmount
  <2>1. mpc = "trade" /\ written' = written
    BY <1>10, IncreaseEffect
  <2>2. mpc' \in Matching
    BY <1>10, <2>1, IncreaseEffect, NextSideEffect
  <2> QED BY <1>2, <2>1, <2>2
<1>11. CASE PairCanceled
  <2>1. mpc' \in Matching
    BY <1>11, NextSideEffect DEF PairCanceled
  <2> QED BY <1>2, <1>11, <2>1 DEF PairCanceled
<1>12. CASE TradeFails
  <2>1. mpc \in Trading /\ mpc' = "match" /\ written'[Matcher] = cur.saved
    BY <1>0, <1>12 DEF TradeFails, TypeOK
  <2>2. \A o \in Orders : written'[Matcher][o] \in {None, "canceled"}
    BY <2>1, CurFacts
  <2> QED BY <2>1, <2>2 DEF MatcherWrites
<1>13. ASSUME NEW expired \in SUBSET System, SaveRound(expired) PROVE MatcherWrites'
  <2>1. mpc = "match" /\ mpc' = "save" /\ UNCHANGED <<pending, cancels, mem>>
    BY <1>13 DEF SaveRound
  <2>2. ASSUME NEW o \in Orders, o \notin pending PROVE written'[Matcher][o] \in {None, "canceled"}
    BY <1>0, <1>13, <2>1, <2>2, SaveRoundWrites DEF MatcherWrites
  <2>3. ASSUME NEW o \in Orders, o \in pending PROVE written'[Matcher][o] \in {mem[o].status, "canceled"}
    BY <1>0, <1>13, <2>3, SaveRoundWrites
  <2> QED BY <2>1, <2>2, <2>3 DEF MatcherWrites
<1>14. CASE CommitRound
  BY <1>0, <1>3, <1>14, CommitRoundEffect DEF CommitRound
<1>15. CASE RoundFails \/ StopsFail
  <2>1. Rollback(Matcher) /\ mpc' = "idle"
    BY <1>15 DEF RoundFails, StopsFail
  <2> QED BY <1>0, <1>3, <2>1, RollbackEffect
<1>16. ASSUME NEW reached \in SUBSET Orders, ActivateStopOrders(reached) PROVE MatcherWrites'
  <2>1. mpc' \in {"idle", "activate"} /\ \A o \in Orders : written'[Matcher][o] = None
    BY <1>0, <1>16 DEF ActivateStopOrders, MatcherWrites
  <2> QED BY <2>1, NoneAssumption DEF MatcherWrites, RowStatuses, Statuses, Open
<1>17. CASE CancelOcoOrderPair
  BY <1>0, <1>17 DEF CancelOcoOrderPair, MatcherWrites
<1>18. CASE CommitStops
  <2>1. CommitStatuses(Matcher) /\ mpc' = "idle"
    BY <1>18 DEF CommitStops
  <2> QED BY <1>0, <1>3, <2>1, CommitEffect
<1>19. ASSUME NEW c \in Requests,
              (\E o \in Orders : ViewCancel(c, o) \/ TaskCancel(c, o))
              \/ (\E ids \in SUBSET Orders : BatchCancel(c, ids))
       PROVE  MatcherWrites'
  BY <1>1, <1>19 DEF ViewCancel, TaskCancel, BatchCancel, Begin
<1>20. ASSUME NEW c \in Requests, CancelPair(c) \/ CancelDone(c) \/ CancelFails(c) PROVE MatcherWrites'
  <2>1. CommitStatuses(c) \/ Rollback(c) \/ written' = written
    BY <1>20 DEF CancelPair, CancelDone, CancelFails
  <2>2. \A x \in Orders : written'[Matcher][x] = written[Matcher][x]
    BY <1>0, <2>1, CommitEffect, RollbackEffect
  <2> QED BY <1>1, <1>20, <2>2 DEF CancelPair, CancelDone, CancelFails
<1> QED BY <1>4, <1>5, <1>6, <1>7, <1>8, <1>9, <1>10, <1>11, <1>12, <1>13, <1>14, <1>15, <1>16,
           <1>17, <1>18, <1>19, <1>20
        DEF Next, MatcherStep, RequestStep

LEMMA CancelPairEffect ==
  ASSUME Shape, NEW c \in Requests, CancelPair(c)
  PROVE  /\ req[c].pc = "update" /\ req[c].kind # "batch" /\ Finished(c)
         /\ req[c].order \in Orders /\ Pair[req[c].order] \in Orders
         /\ req'[c].pc = "pair" /\ req'[c].kind = req[c].kind
         /\ req'[c].order = req[c].order /\ req'[c].pairStatus = req[c].pairStatus
         /\ \A d \in Requests \ {c} : req'[d] = req[d]
         /\ stmt'[c] = Update({Pair[req[c].order]}, "canceled", Statuses)
         /\ \A q \in Procs \ {c} : stmt'[q] = stmt[q]
         /\ CommitStatuses(c) \/ UNCHANGED <<row, lock, written>>
<1>1. /\ req \in [Requests -> [pc : {"idle", "update", "pair"}, kind : {"view", "task", "batch"},
                               order : Orders \cup {None}, pairStatus : RowStatuses \cup {None}]]
      /\ stmt \in [Procs -> [rows : SUBSET Orders, set : Statuses, check : SUBSET Statuses]]
      /\ ReqTyped /\ c \in Procs
  BY DEF Shape, TypeOK, Procs
<1>2. /\ req' = [req EXCEPT ![c] = [req[c] EXCEPT !.pc = "pair"]]
      /\ stmt' = [stmt EXCEPT ![c] = Update({Pair[req[c].order]}, "canceled", Statuses)]
      /\ CommitStatuses(c) \/ UNCHANGED <<row, lock, written>>
  BY DEF CancelPair
<1>3. /\ req[c].pc = "update" /\ req[c].kind # "batch" /\ Finished(c) /\ Pair[req[c].order] # None
  BY DEF CancelPair, PairFollows
<1>4. /\ req[c].order \in Orders /\ Pair[req[c].order] \in Orders
  BY <1>1, <1>3, PairAssumption DEF ReqTyped
<1>5. /\ req'[c] = [req[c] EXCEPT !.pc = "pair"]
      /\ \A d \in Requests \ {c} : req'[d] = req[d]
  BY <1>1, <1>2
<1>6. /\ req'[c].pc = "pair" /\ req'[c].kind = req[c].kind
      /\ req'[c].order = req[c].order /\ req'[c].pairStatus = req[c].pairStatus
  BY <1>1, <1>5
<1>7. /\ stmt'[c] = Update({Pair[req[c].order]}, "canceled", Statuses)
      /\ \A q \in Procs \ {c} : stmt'[q] = stmt[q]
  BY <1>1, <1>2
<1> QED BY <1>2, <1>3, <1>4, <1>5, <1>6, <1>7

LEMMA EndEffect ==
  ASSUME TypeOK, NEW c \in Requests, CancelDone(c) \/ CancelFails(c)
  PROVE  /\ req'[c] = NoReq
         /\ \A d \in Requests \ {c} : req'[d] = req[d]
BY DEF CancelDone, CancelFails, TypeOK

LEMMA ReqTypedStep == Shape /\ [Next]_vars => ReqTyped'
<1> SUFFICES ASSUME Shape, [Next]_vars PROVE ReqTyped'
  OBVIOUS
<1>0. TypeOK /\ ReqTyped
  BY DEF Shape
<1>1. CASE UNCHANGED req
  BY <1>0, <1>1 DEF ReqTyped
<1>2. CASE UNCHANGED vars
  BY <1>1, <1>2 DEF vars
<1>3. ASSUME NEW c \in Requests, NEW o \in Orders, ViewCancel(c, o) \/ TaskCancel(c, o) PROVE ReqTyped'
  <2>1. PICK kind, t, ps, R, check :
          kind \in {"view", "task"} /\ t \in Orders /\ Begin(c, kind, t, ps, R, check)
    BY <1>3, PairAssumption DEF ViewCancel, TaskCancel, Swaps
  <2>2. req'[c].kind # "batch" /\ req'[c].pc = "update" /\ req'[c].order \in Orders
        /\ \A d \in Requests \ {c} : req'[d] = req[d]
    BY <1>0, <2>1, BeginEffect
  <2> QED BY <1>0, <2>2 DEF ReqTyped
<1>4. ASSUME NEW c \in Requests, NEW ids \in SUBSET Orders, BatchCancel(c, ids) PROVE ReqTyped'
  <2>1. PICK R : Begin(c, "batch", None, None, R, Open)
    BY <1>4 DEF BatchCancel
  <2>2. req'[c].kind = "batch" /\ req'[c].pc = "update" /\ \A d \in Requests \ {c} : req'[d] = req[d]
    BY <1>0, <2>1, BeginEffect
  <2> QED BY <1>0, <2>2 DEF ReqTyped
<1>5. ASSUME NEW c \in Requests, CancelPair(c) PROVE ReqTyped'
  <2>1. Pair[req[c].order] # None
    BY <1>5 DEF CancelPair, PairFollows
  <2>2. /\ req[c].kind # "batch" /\ req'[c].kind = req[c].kind
        /\ req[c].order \in Orders /\ req'[c].order = req[c].order
        /\ \A d \in Requests \ {c} : req'[d] = req[d]
    BY <1>5, CancelPairEffect
  <2> QED BY <1>0, <2>1, <2>2 DEF ReqTyped
<1>6. ASSUME NEW c \in Requests, CancelDone(c) \/ CancelFails(c) PROVE ReqTyped'
  BY <1>0, <1>6, EndEffect DEF ReqTyped, NoReq
<1>7. CASE (\E o \in Orders : CreateOrder(o) \/ CancelInMemory(o))
           \/ (\E p \in Procs, o \in Orders : UpdateRow(p, o))
           \/ StartRound \/ PairCanceled \/ IncreaseOrderMatchedAmount \/ TradeFails
           \/ (\E s, b \in Orders : \E a \in 1..Amount[s] : MatchTwoOrders(s, b, a))
           \/ (\E expired \in SUBSET System : SaveRound(expired))
           \/ CommitRound \/ RoundFails \/ CancelOcoOrderPair \/ CommitStops \/ StopsFail
           \/ (\E reached \in SUBSET Orders : ActivateStopOrders(reached))
  BY <1>1, <1>7 DEF CreateOrder, CancelInMemory, UpdateRow, StartRound, PairCanceled,
     IncreaseOrderMatchedAmount, TradeFails, MatchTwoOrders, SaveRound, CommitRound, RoundFails,
     CancelOcoOrderPair, CommitStops, StopsFail, ActivateStopOrders
<1> QED BY <1>2, <1>3, <1>4, <1>5, <1>6, <1>7 DEF Next, MatcherStep, RequestStep

LEMMA ShapeInit == Init => Shape
<1> SUFFICES ASSUME Init PROVE Shape
  OBVIOUS
<1> USE DEF Init, NoRow, NoWrites, NoStmt, NoReq
<1>1. TypeOK
  BY DEF TypeOK, Rows, RowStatuses, Statuses, Closed
<1>2. CurTyped /\ RoundLists /\ MatcherStmt
  BY DEF CurTyped, Trading, RoundLists, InRound, Matching, MatcherStmt, Procs
<1>3. RequestWrites
  BY DEF RequestWrites, Procs
<1>4. MatcherWrites
  BY DEF MatcherWrites, Matching, Stopping, Procs
<1>5. ReqTyped
  BY DEF ReqTyped
<1> QED BY <1>1, <1>2, <1>3, <1>4, <1>5 DEF Shape

LEMMA ShapeStep == Shape /\ [Next]_vars => Shape'
BY TypeStep, CurTypedStep, RoundListsStep, MatcherStmtStep, RequestWritesStep, MatcherWritesStep,
   ReqTypedStep DEF Shape

\* The rows, the transactions, the matcher's objects and the requests keep their
\* types: a round never works on an order outside its book, and what a process
\* has to write is always a status.
THEOREM TypeCorrect == Spec => []TypeOK
<1>1. Shape => TypeOK
  BY DEF Shape
<1> QED BY ShapeInit, ShapeStep, <1>1, PTL DEF Spec

-----------------------------------------------------------------------------
(* Locks *)

\* Who has written a row holds its lock, and the row exists.
WritesLocked ==
  \A p \in Procs, o \in Orders :
    written[p][o] # None => lock[o] = p /\ row[o].status # "absent"

\* The two orders of a pair appear together.
PairsAppear ==
  \A o \in Orders : Pair[o] # None =>
    (row[o].status = "absent" <=> row[Pair[o]].status = "absent")

LockInv == Shape /\ WritesLocked /\ RoundReadsCurrent /\ PairsAppear

LEMMA SeenFacts ==
  ASSUME LockInv, NEW p \in Procs, NEW o \in Orders
  PROVE  /\ Seen(p, o) \in RowStatuses
         /\ lock[o] # p => Seen(p, o) = row[o].status
         /\ Seen(p, o) = "absent" <=> row[o].status = "absent"
<1>1. /\ written[p][o] \in Statuses \cup {None} /\ row[o].status \in RowStatuses
      /\ written[p][o] # None => lock[o] = p /\ row[o].status # "absent"
  BY DEF LockInv, Shape, TypeOK, WritesLocked, Rows
<1> QED BY <1>1 DEF Seen, RowStatuses, Statuses, Open, Closed

\* A commit changes only rows that its transaction has locked.
LEMMA CommitLocked ==
  ASSUME LockInv, NEW p \in Procs,
         \A o \in Orders : row'[o].status = Seen(p, o) /\ lock'[o] = IF lock[o] = p THEN None ELSE lock[o],
         \A q \in Procs, o \in Orders : written'[q][o] = IF q = p THEN None ELSE written[q][o]
  PROVE  WritesLocked' /\ PairsAppear'
<1>1. WritesLocked'
  <2> SUFFICES ASSUME NEW q \in Procs, NEW o \in Orders, written'[q][o] # None
               PROVE  lock'[o] = q /\ row'[o].status # "absent"
    BY DEF WritesLocked
  <2>1. q # p /\ written[q][o] # None
    OBVIOUS
  <2>2. lock[o] = q /\ row[o].status # "absent"
    BY <2>1 DEF LockInv, WritesLocked
  <2> QED BY <2>1, <2>2, SeenFacts
<1>2. PairsAppear'
  <2>1. \A o \in Orders : row'[o].status = "absent" <=> row[o].status = "absent"
    BY SeenFacts
  <2> QED BY <2>1, PairAssumption DEF LockInv, PairsAppear
<1> QED BY <1>1, <1>2


LEMMA LockStep == LockInv /\ [Next]_vars => LockInv'
<1> SUFFICES ASSUME LockInv, [Next]_vars PROVE WritesLocked' /\ RoundReadsCurrent' /\ PairsAppear'
  BY ShapeStep DEF LockInv
<1> USE DEF db, txs, round
<1>0. /\ Shape /\ TypeOK /\ RoundLists /\ WritesLocked /\ RoundReadsCurrent /\ PairsAppear
      /\ Matcher \in Procs /\ Requests \subseteq Procs
      /\ None \notin Procs /\ \A c \in Requests : c # Matcher
  BY ProcsAssumption DEF LockInv, Shape, Procs
<1>1. ASSUME UNCHANGED <<row, lock, written, book>>
      PROVE  WritesLocked' /\ RoundReadsCurrent' /\ PairsAppear'
  BY <1>0, <1>1 DEF WritesLocked, RoundReadsCurrent, PairsAppear
<1>2. ASSUME NEW p \in Procs, CommitStatuses(p), p = Matcher => book' = {}, book' = {} \/ book' = book
      PROVE  WritesLocked' /\ RoundReadsCurrent' /\ PairsAppear'
  <2>1. WritesLocked' /\ PairsAppear'
    BY <1>0, <1>2, CommitEffect, CommitLocked
  <2>2. ASSUME NEW o \in book' PROVE lock'[o] = Matcher /\ row'[o].status = "active"
    <3>1. o \in book /\ o \in Orders /\ p # Matcher /\ lock[o] = Matcher /\ row[o].status = "active"
      BY <1>0, <1>2, <2>2 DEF RoundReadsCurrent, TypeOK
    <3> QED BY <1>0, <1>2, <3>1, CommitEffect, SeenFacts
  <2> QED BY <2>1, <2>2 DEF RoundReadsCurrent
<1>3. ASSUME NEW p \in Procs, Rollback(p), p = Matcher => book' = {}, book' = {} \/ book' = book,
             row' = row
      PROVE  WritesLocked' /\ RoundReadsCurrent' /\ PairsAppear'
  <2>1. ASSUME NEW q \in Procs, NEW o \in Orders, written'[q][o] # None
        PROVE  lock'[o] = q /\ row'[o].status # "absent"
    <3>1. q # p /\ written[q][o] # None
      BY <1>0, <1>3, <2>1, RollbackEffect
    <3> QED BY <1>0, <1>3, <3>1, RollbackEffect DEF WritesLocked
  <2>2. ASSUME NEW o \in book' PROVE lock'[o] = Matcher /\ row'[o].status = "active"
    <3>1. o \in book /\ o \in Orders /\ p # Matcher /\ lock[o] = Matcher /\ row[o].status = "active"
      BY <1>0, <1>3, <2>2 DEF RoundReadsCurrent, TypeOK
    <3> QED BY <1>0, <1>3, <3>1, RollbackEffect
  <2>3. PairsAppear'
    BY <1>0, <1>3 DEF PairsAppear
  <2> QED BY <2>1, <2>2, <2>3 DEF WritesLocked, RoundReadsCurrent
<1>4. CASE UNCHANGED vars
  BY <1>1, <1>4 DEF vars
<1>5. ASSUME NEW o \in Orders, CreateOrder(o) PROVE WritesLocked' /\ RoundReadsCurrent' /\ PairsAppear'
  <2>1. PICK new \in SUBSET Orders :
          /\ \A x \in Orders : x \in new <=> x = o \/ x = Pair[o]
          /\ row' = [x \in Orders |-> IF x \in new THEN [status |-> InitialStatus(x), matched |-> 0] ELSE row[x]]
    <3>1. {o} \cup ({Pair[o]} \ {None}) \in SUBSET Orders
      BY PairAssumption
    <3>2. \A x \in Orders : x \in {o} \cup ({Pair[o]} \ {None}) <=> x = o \/ x = Pair[o]
      BY OrdersAssumption
    <3> QED BY <1>5, <3>1, <3>2 DEF CreateOrder
  <2>2. UNCHANGED <<lock, written, book>>
    BY <1>5 DEF CreateOrder
  <2>3. ASSUME NEW x \in Orders, x \in new PROVE row[x].status = "absent" /\ row'[x].status # "absent"
    <3>1. row[x].status = "absent"
      BY <1>0, <1>5, <2>1, <2>3, OrdersAssumption DEF CreateOrder, PairsAppear
    <3>2. row'[x].status = InitialStatus(x)
      BY <2>1, <2>3
    <3> QED BY <3>1, <3>2 DEF InitialStatus
  <2>4. ASSUME NEW x \in Orders, x \notin new PROVE row'[x] = row[x]
    BY <2>1, <2>4
  <2>5. WritesLocked'
    BY <1>0, <2>2, <2>3, <2>4 DEF WritesLocked
  <2>6. ASSUME NEW x \in book PROVE row'[x].status = "active"
    <3>1. x \in Orders /\ row[x].status = "active"
      BY <1>0, <2>6 DEF RoundReadsCurrent, TypeOK
    <3> QED BY <2>3, <2>4, <3>1
  <2>7. RoundReadsCurrent'
    BY <1>0, <2>2, <2>6 DEF RoundReadsCurrent, TypeOK
  <2>8. ASSUME NEW x \in Orders, Pair[x] # None PROVE x \in new <=> Pair[x] \in new
    <3>1. Pair[x] \in Orders /\ Pair[Pair[x]] = x /\ (Pair[o] # None => Pair[Pair[o]] = o)
      BY <2>8, PairAssumption
    <3>2. (x \in new <=> x = o \/ x = Pair[o]) /\ (Pair[x] \in new <=> Pair[x] = o \/ Pair[x] = Pair[o])
      BY <2>1, <3>1
    <3>3. CASE Pair[o] = None
      BY <2>8, <3>1, <3>2, <3>3, OrdersAssumption
    <3>4. CASE Pair[o] # None
      BY <3>1, <3>2, <3>4
    <3> QED BY <3>3, <3>4
  <2>9. ASSUME NEW x \in Orders, Pair[x] # None
        PROVE  row'[x].status = "absent" <=> row'[Pair[x]].status = "absent"
    <3>1. Pair[x] \in Orders
      BY <2>9, PairAssumption
    <3>2. row[x].status = "absent" <=> row[Pair[x]].status = "absent"
      BY <1>0, <2>9 DEF PairsAppear
    <3> QED BY <2>3, <2>4, <2>8, <2>9, <3>1, <3>2
  <2> QED BY <2>5, <2>7, <2>9 DEF PairsAppear
<1>6. ASSUME NEW p \in Procs, NEW o \in Orders, UpdateRow(p, o)
      PROVE  WritesLocked' /\ RoundReadsCurrent' /\ PairsAppear'
  <2>1. UNCHANGED <<row, book>>
    BY <1>6 DEF UpdateRow
  <2>2. Seen(p, o) \in stmt[p].check => row[o].status # "absent"
    <3>1. stmt[p].check \subseteq Statuses
      BY <1>0 DEF TypeOK
    <3>2. "absent" \notin Statuses
      BY DEF Statuses, Open, Closed
    <3> QED BY <3>1, <3>2, SeenFacts
  <2>3. ASSUME NEW q \in Procs, NEW x \in Orders, written'[q][x] # None
        PROVE  lock'[x] = q /\ row'[x].status # "absent"
    BY <1>0, <1>6, <2>1, <2>2, <2>3, UpdateRowWrites DEF WritesLocked
  <2>4. ASSUME NEW x \in book' PROVE lock'[x] = Matcher /\ row'[x].status = "active"
    <3>1. x \in Orders /\ lock[x] = Matcher /\ row[x].status = "active"
      BY <1>0, <2>1, <2>4 DEF RoundReadsCurrent, TypeOK
    <3> QED BY <1>0, <1>6, <2>1, <3>1, UpdateRowWrites
  <2> QED BY <1>0, <2>1, <2>3, <2>4 DEF WritesLocked, RoundReadsCurrent, PairsAppear
<1>7. CASE StartRound
  <2>1. UNCHANGED <<row, written>> /\ book' = {o \in Orders : row[o].status = "active" /\ lock[o] = None}
        /\ \A o \in Orders : lock'[o] = IF o \in book' THEN Matcher ELSE lock[o]
    BY <1>7 DEF StartRound, RoundLocks
  <2>2. WritesLocked'
    BY <1>0, <2>1 DEF WritesLocked
  <2> QED BY <1>0, <2>1, <2>2 DEF RoundReadsCurrent, PairsAppear
<1>8. CASE TradeFails
  <2>1. mpc \in Trading /\ UNCHANGED <<row, book>> /\ CurTyped
    BY <1>0, <1>8 DEF TradeFails, Trading, Shape
  <2>2. ASSUME NEW x \in Orders
        PROVE  lock'[x] = lock[x] \/ (x \notin book /\ lock[x] = Matcher /\ cur.saved[x] = None)
    BY <1>8 DEF TradeFails
  <2>3. ASSUME NEW x \in Orders
        PROVE  /\ written'[Matcher][x] = cur.saved[x]
               /\ \A q \in Procs \ {Matcher} : written'[q][x] = written[q][x]
    BY <1>0, <1>8 DEF TradeFails, TypeOK
  <2>4. ASSUME NEW q \in Procs, NEW x \in Orders, written'[q][x] # None
        PROVE  lock'[x] = q /\ row'[x].status # "absent"
    <3>1. written[q][x] # None /\ (q = Matcher => cur.saved[x] # None)
      BY <2>1, <2>3, <2>4 DEF CurTyped
    <3>2. lock[x] = q /\ row[x].status # "absent"
      BY <1>0, <3>1 DEF WritesLocked
    <3> QED BY <2>1, <2>2, <3>1, <3>2
  <2>5. ASSUME NEW x \in book PROVE lock'[x] = Matcher /\ row[x].status = "active"
    <3>1. x \in Orders
      BY <1>0, <2>5 DEF TypeOK
    <3> QED BY <1>0, <2>2, <2>5, <3>1 DEF RoundReadsCurrent
  <2>6. RoundReadsCurrent' /\ PairsAppear'
    BY <1>0, <2>1, <2>5 DEF RoundReadsCurrent, PairsAppear
  <2> QED BY <2>4, <2>6 DEF WritesLocked
<1>9. ASSUME NEW expired \in SUBSET System, SaveRound(expired)
      PROVE  WritesLocked' /\ RoundReadsCurrent' /\ PairsAppear'
  <2>1. UNCHANGED <<row, lock, book>> /\ pending \cup cancels \cup expired \subseteq book
    BY <1>0, <1>9 DEF SaveRound, RoundLists
  <2>2. ASSUME NEW q \in Procs, NEW x \in Orders, written'[q][x] # None
        PROVE  lock'[x] = q /\ row'[x].status # "absent"
    <3>1. CASE written'[q][x] = written[q][x]
      BY <1>0, <2>1, <2>2, <3>1 DEF WritesLocked
    <3>2. CASE q = Matcher /\ x \in book
      BY <1>0, <2>1, <3>2 DEF RoundReadsCurrent
    <3> QED BY <1>0, <1>9, <2>1, <3>1, <3>2, SaveRoundWrites
  <2>3. RoundReadsCurrent' /\ PairsAppear'
    BY <1>0, <2>1 DEF RoundReadsCurrent, PairsAppear
  <2> QED BY <2>2, <2>3 DEF WritesLocked
<1>10. CASE CommitRound
  <2>1. WritesLocked' /\ PairsAppear'
    BY <1>0, <1>10, CommitRoundEffect, CommitLocked
  <2> QED BY <1>10, <2>1 DEF CommitRound, DropRound, RoundReadsCurrent
<1>11. CASE RoundFails \/ StopsFail
  <2>1. Rollback(Matcher) /\ row' = row
    BY <1>11 DEF RoundFails, StopsFail
  <2>2. book' = {}
    BY <1>0, <1>11 DEF RoundFails, StopsFail, DropRound, RoundLists, InRound, Matching
  <2> QED BY <1>0, <1>3, <2>1, <2>2
<1>12. CASE CommitStops
  <2>1. CommitStatuses(Matcher) /\ book' = {}
    BY <1>0, <1>12 DEF CommitStops, RoundLists, InRound, Matching
  <2> QED BY <1>0, <1>2, <2>1
<1>13. CASE IncreaseOrderMatchedAmount
  BY <1>1, <1>13 DEF IncreaseOrderMatchedAmount
<1>14. CASE (\E o \in Orders : CancelInMemory(o)) \/ PairCanceled \/ CancelOcoOrderPair
            \/ (\E s, b \in Orders : \E a \in 1..Amount[s] : MatchTwoOrders(s, b, a))
            \/ (\E reached \in SUBSET Orders : ActivateStopOrders(reached))
  BY ZenonT(30), <1>1, <1>14 DEF CancelInMemory, PairCanceled, CancelOcoOrderPair, MatchTwoOrders, ActivateStopOrders
<1>15. ASSUME NEW c \in Requests,
              (\E o \in Orders : ViewCancel(c, o) \/ TaskCancel(c, o))
              \/ (\E ids \in SUBSET Orders : BatchCancel(c, ids))
       PROVE  WritesLocked' /\ RoundReadsCurrent' /\ PairsAppear'
  BY <1>1, <1>15 DEF ViewCancel, TaskCancel, BatchCancel, Begin
<1>16. ASSUME NEW c \in Requests, CancelPair(c) \/ CancelDone(c) \/ CancelFails(c)
       PROVE  WritesLocked' /\ RoundReadsCurrent' /\ PairsAppear'
  <2>1. CommitStatuses(c) \/ (Rollback(c) /\ row' = row) \/ UNCHANGED <<row, lock, written>>
    BY <1>16 DEF CancelPair, CancelDone, CancelFails
  <2>2. book' = book
    BY <1>16 DEF CancelPair, CancelDone, CancelFails
  <2> QED BY <1>0, <1>1, <1>2, <1>3, <2>1, <2>2
<1> QED BY <1>4, <1>5, <1>6, <1>7, <1>8, <1>9, <1>10, <1>11, <1>12, <1>13, <1>14, <1>15, <1>16
        DEF Next, MatcherStep, RequestStep

LEMMA LockInit == Init => LockInv
<1> SUFFICES ASSUME Init PROVE LockInv
  OBVIOUS
<1>1. WritesLocked
  BY DEF Init, WritesLocked, NoWrites
<1>2. RoundReadsCurrent /\ PairsAppear
  BY PairAssumption DEF Init, RoundReadsCurrent, PairsAppear, NoRow
<1> QED BY <1>1, <1>2, ShapeInit DEF LockInv

\* While a round runs, the rows it fetched with FOR NO KEY UPDATE stay locked by
\* it and stay active: no request, no activation and no other commit changes a
\* row between get_market_orders and the end of the round.
THEOREM RoundIsolated == Spec => []RoundReadsCurrent
<1>1. LockInv => RoundReadsCurrent
  BY DEF LockInv
<1> QED BY LockInit, LockStep, <1>1, PTL DEF Spec

-----------------------------------------------------------------------------
(* Statuses *)

\* An object of the round agrees with itself, and what is still due fits in.
MemAgrees ==
  /\ mpc \in InRound => \A o \in book :
       /\ mem[o].matched <= Amount[o]
       /\ mem[o].status = "done" => mem[o].matched = Amount[o]
       /\ mem[o].status = "active" => mem[o].matched < Amount[o]
  /\ \A o \in Due : mem[o].status = "active" /\ mem[o].matched + cur.amount <= Amount[o]

\* A stop order that is being activated has not matched.
ActFresh == \A o \in act : Exec[o] \in StopExecs /\ row[o].matched = 0

\* A row that is not there yet has matched nothing.
AbsentEmpty == \A o \in Orders : row[o].status = "absent" => row[o].matched = 0

StatusInv == LockInv /\ MemAgrees /\ ActFresh /\ AbsentEmpty /\ StatusAgreesWithMatched

LEMMA MemStep == StatusInv /\ [Next]_vars => MemAgrees'
<1> SUFFICES ASSUME StatusInv, [Next]_vars PROVE MemAgrees'
  OBVIOUS
<1> USE DEF db, txs, round
<1>0. /\ Shape /\ TypeOK /\ RoundLists /\ MemAgrees /\ RoundReadsCurrent /\ StatusAgreesWithMatched
      /\ Amount \in [Orders -> Nat \ {0}] /\ book \subseteq Orders /\ mem \in [Orders -> Rows]
  BY OrdersAssumption DEF StatusInv, LockInv, Shape, TypeOK
<1> DEFINE Agrees(m, o) == /\ m.matched <= Amount[o]
                           /\ m.status = "done" => m.matched = Amount[o]
                           /\ m.status = "active" => m.matched < Amount[o]
<1>1. ASSUME mpc' \in InRound => mpc \in InRound, UNCHANGED <<book, mem, cur>>, mpc' = mpc \/ mpc' \notin Trading
      PROVE  MemAgrees'
  BY <1>0, <1>1 DEF MemAgrees, Due, Trading
<1>2. ASSUME mpc' \notin InRound PROVE MemAgrees'
  BY <1>2 DEF MemAgrees, Due, InRound, Matching
<1>3. CASE UNCHANGED vars
  BY <1>1, <1>3 DEF vars
<1>4. CASE StartRound
  <2>1. mpc' = "match" /\ mem' = row /\ book' \subseteq Orders /\ \A o \in book' : row[o].status = "active"
    BY <1>4 DEF StartRound
  <2>2. \A o \in book' : row[o].matched < Amount[o] /\ row[o].matched \in Nat
    BY <1>0, <2>1 DEF StatusAgreesWithMatched, Open, TypeOK, Rows
  <2> QED BY <1>0, <2>1, <2>2 DEF MemAgrees, Due
<1>5. ASSUME NEW o \in Orders, CancelInMemory(o) PROVE MemAgrees'
  <2>1. mpc = "match" /\ mpc' = "match" /\ book' = book
    BY <1>5 DEF CancelInMemory
  <2>2. \A x \in Orders : \/ mem'[x] = mem[x]
                          \/ mem'[x].status = "canceled" /\ mem'[x].matched = mem[x].matched
    BY <1>0, <1>5 DEF CancelInMemory, Rows
  <2>3. \A x \in book : Agrees(mem[x], x)
    BY <1>0, <2>1 DEF MemAgrees, InRound, Matching
  <2>4. \A x \in book : Agrees(mem'[x], x)
    BY <1>0, <2>2, <2>3
  <2> QED BY <2>1, <2>4 DEF MemAgrees, Due
<1>6. ASSUME NEW s \in Orders, NEW b \in Orders, NEW a \in 1..Amount[s], MatchTwoOrders(s, b, a)
      PROVE  MemAgrees'
  <2>1. /\ mpc = "match" /\ mpc' = "trade" /\ UNCHANGED <<book, mem>>
        /\ cur'.sell = s /\ cur'.buy = b /\ cur'.amount = a /\ cur'.side = "sell"
        /\ mem[s].status = "active" /\ mem[b].status = "active"
        /\ a <= Amount[s] - mem[s].matched /\ a <= Amount[b] - mem[b].matched
    BY <1>6 DEF MatchTwoOrders, Matchable, Unmatched
  <2>2. a \in Nat /\ mem[s].matched \in Nat /\ mem[b].matched \in Nat /\ Amount[s] \in Nat /\ Amount[b] \in Nat
    BY <1>0, <1>6 DEF Rows
  <2>3. mem[s].matched + a <= Amount[s] /\ mem[b].matched + a <= Amount[b]
    BY <2>1, <2>2
  <2> QED BY <1>0, <2>1, <2>3 DEF MemAgrees, Due, InRound, Matching
<1>7. CASE IncreaseOrderMatchedAmount
  <2>1. mpc = "trade" /\ book' = book /\ mpc \in Trading
    BY <1>0, <1>7, IncreaseEffect DEF Trading
  <2>2. CurOrder \in Due
    BY <1>0, <2>1, CurFacts DEF Due, CurOrder
  <2>3. mem[CurOrder].status = "active" /\ mem[CurOrder].matched + cur.amount <= Amount[CurOrder]
    BY <1>0, <2>2 DEF MemAgrees
  <2>4. CurOrder \in Orders /\ mem[CurOrder].matched + cur.amount \in Nat /\ Amount[CurOrder] \in Nat
    BY <1>0, <2>1, CurFacts DEF Rows
  <2>5. /\ mem'[CurOrder].matched = mem[CurOrder].matched + cur.amount
        /\ mem'[CurOrder].status = StatusAfter(CurOrder, mem[CurOrder].matched + cur.amount)
        /\ \A x \in Orders : x # CurOrder => mem'[x] = mem[x]
    BY <1>0, <1>7, <2>4, IncreaseEffect
  <2>6. Agrees(mem'[CurOrder], CurOrder)
    BY <2>3, <2>4, <2>5 DEF StatusAfter
  <2>7. \A x \in book : Agrees(mem[x], x)
    BY <1>0, <2>1 DEF MemAgrees, InRound, Matching
  <2>8. \A x \in book : Agrees(mem'[x], x)
    BY <1>0, <2>5, <2>6, <2>7
  <2>9. \A x \in Due' : x \in Due /\ x # CurOrder /\ x \in Orders
    <3>1. CASE mpc' = "pair" /\ cur' = cur
      BY <1>0, <2>1, <3>1, CurFacts DEF Due, CurOrder
    <3>2. CASE NextSide
      BY <1>0, <2>1, <3>2, NextSideEffect, CurFacts DEF Due, CurOrder
    <3> QED BY <1>0, <1>7, <3>1, <3>2, IncreaseEffect
  <2>10. cur'.amount = cur.amount \/ Due' = {}
    <3>1. CASE mpc' = "pair" /\ cur' = cur
      BY <3>1
    <3>2. CASE NextSide
      BY <1>0, <2>1, <3>2, NextSideEffect DEF Due
    <3> QED BY <1>0, <1>7, <3>1, <3>2, IncreaseEffect
  <2>11. \A x \in Due' : mem'[x].status = "active" /\ mem'[x].matched + cur'.amount <= Amount[x]
    BY <1>0, <2>5, <2>9, <2>10 DEF MemAgrees
  <2> QED BY <2>1, <2>8, <2>11 DEF MemAgrees
<1>8. CASE PairCanceled
  <2>1. mpc = "pair" /\ mpc \in Trading /\ NextSide /\ UNCHANGED <<book, mem>>
    BY <1>8 DEF PairCanceled, Trading
  <2>2. \A x \in Due' : x \in Due /\ cur'.amount = cur.amount
    BY <1>0, <2>1, NextSideEffect DEF Due
  <2> QED BY <1>0, <2>1, <2>2 DEF MemAgrees, InRound, Matching
<1>9. CASE TradeFails
  BY <1>0, <1>9 DEF TradeFails, MemAgrees, Due, InRound, Matching
<1>10. ASSUME NEW expired \in SUBSET System, SaveRound(expired) PROVE MemAgrees'
  BY <1>1, <1>10 DEF SaveRound, InRound, Matching, Trading
<1>11. CASE CommitRound \/ RoundFails \/ CancelOcoOrderPair \/ CommitStops \/ StopsFail
            \/ (\E reached \in SUBSET Orders : ActivateStopOrders(reached))
  <2>1. mpc' \in {"stops", "idle", "activate", "oco"}
    BY <1>11 DEF CommitRound, RoundFails, CancelOcoOrderPair, CommitStops, StopsFail, ActivateStopOrders
  <2> QED BY <1>2, <2>1 DEF InRound, Matching
<1>12. CASE (\E o \in Orders : CreateOrder(o)) \/ (\E p \in Procs, o \in Orders : UpdateRow(p, o))
  BY <1>1, <1>12 DEF CreateOrder, UpdateRow
<1>13. ASSUME NEW c \in Requests,
              (\E o \in Orders : ViewCancel(c, o) \/ TaskCancel(c, o))
              \/ (\E ids \in SUBSET Orders : BatchCancel(c, ids))
       PROVE  MemAgrees'
  BY <1>1, <1>13 DEF ViewCancel, TaskCancel, BatchCancel, Begin
<1>14. ASSUME NEW c \in Requests, CancelPair(c) \/ CancelDone(c) \/ CancelFails(c) PROVE MemAgrees'
  BY <1>1, <1>14 DEF CancelPair, CancelDone, CancelFails
<1> QED BY <1>3, <1>4, <1>5, <1>6, <1>7, <1>8, <1>9, <1>10, <1>11, <1>12, <1>13, <1>14
        DEF Next, MatcherStep, RequestStep

\* The ways in which a step changes the row of an order: it is created; a
\* transaction cancels it; an activation opens it; a round saves its object.
Created(o) ==
  row[o].status = "absent" /\ row'[o].status = InitialStatus(o) /\ row'[o].matched = 0

CanceledBy(o) ==
  row[o].status # "absent" /\ row'[o].status = "canceled" /\ row'[o].matched = row[o].matched

Activated(o) ==
  /\ mpc = "oco" /\ CommitStops /\ o \in act
  /\ row'[o].status = "active" /\ row'[o].matched = row[o].matched

SavedByRound(o) ==
  /\ CommitRound /\ o \in pending
  /\ row'[o].status \in {mem[o].status, "canceled"} /\ row'[o].matched = mem[o].matched

Same(o) == row'[o].status = row[o].status /\ row'[o].matched = row[o].matched

LEMMA RowStep ==
  ASSUME LockInv, [Next]_vars, NEW o \in Orders
  PROVE  \/ Same(o) \/ Created(o) \/ CanceledBy(o) \/ Activated(o) \/ SavedByRound(o)
<1> USE DEF db, txs, round
<1>0. /\ Shape /\ TypeOK /\ RequestWrites /\ MatcherWrites
      /\ Matcher \in Procs /\ Requests \subseteq Procs /\ None \notin Statuses
  BY NoneAssumption DEF LockInv, Shape, Procs, RowStatuses
<1>1. CASE row' = row
  BY <1>1 DEF Same
<1>2. CASE UNCHANGED vars
  BY <1>1, <1>2 DEF vars
<1>3. ASSUME NEW p \in Procs, CommitStatuses(p), p \in Requests \/ CommitStops
      PROVE  Same(o) \/ CanceledBy(o) \/ Activated(o)
  <2>1. row'[o].status = Seen(p, o) /\ row'[o].matched = row[o].matched
    BY <1>0, <1>3, CommitEffect
  <2>2. CASE written[p][o] = None
    BY <2>1, <2>2 DEF Seen, Same
  <2>3. CASE written[p][o] # None /\ p \in Requests
    <3>1. Seen(p, o) = "canceled" /\ row[o].status # "absent"
      BY <1>0, <2>3 DEF Seen, RequestWrites, LockInv, WritesLocked
    <3> QED BY <2>1, <3>1 DEF CanceledBy
  <2>4. CASE written[p][o] # None /\ p = Matcher /\ CommitStops
    <3>1. mpc = "oco" /\ Seen(p, o) \in {"active", "canceled"} /\ row[o].status # "absent"
          /\ (Seen(p, o) = "active" => o \in act)
      BY <1>0, <2>4 DEF Seen, MatcherWrites, CommitStops, Stopping, LockInv, WritesLocked
    <3> QED BY <2>1, <2>4, <3>1 DEF CanceledBy, Activated
  <2> QED BY <1>3, <2>2, <2>3, <2>4 DEF Procs
<1>4. ASSUME NEW x \in Orders, CreateOrder(x) PROVE Same(o) \/ Created(o)
  <2>1. row' = [y \in Orders |-> IF y \in {x} \cup ({Pair[x]} \ {None})
                                 THEN [status |-> InitialStatus(y), matched |-> 0] ELSE row[y]]
        /\ row[x].status = "absent"
    BY <1>4 DEF CreateOrder
  <2>2. CASE o = x \/ o = Pair[x]
    <3>1. row[o].status = "absent"
      BY <2>1, <2>2, OrdersAssumption DEF LockInv, PairsAppear
    <3>2. o \in {x} \cup ({Pair[x]} \ {None})
      BY <2>2, OrdersAssumption
    <3>3. row'[o] = [status |-> InitialStatus(o), matched |-> 0]
      BY <2>1, <3>2
    <3> QED BY <3>1, <3>3 DEF Created
  <2>3. CASE o # x /\ o # Pair[x]
    <3>1. o \notin {x} \cup ({Pair[x]} \ {None})
      BY <2>3
    <3>2. row'[o] = row[o]
      BY <2>1, <3>1
    <3> QED BY <3>2 DEF Same
  <2> QED BY <2>2, <2>3
<1>5. CASE CommitRound
  <2>1. row'[o].status = Seen(Matcher, o) /\ row'[o].matched = SavedMatched(o) /\ mpc = "save"
    BY <1>0, <1>5, CommitRoundEffect DEF CommitRound
  <2>2. CASE o \in pending
    <3>1. Seen(Matcher, o) \in {mem[o].status, "canceled"}
      <4>1. written[Matcher][o] \in {mem[o].status, "canceled"}
        BY <1>0, <2>1, <2>2 DEF MatcherWrites
      <4>2. mem[o].status \in {"active", "canceled", "done"}
        BY <1>0, <2>1, <2>2 DEF Shape, RoundLists, InRound
      <4> QED BY <1>0, <4>1, <4>2 DEF Seen, Statuses, Open, Closed
    <3> QED BY <1>5, <2>1, <2>2, <3>1 DEF SavedByRound, SavedMatched
  <2>3. CASE o \notin pending /\ written[Matcher][o] = None
    BY <2>1, <2>3 DEF Seen, SavedMatched, Same
  <2>4. CASE o \notin pending /\ written[Matcher][o] # None
    BY <1>0, <2>1, <2>4 DEF Seen, SavedMatched, CanceledBy, MatcherWrites, LockInv, WritesLocked
  <2> QED BY <2>2, <2>3, <2>4
<1>6. CASE CommitStops
  BY <1>0, <1>3, <1>6 DEF CommitStops
<1>7. CASE \E c \in Requests : CancelPair(c) \/ CancelDone(c) \/ CancelFails(c)
  <2>1. PICK c \in Requests : CancelPair(c) \/ CancelDone(c) \/ CancelFails(c)
    BY <1>7
  <2>2. CommitStatuses(c) \/ row' = row
    BY <2>1 DEF CancelPair, CancelDone, CancelFails
  <2> QED BY <1>0, <1>1, <1>3, <2>2
<1>8. CASE \E c \in Requests : (\E x \in Orders : ViewCancel(c, x) \/ TaskCancel(c, x))
                               \/ (\E ids \in SUBSET Orders : BatchCancel(c, ids))
  BY <1>1, <1>8 DEF ViewCancel, TaskCancel, BatchCancel, Begin
<1>9. CASE (\E x \in Orders : CancelInMemory(x)) \/ (\E p \in Procs, x \in Orders : UpdateRow(p, x))
           \/ StartRound \/ PairCanceled \/ IncreaseOrderMatchedAmount \/ TradeFails
           \/ (\E s, b \in Orders : \E a \in 1..Amount[s] : MatchTwoOrders(s, b, a))
           \/ (\E expired \in SUBSET System : SaveRound(expired))
           \/ RoundFails \/ CancelOcoOrderPair \/ StopsFail
           \/ (\E reached \in SUBSET Orders : ActivateStopOrders(reached))
  BY <1>1, <1>9 DEF CancelInMemory, UpdateRow, StartRound, PairCanceled,
     IncreaseOrderMatchedAmount, TradeFails, MatchTwoOrders, SaveRound, RoundFails,
     CancelOcoOrderPair, StopsFail, ActivateStopOrders
<1> QED BY <1>2, <1>4, <1>5, <1>6, <1>7, <1>8, <1>9 DEF Next, MatcherStep, RequestStep

\* Only inactive stop orders are taken for activation.
LEMMA ActGrows ==
  ASSUME [Next]_vars, NEW o \in act', o \notin act
  PROVE  o \in Orders /\ Exec[o] \in StopExecs /\ row[o].status = "inactive" /\ row' = row
<1>1. \E reached \in SUBSET Orders : ActivateStopOrders(reached)
  BY DEF Next, MatcherStep, RequestStep, CreateOrder, CancelInMemory, UpdateRow, StartRound,
     PairCanceled, IncreaseOrderMatchedAmount, TradeFails, MatchTwoOrders, SaveRound, CommitRound,
     RoundFails, CancelOcoOrderPair, CommitStops, StopsFail, ViewCancel, TaskCancel, BatchCancel,
     Begin, CancelPair, CancelDone, CancelFails, vars
<1> QED BY <1>1 DEF ActivateStopOrders, db

LEMMA StatusStep == StatusInv /\ [Next]_vars => StatusInv'
<1> SUFFICES ASSUME StatusInv, [Next]_vars PROVE ActFresh' /\ AbsentEmpty' /\ StatusAgreesWithMatched'
  BY LockStep, MemStep DEF StatusInv
<1>0. /\ LockInv /\ Shape /\ TypeOK /\ TypeOK' /\ MemAgrees /\ ActFresh /\ AbsentEmpty
      /\ StatusAgreesWithMatched /\ RoundLists
      /\ Amount \in [Orders -> Nat \ {0}]
  BY OrdersAssumption, TypeStep DEF StatusInv, LockInv, Shape
<1>1. ASSUME NEW o \in Orders
      PROVE  /\ row'[o].status = "done" => row'[o].matched = Amount[o]
             /\ row'[o].status \in Open => row'[o].matched < Amount[o]
             /\ row'[o].status = "inactive" => row'[o].matched = 0
             /\ row'[o].matched <= Amount[o]
             /\ row'[o].status = "absent" => row'[o].matched = 0
  <2>1. /\ row[o].status = "done" => row[o].matched = Amount[o]
        /\ row[o].status \in Open => row[o].matched < Amount[o]
        /\ row[o].status = "inactive" => row[o].matched = 0
        /\ row[o].matched <= Amount[o]
        /\ row[o].status = "absent" => row[o].matched = 0
        /\ Amount[o] \in Nat \ {0}
    BY <1>0 DEF StatusAgreesWithMatched, AbsentEmpty
  <2>2. CASE Same(o)
    BY <2>1, <2>2 DEF Same
  <2>3. CASE Created(o)
    BY <2>1, <2>3 DEF Created, InitialStatus
  <2>4. CASE CanceledBy(o)
    BY <2>1, <2>4 DEF CanceledBy, Open
  <2>5. CASE Activated(o)
    <3>1. row[o].matched = 0
      BY <1>0, <2>5 DEF Activated, ActFresh
    <3> QED BY <2>1, <2>5, <3>1 DEF Activated, Open
  <2>6. CASE SavedByRound(o)
    <3>1. mpc \in InRound /\ o \in book
      BY <1>0, <2>6 DEF SavedByRound, CommitRound, RoundLists, InRound
    <3>2. /\ mem[o].matched <= Amount[o] /\ mem[o].status \in {"active", "canceled", "done"}
          /\ mem[o].status = "done" => mem[o].matched = Amount[o]
          /\ mem[o].status = "active" => mem[o].matched < Amount[o]
      BY <1>0, <3>1 DEF MemAgrees, RoundLists
    <3> QED BY <2>6, <3>2 DEF SavedByRound, Open
  <2> QED BY <1>0, <2>2, <2>3, <2>4, <2>5, <2>6, RowStep
<1>2. ActFresh'
  <2>1. ASSUME NEW o \in act', o \in act PROVE Exec[o] \in StopExecs /\ row'[o].matched = 0
    <3>1. o \in Orders /\ Exec[o] \in StopExecs /\ row[o].matched = 0
      BY <1>0, <2>1 DEF ActFresh, TypeOK
    <3>2. ~ SavedByRound(o)
      BY <1>0, <2>1 DEF SavedByRound, CommitRound, RoundLists, Stopping
    <3> QED BY <1>0, <3>1, <3>2, RowStep DEF Same, Created, CanceledBy, Activated
  <2>2. ASSUME NEW o \in act', o \notin act PROVE Exec[o] \in StopExecs /\ row'[o].matched = 0
    <3>2. o \in Orders /\ Exec[o] \in StopExecs /\ row[o].status = "inactive" /\ row' = row
      BY <2>2, ActGrows
    <3> QED BY <1>0, <3>2 DEF StatusAgreesWithMatched
  <2> QED BY <2>1, <2>2 DEF ActFresh
<1> QED BY <1>1, <1>2 DEF AbsentEmpty, StatusAgreesWithMatched

LEMMA StatusInit == Init => StatusInv
<1> SUFFICES ASSUME Init PROVE StatusInv
  OBVIOUS
<1>1. MemAgrees /\ ActFresh
  BY DEF Init, MemAgrees, InRound, Matching, Due, ActFresh
<1>2. AbsentEmpty /\ StatusAgreesWithMatched
  BY OrdersAssumption DEF Init, AbsentEmpty, StatusAgreesWithMatched, NoRow, Open
<1> QED BY <1>1, <1>2, LockInit DEF StatusInv

\* However cancels, pair cancels, activations and rounds interleave, a done order
\* is fully matched, an open one is not, and an inactive one has not matched at all.
THEOREM StatusCorrect == Spec => []StatusAgreesWithMatched
<1>1. StatusInv => StatusAgreesWithMatched
  BY DEF StatusInv
<1> QED BY StatusInit, StatusStep, <1>1, PTL DEF Spec

\* A closed order never trades again, and it is opened again only by the
\* activation of a stop order that has not matched.
THEOREM ReopenCorrect == Spec => ReopensOnlyByActivation
<1>1. StatusInv /\ [Next]_vars =>
        [\A o \in Orders : row[o].status \in Closed =>
           /\ row'[o].matched = row[o].matched
           /\ row'[o].status \in Open =>
                Exec[o] \in StopExecs /\ mpc = "oco" /\ row[o].matched = 0]_vars
  <2> SUFFICES ASSUME StatusInv, [Next]_vars, NEW o \in Orders, row[o].status \in Closed
               PROVE  /\ row'[o].matched = row[o].matched
                      /\ row'[o].status \in Open =>
                           Exec[o] \in StopExecs /\ mpc = "oco" /\ row[o].matched = 0
    OBVIOUS
  <2>1. LockInv /\ RoundReadsCurrent /\ RoundLists /\ ActFresh
    BY DEF StatusInv, LockInv, Shape
  <2>2. ~ SavedByRound(o)
    BY <2>1 DEF SavedByRound, RoundReadsCurrent, RoundLists, Closed
  <2> QED BY <2>1, <2>2, RowStep DEF Same, Created, CanceledBy, Activated, ActFresh, Open, Closed
<1> QED BY StatusInit, StatusStep, <1>1, PTL DEF Spec, ReopensOnlyByActivation

-----------------------------------------------------------------------------
(* Trades *)

\* What the running trade has already added to the object of o
Counted(o) == IF mpc \in Trading /\ o \in {cur.sell, cur.buy} \ Due THEN cur.amount ELSE 0

\* All trades of o, committed or not
Booked(o) == traded[o] + newTraded[o] + Counted(o)

Covered(o) ==
  /\ row[o].matched >= traded[o]
  /\ mpc \in InRound /\ o \in book =>
       /\ mem[o].matched >= Booked(o)
       /\ o \notin pending => mem[o].matched = row[o].matched

CoverInv == StatusInv /\ \A o \in Orders : Covered(o)

\* The sell side is counted first.
CountedOf(o) ==
  /\ Counted(o) \in Nat
  /\ mpc \notin Trading => Counted(o) = 0
  /\ mpc \in Trading =>
       /\ o \notin {cur.sell, cur.buy} => Counted(o) = 0
       /\ o = cur.sell => Counted(o) = IF mpc = "trade" /\ cur.side = "sell" THEN 0 ELSE cur.amount
       /\ o = cur.buy => Counted(o) = IF mpc = "pair" /\ cur.side = "buy" THEN cur.amount ELSE 0

CountedAll == \A o \in Orders : CountedOf(o)

LEMMA CountedFacts == Shape => CountedAll
<1> SUFFICES ASSUME Shape, NEW o \in Orders PROVE CountedOf(o)
  BY DEF CountedAll
<1>1. CASE mpc \notin Trading
  BY <1>1 DEF Counted, CountedOf
<1>2. CASE mpc \in Trading
  <2>1. cur.sell # cur.buy /\ cur.amount \in Nat /\ cur.side \in {"sell", "buy"} /\ mpc \in {"trade", "pair"}
    BY <1>2, CurFacts DEF Trading
  <2> QED BY <1>2, <2>1 DEF Counted, Due, CountedOf
<1> QED BY <1>1, <1>2

\* A running round books exactly what it adds to its objects, except that a
\* trade that fails inside its savepoint leaves the objects as they are.
LEMMA BookedStep ==
  ASSUME LockInv, [Next]_vars, mpc \in InRound, mpc' \in InRound, NEW o \in Orders
  PROVE  /\ book' = book /\ pending \subseteq pending' /\ traded' = traded
         /\ mem[o].matched \in Nat /\ Booked(o) \in Nat /\ mem'[o].matched \in Nat /\ Booked(o)' \in Nat
         /\ \/ mem'[o].matched - Booked(o)' = mem[o].matched - Booked(o)
            \/ TradeFails /\ mem'[o].matched - Booked(o)' >= mem[o].matched - Booked(o)
         /\ o \notin pending' => mem'[o].matched = mem[o].matched
<1> USE DEF db, txs, round
<1>0. Shape /\ Shape' /\ TypeOK /\ TypeOK'
  BY ShapeStep DEF LockInv, Shape
<1>1. CountedOf(o) /\ CountedOf(o)'
  <2>1. CountedAll /\ CountedAll'
    BY <1>0, CountedFacts, PTL
  <2> QED BY <2>1 DEF CountedAll
<1>2. /\ mem[o] \in Rows /\ mem'[o] \in Rows /\ traded[o] \in Nat /\ newTraded[o] \in Nat
      /\ traded'[o] \in Nat /\ newTraded'[o] \in Nat
  BY <1>0 DEF TypeOK
<1>3. /\ mem[o].matched \in Nat /\ mem'[o].matched \in Nat /\ Booked(o) \in Nat /\ Booked(o)' \in Nat
      /\ Counted(o) \in Nat /\ Counted(o)' \in Nat
  BY <1>1, <1>2 DEF Rows, CountedOf, Booked
<1> DEFINE Kept == mem'[o].matched - Booked(o)' = mem[o].matched - Booked(o)
           Undone == TradeFails /\ mem'[o].matched - Booked(o)' >= mem[o].matched - Booked(o)
           Goal == /\ book' = book /\ pending \subseteq pending' /\ traded' = traded
                   /\ Kept \/ Undone
                   /\ o \notin pending' => mem'[o].matched = mem[o].matched
<1> HIDE DEF Kept, Undone, Goal
<1> SUFFICES Goal
  BY <1>3 DEF Goal, Kept, Undone
<1>4. ASSUME UNCHANGED <<book, pending, traded, newTraded, mpc, cur, mem>> \/
             (UNCHANGED <<book, pending, traded, newTraded, mpc, cur>> /\ mem'[o].matched = mem[o].matched)
      PROVE  Goal
  <2>1. Counted(o)' = Counted(o)
    BY <1>4 DEF Counted, Due
  <2>2. Kept
    BY <1>3, <1>4, <2>1 DEF Booked, Kept
  <2> QED BY <1>4, <2>2 DEF Goal
<1>5. CASE UNCHANGED vars
  BY <1>4, <1>5 DEF vars
<1>6. ASSUME NEW x \in Orders, CancelInMemory(x) PROVE Goal
  <2>1. mem'[o].matched = mem[o].matched
    BY <1>0, <1>6 DEF CancelInMemory, TypeOK, Rows
  <2> QED BY <1>4, <1>6, <2>1 DEF CancelInMemory
<1>7. ASSUME NEW s \in Orders, NEW b \in Orders, NEW a \in 1..Amount[s], MatchTwoOrders(s, b, a)
      PROVE  Goal
  <2>1. /\ UNCHANGED <<book, traded, newTraded, mem>> /\ pending \subseteq pending'
        /\ mpc = "match" /\ mpc' = "trade" /\ cur'.side = "sell"
    BY <1>7 DEF MatchTwoOrders
  <2>2. Counted(o) = 0 /\ Counted(o)' = 0
    BY <1>1, <2>1 DEF CountedOf, Trading
  <2>3. Kept
    BY <1>2, <1>3, <2>1, <2>2 DEF Booked, Kept
  <2> QED BY <2>1, <2>3 DEF Goal
<1>8. ASSUME mpc \in Trading, NextSide, traded' = traded
      PROVE  Booked(o)' = traded[o] + newTraded[o]
                          + (IF o = cur.sell \/ (o = cur.buy /\ cur.side = "buy") THEN cur.amount ELSE 0)
  <2>1. cur.sell # cur.buy /\ cur.amount \in Nat /\ mpc \in {"trade", "pair"}
    BY <1>0, <1>8, CurFacts DEF Trading
  <2>2. CASE mpc' = "trade" /\ cur.side = "sell" /\ cur'.sell = cur.sell /\ cur'.buy = cur.buy
             /\ cur'.side = "buy" /\ cur'.amount = cur.amount /\ newTraded' = newTraded
    BY <1>1, <1>2, <1>8, <2>1, <2>2 DEF Booked, CountedOf, Trading
  <2>3. CASE mpc' = "match" /\ cur.side = "buy"
             /\ newTraded'[o] = IF o \in {cur.sell, cur.buy} THEN newTraded[o] + cur.amount ELSE newTraded[o]
    BY <1>1, <1>2, <1>8, <2>1, <2>3 DEF Booked, CountedOf, Trading
  <2> QED BY <1>0, <1>8, <2>2, <2>3, NextSideEffect
<1>9. CASE IncreaseOrderMatchedAmount
  <2>1. mpc = "trade" /\ mpc \in Trading /\ UNCHANGED <<book, pending, traded>>
    BY <1>0, <1>9, IncreaseEffect DEF Trading
  <2>2. cur.sell # cur.buy /\ cur.amount \in Nat /\ cur.side \in {"sell", "buy"} /\ CurOrder \in pending
    BY <1>0, <2>1, CurFacts
  <2>3. mem'[o].matched = IF o = CurOrder THEN mem[o].matched + cur.amount ELSE mem[o].matched
    BY <1>0, <1>9, IncreaseEffect
  <2>4. Booked(o) = traded[o] + newTraded[o] + (IF o = cur.sell /\ cur.side = "buy" THEN cur.amount ELSE 0)
    BY <1>1, <1>2, <2>1, <2>2 DEF Booked, CountedOf
  <2>5. Booked(o)' = traded[o] + newTraded[o]
                     + (IF o = cur.sell \/ (o = cur.buy /\ cur.side = "buy") THEN cur.amount ELSE 0)
    <3>1. CASE mpc' = "pair" /\ cur' = cur /\ newTraded' = newTraded
      BY <1>1, <1>2, <2>1, <2>2, <3>1 DEF Booked, CountedOf, Trading
    <3>2. CASE NextSide
      BY <1>8, <2>1, <3>2
    <3> QED BY <1>0, <1>9, <3>1, <3>2, IncreaseEffect
  <2>6. Kept
    BY <1>2, <1>3, <2>2, <2>3, <2>4, <2>5 DEF CurOrder, Kept
  <2>7. o \notin pending' => mem'[o].matched = mem[o].matched
    BY <2>1, <2>2, <2>3
  <2> QED BY <2>1, <2>6, <2>7 DEF Goal
<1>10. CASE PairCanceled
  <2>1. mpc = "pair" /\ mpc \in Trading /\ NextSide /\ UNCHANGED <<book, pending, traded, mem>>
    BY <1>10 DEF PairCanceled, Trading
  <2>2. cur.sell # cur.buy /\ cur.amount \in Nat /\ cur.side \in {"sell", "buy"}
    BY <1>0, <2>1, CurFacts
  <2>3. Booked(o) = traded[o] + newTraded[o]
                    + (IF o = cur.sell \/ (o = cur.buy /\ cur.side = "buy") THEN cur.amount ELSE 0)
    BY <1>1, <1>2, <2>1, <2>2 DEF Booked, CountedOf
  <2>4. Kept
    BY <1>3, <1>8, <2>1, <2>3 DEF Kept
  <2> QED BY <2>1, <2>4 DEF Goal
<1>11. CASE TradeFails
  <2>1. mpc' = "match" /\ UNCHANGED <<book, pending, traded, newTraded, mem>>
    BY <1>11 DEF TradeFails
  <2>2. Counted(o)' = 0
    BY <1>1, <2>1 DEF CountedOf, Trading
  <2>3. mem'[o].matched - Booked(o)' >= mem[o].matched - Booked(o)
    BY <1>2, <1>3, <2>1, <2>2 DEF Booked
  <2>4. Undone
    BY <1>11, <2>3 DEF Undone
  <2> QED BY <2>1, <2>4 DEF Goal
<1>12. ASSUME NEW expired \in SUBSET System, SaveRound(expired) PROVE Goal
  <2>1. mpc = "match" /\ mpc' = "save" /\ UNCHANGED <<book, pending, traded, newTraded, mem>>
    BY <1>12 DEF SaveRound
  <2>2. Counted(o)' = 0 /\ Counted(o) = 0
    BY <1>1, <2>1 DEF CountedOf, Trading
  <2>3. Kept
    BY <1>2, <1>3, <2>1, <2>2 DEF Booked, Kept
  <2> QED BY <2>1, <2>3 DEF Goal
<1>13. CASE StartRound \/ CommitRound \/ RoundFails \/ CancelOcoOrderPair \/ CommitStops \/ StopsFail
            \/ (\E reached \in SUBSET Orders : ActivateStopOrders(reached))
  BY <1>13 DEF StartRound, CommitRound, RoundFails, CancelOcoOrderPair, CommitStops, StopsFail,
     ActivateStopOrders, InRound, Matching
<1>14. CASE (\E x \in Orders : CreateOrder(x)) \/ (\E p \in Procs, x \in Orders : UpdateRow(p, x))
            \/ (\E c \in Requests : \/ \E x \in Orders : ViewCancel(c, x) \/ TaskCancel(c, x)
                                    \/ \E ids \in SUBSET Orders : BatchCancel(c, ids)
                                    \/ CancelPair(c) \/ CancelDone(c) \/ CancelFails(c))
  <2>1. CASE \E x \in Orders : CreateOrder(x)
    BY <1>4, <2>1 DEF CreateOrder
  <2>2. CASE \E p \in Procs, x \in Orders : UpdateRow(p, x)
    BY <1>4, <2>2 DEF UpdateRow
  <2>3. ASSUME NEW c \in Requests,
               (\E x \in Orders : ViewCancel(c, x) \/ TaskCancel(c, x))
               \/ (\E ids \in SUBSET Orders : BatchCancel(c, ids))
        PROVE  Goal
    BY <1>4, <2>3 DEF ViewCancel, TaskCancel, BatchCancel, Begin
  <2>4. ASSUME NEW c \in Requests, CancelPair(c) \/ CancelDone(c) \/ CancelFails(c) PROVE Goal
    BY <1>4, <2>4 DEF CancelPair, CancelDone, CancelFails
  <2> QED BY <1>14, <2>1, <2>2, <2>3, <2>4
<1> QED
  BY <1>5, <1>6, <1>7, <1>9, <1>10, <1>11, <1>12, <1>13, <1>14 DEF Next, MatcherStep, RequestStep

\* A row and the trades of its order change together, and only when a round
\* that matched the order is committed.
LEMMA RowTraded ==
  ASSUME StatusInv, [Next]_vars, NEW o \in Orders
  PROVE  \/ row'[o].matched = row[o].matched /\ traded'[o] = traded[o]
         \/ /\ CommitRound /\ mpc = "save" /\ mpc' = "stops" /\ o \in pending /\ o \in book
            /\ row'[o].matched = mem[o].matched /\ traded'[o] = traded[o] + newTraded[o]
<1>0. LockInv /\ TypeOK /\ RoundLists /\ AbsentEmpty
  BY DEF StatusInv, LockInv, Shape
<1>1. CASE CommitRound
  <2>1. /\ mpc = "save" /\ mpc' = "stops" /\ row'[o].matched = SavedMatched(o)
        /\ traded'[o] = traded[o] + newTraded[o]
    BY <1>0, <1>1, CommitRoundEffect DEF CommitRound
  <2>2. CASE o \in pending
    BY <1>0, <1>1, <2>1, <2>2 DEF SavedMatched, RoundLists
  <2>3. CASE o \notin pending
    BY <1>0, <2>1, <2>3 DEF SavedMatched, RoundLists, TypeOK
  <2> QED BY <2>2, <2>3
<1>2. CASE ~ CommitRound
  <2>1. traded' = traded
    BY ZenonT(30), <1>2 DEF Next, MatcherStep, RequestStep, CreateOrder, CancelInMemory, UpdateRow, StartRound,
       PairCanceled, IncreaseOrderMatchedAmount, TradeFails, MatchTwoOrders, SaveRound,
       RoundFails, CancelOcoOrderPair, CommitStops, StopsFail, ActivateStopOrders, ViewCancel,
       TaskCancel, BatchCancel, Begin, CancelPair, CancelDone, CancelFails, vars, db
  <2>2. row'[o].matched = row[o].matched
    BY <1>0, <1>2, RowStep DEF Same, Created, CanceledBy, Activated, SavedByRound, AbsentEmpty
  <2> QED BY <2>1, <2>2
<1> QED BY <1>1, <1>2

\* A round starts with the committed rows and with no trades.
LEMMA RoundBegins ==
  ASSUME LockInv, [Next]_vars, mpc \notin InRound, mpc' \in InRound, NEW o \in Orders
  PROVE  /\ row' = row /\ traded' = traded
         /\ mem'[o].matched = row[o].matched /\ Booked(o)' = traded[o]
         /\ StartRound
<1> USE DEF db, txs, round
<1>0. Shape /\ Shape' /\ TypeOK
  BY ShapeStep DEF LockInv, Shape
<1>1. StartRound
  BY ZenonT(30), ShapeStep, <1>0, NextSideEffect
     DEF Next, MatcherStep, RequestStep, CreateOrder, CancelInMemory, UpdateRow,
         PairCanceled, IncreaseOrderMatchedAmount, TradeFails, MatchTwoOrders, SaveRound, CommitRound,
         RoundFails, CancelOcoOrderPair, CommitStops, StopsFail, ActivateStopOrders, ViewCancel,
         TaskCancel, BatchCancel, Begin, CancelPair, CancelDone, CancelFails, vars, InRound, Matching
<1>2. mpc' = "match" /\ mem' = row /\ newTraded'[o] = 0 /\ row' = row /\ traded' = traded
  BY <1>1 DEF StartRound
<1>3. Counted(o)' = 0
  BY <1>2 DEF Counted, Trading
<1>4. traded[o] \in Nat
  BY <1>0 DEF TypeOK
<1> QED BY <1>1, <1>2, <1>3, <1>4 DEF Booked

LEMMA CoverStep == CoverInv /\ [Next]_vars => CoverInv'
<1> SUFFICES ASSUME CoverInv, [Next]_vars, NEW o \in Orders PROVE Covered(o)'
  BY StatusStep DEF CoverInv
<1>0. StatusInv /\ LockInv /\ TypeOK /\ Covered(o) /\ CountedOf(o)
  <2>1. CountedAll
    BY CountedFacts DEF CoverInv, StatusInv, LockInv
  <2> QED BY <2>1 DEF CoverInv, StatusInv, LockInv, Shape, CountedAll
<1>1. row[o].matched \in Nat /\ traded[o] \in Nat /\ newTraded[o] \in Nat /\ mem[o].matched \in Nat
      /\ Counted(o) \in Nat
  BY <1>0 DEF TypeOK, Rows, CountedOf
<1>2. row'[o].matched >= traded'[o]
  <2>1. CASE row'[o].matched = row[o].matched /\ traded'[o] = traded[o]
    BY <1>0, <2>1 DEF Covered
  <2>2. CASE /\ mpc = "save" /\ o \in book
             /\ row'[o].matched = mem[o].matched /\ traded'[o] = traded[o] + newTraded[o]
    BY <1>0, <1>1, <2>2 DEF Covered, Booked, InRound
  <2> QED BY <1>0, <2>1, <2>2, RowTraded
<1>3. ASSUME mpc' \in InRound, o \in book'
      PROVE  mem'[o].matched >= Booked(o)' /\ (o \notin pending' => mem'[o].matched = row'[o].matched)
  <2>1. CASE mpc \in InRound
    <3>1. /\ book' = book /\ pending \subseteq pending'
          /\ mem[o].matched \in Nat /\ Booked(o) \in Nat /\ mem'[o].matched \in Nat /\ Booked(o)' \in Nat
          /\ mem'[o].matched - Booked(o)' >= mem[o].matched - Booked(o)
          /\ o \notin pending' => mem'[o].matched = mem[o].matched
      BY <1>0, <1>3, <2>1, BookedStep
    <3>2. row'[o].matched = row[o].matched
      BY <1>0, <1>3, RowTraded DEF InRound, Matching
    <3>3. mem[o].matched >= Booked(o) /\ (o \notin pending => mem[o].matched = row[o].matched)
      BY <1>0, <1>3, <2>1, <3>1 DEF Covered
    <3> QED BY <3>1, <3>2, <3>3
  <2>2. CASE mpc \notin InRound
    BY <1>0, <1>1, <1>3, <2>2, RoundBegins DEF Covered
  <2> QED BY <2>1, <2>2
<1> QED BY <1>2, <1>3 DEF Covered

LEMMA CoverInit == Init => CoverInv
<1> SUFFICES ASSUME Init PROVE \A o \in Orders : Covered(o)
  BY StatusInit DEF CoverInv
<1> QED BY DEF Init, Covered, NoRow, InRound, Matching

\* No committed trade is ever missing from the matched amount of its order, even
\* when trades fail inside their savepoint while the round goes on.
THEOREM NoTradeLost == Spec => []MatchedCoversTrades
<1>1. CoverInv => MatchedCoversTrades
  BY DEF CoverInv, Covered, MatchedCoversTrades
<1> QED BY CoverInit, CoverStep, <1>1, PTL DEF Spec

-----------------------------------------------------------------------------
(* OCO pairs *)

\* A limit order is never inactive, and a stop order is active only after its pair
\* was closed.
PairStatuses ==
  \A o \in Orders :
    /\ row[o].status = "inactive" => Exec[o] \in StopExecs
    /\ row[o].status = "active" /\ Exec[o] \in StopExecs /\ Pair[o] # None =>
         row[Pair[o]].status \in Closed

\* The second statement of an activation closes the pairs of the stop orders.
OcoStmt ==
  /\ \A o \in act : row[o].status # "absent"
  /\ mpc = "oco" =>
       /\ stmt[Matcher].check = {"active"}
       /\ \A o \in act : Pair[o] # None /\ Pair[o] \notin stmt[Matcher].rows =>
            Seen(Matcher, Pair[o]) # "active"

\* A trade cancels, and waits for, only the stop order of a limit order.
PairWait ==
  /\ \A o \in Orders : pairObj[o] \notin Open
  /\ mpc = "pair" => Pair[CurOrder] # None /\ Exec[CurOrder] = "limit"

PairInv == CoverInv /\ PairStatuses /\ OcoStmt /\ PairWait

LEMMA PairFacts ==
  ASSUME NEW o \in Orders, Pair[o] # None
  PROVE  /\ Pair[o] \in Orders /\ Pair[Pair[o]] = o /\ Pair[o] # o
         /\ Exec[o] \in StopExecs => Exec[Pair[o]] = "limit"
         /\ Exec[o] = "limit" => Exec[Pair[o]] \in StopExecs
         /\ Exec[o] = "limit" \/ Exec[o] \in StopExecs
         /\ "limit" \notin StopExecs
BY PairAssumption DEF StopExecs

\* A limit order that is closed stays closed.
LEMMA LimitStaysClosed ==
  ASSUME StatusInv, [Next]_vars, NEW o \in Orders, Exec[o] = "limit", row[o].status \in Closed
  PROVE  row'[o].status \in Closed
<1>1. LockInv /\ RoundReadsCurrent /\ RoundLists /\ ActFresh
  BY DEF StatusInv, LockInv, Shape
<1>2. ~ SavedByRound(o) /\ ~ Activated(o)
  BY <1>1 DEF SavedByRound, Activated, ActFresh, RoundReadsCurrent, RoundLists, Closed, StopExecs
<1> QED BY <1>1, <1>2, RowStep DEF Same, Created, CanceledBy, Closed

LEMMA PairStatusesStep == PairInv /\ [Next]_vars => PairStatuses'
<1> SUFFICES ASSUME PairInv, [Next]_vars, NEW o \in Orders
             PROVE  /\ row'[o].status = "inactive" => Exec[o] \in StopExecs
                    /\ row'[o].status = "active" /\ Exec[o] \in StopExecs /\ Pair[o] # None =>
                         row'[Pair[o]].status \in Closed
  BY DEF PairStatuses
<1>0. /\ StatusInv /\ LockInv /\ Shape /\ TypeOK /\ TypeOK' /\ PairsAppear' /\ RoundReadsCurrent /\ RoundLists
      /\ PairStatuses /\ OcoStmt
  BY TypeStep, LockStep DEF PairInv, CoverInv, StatusInv, LockInv, Shape
<1>1. row'[o].status = "inactive" => Exec[o] \in StopExecs
  <2>1. CASE Same(o)
    BY <1>0, <2>1 DEF Same, PairStatuses
  <2>2. CASE Created(o)
    BY <2>2 DEF Created, InitialStatus
  <2>3. CASE CanceledBy(o) \/ Activated(o)
    BY <2>3 DEF CanceledBy, Activated
  <2>4. CASE SavedByRound(o)
    BY <1>0, <2>4 DEF SavedByRound, CommitRound, RoundLists, InRound
  <2> QED BY <1>0, <2>1, <2>2, <2>3, <2>4, RowStep
<1>2. ASSUME row'[o].status = "active", Exec[o] \in StopExecs, Pair[o] # None
      PROVE  row'[Pair[o]].status \in Closed
  <2>0. Pair[o] \in Orders /\ Exec[Pair[o]] = "limit" /\ "limit" \notin StopExecs
    BY <1>2, PairFacts
  <2>1. CASE row[o].status = "active"
    <3>1. row[Pair[o]].status \in Closed
      BY <1>0, <1>2, <2>1 DEF PairStatuses
    <3> QED BY <1>0, <2>0, <3>1, LimitStaysClosed
  <2>2. CASE Activated(o)
    <3>1. row'[Pair[o]].status = Seen(Matcher, Pair[o])
      BY <1>0, <2>0, <2>2, CommitEffect DEF Activated, CommitStops, Procs
    <3>2. Seen(Matcher, Pair[o]) # "active"
      BY <1>0, <1>2, <2>2 DEF Activated, OcoStmt, CommitStops, Finished
    <3>3. row'[Pair[o]].status # "absent"
      BY <1>0, <1>2 DEF PairsAppear
    <3>4. row'[Pair[o]].status # "inactive"
      <4>1. CASE Same(Pair[o])
        BY <1>0, <2>0, <4>1 DEF Same, PairStatuses
      <4>2. CASE Created(Pair[o])
        BY <2>0, <4>2 DEF Created, InitialStatus
      <4>3. CASE CanceledBy(Pair[o]) \/ Activated(Pair[o])
        BY <4>3 DEF CanceledBy, Activated
      <4>4. CASE SavedByRound(Pair[o])
        BY <1>0, <4>4 DEF SavedByRound, CommitRound, RoundLists, InRound
      <4> QED BY <1>0, <2>0, <4>1, <4>2, <4>3, <4>4, RowStep
    <3>5. row'[Pair[o]].status \in RowStatuses
      BY <1>0, <2>0 DEF TypeOK, Rows
    <3> QED BY <3>1, <3>2, <3>3, <3>4, <3>5 DEF RowStatuses, Statuses, Open
  <2>3. row[o].status = "active" \/ Activated(o)
    <3>1. SavedByRound(o) => row[o].status = "active"
      BY <1>0 DEF SavedByRound, RoundReadsCurrent, RoundLists
    <3>2. ~ Created(o)
      BY <1>2 DEF Created, InitialStatus
    <3> QED BY <1>0, <1>2, <3>1, <3>2, RowStep DEF Same, CanceledBy
  <2> QED BY <2>1, <2>2, <2>3
<1> QED BY <1>1, <1>2

\* Nothing but its own transaction changes what the matcher reads of a row to
\* "active", unless the row is created.
LEMMA SeenStays ==
  ASSUME LockInv, [Next]_vars, NEW o \in Orders, mpc = "oco", mpc' = "oco",
         Seen(Matcher, o) # "active", row[o].status # "absent"
  PROVE  Seen(Matcher, o)' # "active"
<1> USE DEF db, txs, round
<1>0. /\ Shape /\ TypeOK /\ MatcherStmt /\ Matcher \in Procs /\ Requests \subseteq Procs
      /\ \A c \in Requests : c # Matcher
  BY ProcsAssumption DEF LockInv, Shape, Procs
<1>1. ASSUME written'[Matcher][o] = written[Matcher][o] PROVE Seen(Matcher, o)' # "active"
  <2>1. row'[o].status \in {row[o].status, "canceled"}
    BY RowStep DEF Same, Created, CanceledBy, Activated, SavedByRound, CommitRound, CommitStops
  <2> QED BY <1>1, <2>1 DEF Seen
<1>2. CASE UNCHANGED written
  BY <1>1, <1>2
<1>3. ASSUME NEW p \in Procs, NEW x \in Orders, UpdateRow(p, x) PROVE Seen(Matcher, o)' # "active"
  <2>1. CASE written'[Matcher][o] = written[Matcher][o]
    BY <1>1, <2>1
  <2>2. CASE written'[Matcher][o] = "canceled"
    BY <2>2, NoneAssumption DEF Seen, RowStatuses, Statuses, Closed
  <2>3. stmt[Matcher].set = "canceled"
    BY <1>0 DEF MatcherStmt
  <2> QED BY <1>0, <1>3, <2>1, <2>2, <2>3, UpdateRowWrites
<1>4. ASSUME NEW c \in Requests, CommitStatuses(c) \/ Rollback(c) PROVE Seen(Matcher, o)' # "active"
  BY <1>0, <1>1, <1>4, CommitEffect, RollbackEffect
<1>5. CASE UNCHANGED vars
  BY <1>2, <1>5 DEF vars
<1>6. CASE \E c \in Requests : CancelPair(c) \/ CancelDone(c) \/ CancelFails(c)
  BY <1>2, <1>4, <1>6 DEF CancelPair, CancelDone, CancelFails
<1>7. CASE \E c \in Requests : (\E x \in Orders : ViewCancel(c, x) \/ TaskCancel(c, x))
                               \/ (\E ids \in SUBSET Orders : BatchCancel(c, ids))
  BY <1>2, <1>7 DEF ViewCancel, TaskCancel, BatchCancel, Begin
<1>8. CASE (\E x \in Orders : CreateOrder(x) \/ CancelInMemory(x)) \/ StartRound \/ PairCanceled
           \/ IncreaseOrderMatchedAmount \/ TradeFails
           \/ (\E s, b \in Orders : \E a \in 1..Amount[s] : MatchTwoOrders(s, b, a))
           \/ (\E expired \in SUBSET System : SaveRound(expired))
           \/ RoundFails \/ CancelOcoOrderPair \/ StopsFail \/ CommitStops \/ CommitRound
           \/ (\E reached \in SUBSET Orders : ActivateStopOrders(reached))
  BY <1>2, <1>8 DEF CreateOrder, CancelInMemory, StartRound, PairCanceled,
     IncreaseOrderMatchedAmount, TradeFails, MatchTwoOrders, SaveRound, RoundFails,
     CancelOcoOrderPair, StopsFail, CommitStops, CommitRound, ActivateStopOrders
<1> QED BY <1>3, <1>5, <1>6, <1>7, <1>8 DEF Next, MatcherStep, RequestStep

LEMMA OcoStmtStep == PairInv /\ [Next]_vars => OcoStmt'
<1> SUFFICES ASSUME PairInv, [Next]_vars PROVE OcoStmt'
  OBVIOUS
<1> USE DEF db, txs, round
<1>0. /\ StatusInv /\ LockInv /\ Shape /\ TypeOK /\ RoundLists /\ OcoStmt /\ ActFresh /\ PairsAppear
      /\ MatcherStmt /\ Matcher \in Procs /\ Requests \subseteq Procs
      /\ \A c \in Requests : c # Matcher
  BY ProcsAssumption DEF PairInv, CoverInv, StatusInv, LockInv, Shape, Procs
<1>1. ASSUME NEW o \in act' PROVE row'[o].status # "absent"
  <2>1. CASE o \in act
    <3>1. o \in Orders /\ row[o].status # "absent" /\ ~ CommitRound
      BY <1>0, <2>1 DEF OcoStmt, TypeOK, RoundLists, Stopping, CommitRound
    <3> QED BY <1>0, <3>1, RowStep DEF Same, Created, CanceledBy, Activated, SavedByRound
  <2>2. CASE o \notin act
    BY <1>1, <2>2, ActGrows
  <2> QED BY <2>1, <2>2
<1>2. ASSUME mpc' = "oco", CancelOcoOrderPair
      PROVE  /\ stmt'[Matcher].check = {"active"}
             /\ \A o \in act' : Pair[o] # None /\ Pair[o] \notin stmt'[Matcher].rows =>
                  Seen(Matcher, Pair[o])' # "active"
  <2>1. /\ stmt'[Matcher].check = {"active"} /\ act' = act /\ UNCHANGED <<row, written>>
        /\ stmt'[Matcher].rows = {p \in {Pair[o] : o \in act} \ {None} :
                                    Exec[p] = "limit" /\ Seen(Matcher, p) = "active"}
    BY <1>0, <1>2 DEF CancelOcoOrderPair, Update, TypeOK
  <2>2. ASSUME NEW o \in act, Pair[o] # None, Pair[o] \notin stmt'[Matcher].rows
        PROVE  Seen(Matcher, Pair[o])' # "active"
    <3>1. o \in Orders /\ Exec[o] \in StopExecs
      BY <1>0 DEF ActFresh, TypeOK
    <3>2. Exec[Pair[o]] = "limit"
      BY <2>2, <3>1, PairFacts
    <3>3. Seen(Matcher, Pair[o]) # "active"
      BY <2>1, <2>2, <3>2
    <3> QED BY <2>1, <3>3 DEF Seen
  <2> QED BY <2>1, <2>2
<1>3. ASSUME mpc' = "oco", ~ CancelOcoOrderPair PROVE mpc = "oco" /\ act' = act
  BY ZenonT(30), <1>0, <1>3, NextSideEffect
     DEF Next, MatcherStep, RequestStep, CreateOrder, CancelInMemory, UpdateRow, StartRound,
         PairCanceled, IncreaseOrderMatchedAmount, NextSide, TradeFails, MatchTwoOrders, SaveRound, CommitRound,
         RoundFails, CommitStops, StopsFail, ActivateStopOrders, ViewCancel,
         TaskCancel, BatchCancel, Begin, CancelPair, CancelDone, CancelFails, vars
<1>4. ASSUME mpc' = "oco", ~ CancelOcoOrderPair
      PROVE  /\ stmt'[Matcher].check = {"active"}
             /\ \A o \in act' : Pair[o] # None /\ Pair[o] \notin stmt'[Matcher].rows =>
                  Seen(Matcher, Pair[o])' # "active"
  <2>0. mpc = "oco" /\ act' = act /\ stmt[Matcher].check = {"active"}
    BY <1>0, <1>3, <1>4 DEF OcoStmt
  <2>1. ASSUME NEW o \in act, Pair[o] # None, Pair[o] \notin stmt[Matcher].rows
        PROVE  Seen(Matcher, Pair[o])' # "active"
    <3>1. o \in Orders /\ row[o].status # "absent" /\ Seen(Matcher, Pair[o]) # "active"
      BY <1>0, <2>0, <2>1 DEF OcoStmt, TypeOK
    <3>2. Pair[o] \in Orders /\ row[Pair[o]].status # "absent"
      BY <1>0, <2>1, <3>1, PairFacts DEF PairsAppear
    <3> QED BY <1>0, <1>4, <2>0, <3>1, <3>2, SeenStays
  <2>2. CASE stmt'[Matcher] = stmt[Matcher]
    BY <2>0, <2>1, <2>2
  <2>3. ASSUME NEW p \in Procs, NEW x \in Orders, UpdateRow(p, x)
        PROVE  /\ stmt'[Matcher].check = {"active"}
               /\ \A o \in act' : Pair[o] # None /\ Pair[o] \notin stmt'[Matcher].rows =>
                    Seen(Matcher, Pair[o])' # "active"
    <3>1. stmt'[Matcher].check = {"active"}
      BY <1>0, <2>0, <2>3, UpdateRowStmt
    <3>2. \A y \in stmt[Matcher].rows : y \notin stmt'[Matcher].rows => p = Matcher /\ y = x
      BY <1>0, <2>3, UpdateRowStmt
    <3>3. ASSUME p = Matcher PROVE Seen(Matcher, x)' # "active"
      <4>1. CASE Seen(Matcher, x) \in stmt[Matcher].check
        <5>1. written'[Matcher][x] = "canceled"
          BY <1>0, <2>0, <2>3, <3>3, <4>1, UpdateRowWrites DEF MatcherStmt
        <5> QED BY <5>1, NoneAssumption DEF Seen, RowStatuses, Statuses, Closed
      <4>2. CASE Seen(Matcher, x) \notin stmt[Matcher].check
        <5>1. written'[Matcher][x] = written[Matcher][x] /\ row' = row
          BY <1>0, <2>3, <3>3, <4>2, UpdateRowWrites DEF UpdateRow
        <5> QED BY <2>0, <4>2, <5>1 DEF Seen
      <4> QED BY <4>1, <4>2
    <3> QED BY <2>0, <2>1, <3>1, <3>2, <3>3
  <2>4. ASSUME NEW c \in Requests,
               CancelPair(c) \/ CancelDone(c) \/ CancelFails(c)
               \/ (\E o \in Orders : ViewCancel(c, o) \/ TaskCancel(c, o))
               \/ (\E ids \in SUBSET Orders : BatchCancel(c, ids))
        PROVE  stmt'[Matcher] = stmt[Matcher]
    <3>1. CASE CancelPair(c)
      BY <1>0, <3>1, CancelPairEffect
    <3>2. CASE CancelDone(c)
      BY <3>2 DEF CancelDone
    <3>3. CASE CancelFails(c)
      BY <1>0, <3>3, RollbackEffect DEF CancelFails
    <3>4. CASE (\E o \in Orders : ViewCancel(c, o) \/ TaskCancel(c, o))
               \/ (\E ids \in SUBSET Orders : BatchCancel(c, ids))
      BY <1>0, <3>4 DEF ViewCancel, TaskCancel, BatchCancel, Begin, TypeOK
    <3> QED BY <2>4, <3>1, <3>2, <3>3, <3>4
  <2>5. (\E p \in Procs, x \in Orders : UpdateRow(p, x)) \/ stmt'[Matcher] = stmt[Matcher]
    BY <1>4, <2>0, <2>4
       DEF Next, MatcherStep, RequestStep, CreateOrder, CancelInMemory, StartRound,
         PairCanceled, IncreaseOrderMatchedAmount, TradeFails, MatchTwoOrders, SaveRound, CommitRound,
         RoundFails, CommitStops, StopsFail, ActivateStopOrders, vars
  <2> QED BY <2>2, <2>3, <2>5
<1> QED BY <1>1, <1>2, <1>4 DEF OcoStmt

LEMMA PairWaitStep == PairInv /\ [Next]_vars => PairWait'
<1> SUFFICES ASSUME PairInv, [Next]_vars PROVE PairWait'
  OBVIOUS
<1> USE DEF db, txs, round
<1>0. /\ LockInv /\ Shape /\ TypeOK /\ RoundReadsCurrent /\ MatcherWrites /\ PairStatuses /\ PairWait
      /\ Matcher \in Procs /\ None \notin Open
  BY NoneAssumption DEF PairInv, CoverInv, StatusInv, LockInv, Shape, Procs, RowStatuses, Statuses
<1>1. ASSUME UNCHANGED <<cur, mpc, pairObj>> PROVE PairWait'
  BY <1>0, <1>1 DEF PairWait, CurOrder
<1>2. ASSUME mpc' # "pair", pairObj' = pairObj \/ pairObj' = NoWrites PROVE PairWait'
  BY <1>0, <1>2 DEF PairWait, NoWrites
<1>3. CASE IncreaseOrderMatchedAmount
  <2>1. mpc = "trade" /\ mpc \in Trading
    BY <1>0, <1>3, IncreaseEffect DEF Trading
  <2>2. CurOrder \in Orders /\ CurOrder \in book
    BY <1>0, <2>1, CurFacts
  <2>3. \A x \in Orders : \/ pairObj'[x] = pairObj[x]
                          \/ pairObj'[x] = "canceled"
                          \/ pairObj'[x] = PairSeen(x) /\ Pair[x] # None /\ ~ CancelsPair(x)
    BY <1>0, <1>3, IncreaseEffect
  <2>4. \A x \in Orders : pairObj'[x] \notin Open
    BY <1>0, <2>3 DEF PairWait, CancelsPair, Open
  <2>5. ASSUME CancelsPair(CurOrder) PROVE Pair[CurOrder] # None /\ Exec[CurOrder] = "limit"
    <3>1. Pair[CurOrder] # None /\ PairSeen(CurOrder) \in Open
      BY <2>5 DEF CancelsPair
    <3>2. Seen(Matcher, Pair[CurOrder]) \in Open
      BY <1>0, <2>2, <3>1 DEF PairSeen, PairWait
    <3>3. Pair[CurOrder] \in Orders
      BY <2>2, <3>1, PairFacts
    <3>4. row[Pair[CurOrder]].status \in Open
      <4>1. written[Matcher][Pair[CurOrder]] \in {None, "canceled"}
        BY <1>0, <2>1, <3>3 DEF MatcherWrites, Matching
      <4> QED BY <3>2, <4>1 DEF Seen, Open
    <3>5. row[CurOrder].status = "active"
      BY <1>0, <2>2 DEF RoundReadsCurrent
    <3> QED BY <1>0, <2>2, <3>1, <3>4, <3>5, PairFacts DEF PairStatuses, Open, Closed
  <2>6. CASE CancelsPair(CurOrder) /\ mpc' = "pair" /\ cur' = cur
    BY <2>4, <2>5, <2>6 DEF PairWait, CurOrder
  <2>7. CASE NextSide
    <3>1. mpc' # "pair"
      BY <2>7 DEF NextSide
    <3> QED BY <2>4, <3>1 DEF PairWait
  <2> QED BY <1>0, <1>3, <2>6, <2>7, IncreaseEffect
<1>4. CASE UNCHANGED vars
  BY <1>1, <1>4 DEF vars
<1>5. CASE \E c \in Requests : \/ CancelPair(c) \/ CancelDone(c) \/ CancelFails(c)
                               \/ \E x \in Orders : ViewCancel(c, x) \/ TaskCancel(c, x)
                               \/ \E ids \in SUBSET Orders : BatchCancel(c, ids)
  BY <1>1, <1>5 DEF CancelPair, CancelDone, CancelFails, ViewCancel, TaskCancel, BatchCancel, Begin
<1>6. CASE (\E x \in Orders : CreateOrder(x) \/ CancelInMemory(x))
           \/ (\E p \in Procs, x \in Orders : UpdateRow(p, x))
  BY <1>1, <1>6 DEF CreateOrder, CancelInMemory, UpdateRow
<1>7. CASE StartRound \/ PairCanceled \/ TradeFails
           \/ (\E s, b \in Orders : \E a \in 1..Amount[s] : MatchTwoOrders(s, b, a))
           \/ (\E expired \in SUBSET System : SaveRound(expired))
           \/ RoundFails \/ CancelOcoOrderPair \/ StopsFail \/ CommitStops \/ CommitRound
           \/ (\E reached \in SUBSET Orders : ActivateStopOrders(reached))
  BY ZenonT(30), <1>2, <1>7 DEF StartRound, PairCanceled, NextSide, TradeFails, MatchTwoOrders, SaveRound, RoundFails,
     CancelOcoOrderPair, StopsFail, CommitStops, CommitRound, DropRound, ActivateStopOrders
<1> QED BY <1>3, <1>4, <1>5, <1>6, <1>7 DEF Next, MatcherStep, RequestStep

LEMMA PairStep == PairInv /\ [Next]_vars => PairInv'
BY CoverStep, PairStatusesStep, OcoStmtStep, PairWaitStep DEF PairInv

LEMMA PairInit == Init => PairInv
<1> SUFFICES ASSUME Init PROVE PairStatuses /\ OcoStmt /\ PairWait
  BY CoverInit DEF PairInv
<1> QED BY NoneAssumption DEF Init, PairStatuses, OcoStmt, PairWait, NoRow, NoWrites, RowStatuses, Statuses

-----------------------------------------------------------------------------
(* Requests that cancel one order or one pair at a time *)

\* While it runs its first UPDATE a request holds at most the order it cancels;
\* the task commits before it goes on to the pair, the view holds both.
Held(c) ==
  \A o \in Orders : lock[o] = c =>
    /\ req[c].pc # "idle"
    /\ req[c].pc = "update" => o = req[c].order
    /\ req[c].pc = "pair" => o = Pair[req[c].order] \/ (o = req[c].order /\ req[c].kind = "view")

\* The row it has yet to visit is one it does not hold.
ToVisit(c) ==
  /\ req[c].pc = "idle" => stmt[c].rows = {}
  /\ req[c].pc = "update" =>
       stmt[c].rows = {} \/ (stmt[c].rows = {req[c].order} /\ lock[req[c].order] # c)
  /\ req[c].pc = "pair" =>
       stmt[c].rows = {} \/ (stmt[c].rows = {Pair[req[c].order]} /\ lock[Pair[req[c].order]] # c)

\* A limit order that a stop order's cancel must leave alone
Settled(o) == row[o].matched > 0 \/ row[o].status \in Closed

\* The view cancels a pair starting from its limit order.
LimitFirst(c) ==
  req[c].pc # "idle" /\ req[c].kind = "view" /\ Pair[req[c].order] # None =>
    \/ Exec[req[c].order] = "limit"
    \/ req[c].pc = "update" /\ req[c].pairStatus = None /\ Settled(Pair[req[c].order])

ReqOK(c) == req[c].kind # "batch" /\ Held(c) /\ ToVisit(c) /\ LimitFirst(c)

ReqInv == \A c \in Requests : ReqOK(c)

\* The objects of a round hold exactly the trades of their orders.
Exact(o) ==
  /\ row[o].matched = traded[o]
  /\ mpc \in InRound /\ o \in book => mem[o].matched = Booked(o)

ExactInv == PairInv /\ ReqInv /\ \A o \in Orders : Exact(o)

\* The request a trade waits for is not waiting itself.
LEMMA HolderRuns ==
  ASSUME PairInv, ReqInv PROVE TradeNeverDeadlocks
<1> SUFFICES ASSUME mpc = "pair", Deadlocked(Matcher) PROVE FALSE
  BY DEF TradeNeverDeadlocks
<1>0. /\ Shape /\ TypeOK /\ ReqTyped /\ PairWait /\ MatcherStmt /\ mpc \in Trading
      /\ Matcher \in Procs /\ Requests \subseteq Procs /\ Matcher \notin Requests
  BY ProcsAssumption DEF PairInv, CoverInv, StatusInv, LockInv, Shape, Procs, Trading
<1> DEFINE p == Pair[CurOrder]
<1>1. CurOrder \in Orders /\ p \in Orders /\ Exec[p] \in StopExecs /\ "limit" \notin StopExecs
      /\ stmt[Matcher].rows \subseteq {p}
  BY <1>0, CurFacts, PairFacts DEF PairWait, MatcherStmt
<1>2. WaitsFor(Matcher) \subseteq {lock[p]}
  BY <1>1 DEF WaitsFor
<1>3. ASSUME Blocked(Matcher) PROVE lock[p] \in Requests
  BY <1>0, <1>1, <1>3 DEF Blocked, Finished, TypeOK, Procs
<1>4. ASSUME lock[p] \in Requests PROVE WaitsFor(lock[p]) = {}
  <2>1. PICK c \in Requests : lock[p] = c
    BY <1>4
  <2>2. ReqOK(c)
    BY <2>1 DEF ReqInv
  <2>3. req[c].pc # "idle" /\ req[c].pc \in {"idle", "update", "pair"}
    BY <1>0, <1>1, <2>1, <2>2 DEF ReqOK, Held, TypeOK
  <2>4. CASE req[c].pc = "update"
    BY <1>1, <2>1, <2>2, <2>4 DEF ReqOK, Held, ToVisit, WaitsFor, Blocked, Finished
  <2>5. CASE req[c].pc = "pair" /\ p = Pair[req[c].order]
    BY <2>1, <2>2, <2>5 DEF ReqOK, ToVisit, WaitsFor, Blocked, Finished
  <2>6. CASE req[c].pc = "pair" /\ p # Pair[req[c].order]
    <3>1. p = req[c].order /\ req[c].kind = "view"
      BY <1>1, <2>1, <2>2, <2>6 DEF ReqOK, Held
    <3>2. Pair[req[c].order] # None
      BY <1>0, <2>6 DEF ReqTyped
    <3>3. Exec[req[c].order] = "limit"
      BY <2>2, <2>6, <3>1, <3>2 DEF ReqOK, LimitFirst
    <3> QED BY <1>1, <3>1, <3>3
  <2> QED BY <2>3, <2>4, <2>5, <2>6
<1>5. CASE Blocked(Matcher)
  <2>1. {lock[p]} \in SUBSET Procs /\ Matcher \notin {lock[p]}
    BY <1>0, <1>3, <1>5
  <2>2. \A q \in {lock[p]} : WaitsFor(q) \subseteq {lock[p]}
    BY <1>3, <1>4, <1>5
  <2> QED BY <1>2, <2>1, <2>2 DEF Deadlocked
<1>6. CASE ~ Blocked(Matcher)
  <2>1. WaitsFor(Matcher) \subseteq {}
    BY <1>6 DEF WaitsFor
  <2>2. {} \in SUBSET Procs /\ (\A q \in {} : WaitsFor(q) \subseteq {}) /\ Matcher \notin {}
    OBVIOUS
  <2> QED BY <2>1, <2>2 DEF Deadlocked
<1> QED BY <1>5, <1>6

RequestActs(c) ==
  \/ \E o \in Orders : UpdateRow(c, o) \/ ViewCancel(c, o) \/ TaskCancel(c, o)
  \/ \E ids \in SUBSET Orders : BatchCancel(c, ids)
  \/ CancelPair(c) \/ CancelDone(c) \/ CancelFails(c)

\* What other processes do leaves a request alone.
LEMMA OthersAct ==
  ASSUME LockInv, [Next]_vars, NEW c \in Requests, ~ RequestActs(c)
  PROVE  /\ req'[c] = req[c] /\ stmt'[c].rows = stmt[c].rows
         /\ \A o \in Orders : lock'[o] = c => lock[o] = c
<1> USE DEF db, txs, round
<1>0. /\ Shape /\ TypeOK /\ Matcher \in Procs /\ Requests \subseteq Procs /\ c \in Procs /\ None # c
      /\ c # Matcher
  BY ProcsAssumption DEF LockInv, Shape, Procs
<1> DEFINE Alone == /\ req'[c] = req[c] /\ stmt'[c].rows = stmt[c].rows
                    /\ \A o \in Orders : lock'[o] = c => lock[o] = c
<1> HIDE DEF Alone
<1> SUFFICES Alone
  BY DEF Alone
<1>1. CASE UNCHANGED <<req, stmt, lock>>
  BY <1>1 DEF Alone
<1>2. ASSUME NEW q \in Procs \ {c}, CommitStatuses(q), stmt'[c] = stmt[c], req'[c] = req[c] PROVE Alone
  BY <1>0, <1>2, CommitEffect DEF Alone
<1>3. ASSUME NEW q \in Procs \ {c}, Rollback(q), req'[c] = req[c] PROVE Alone
  <2>1. stmt'[c] = stmt[c] /\ \A o \in Orders : lock'[o] \in {lock[o], None}
    BY <1>0, <1>3, RollbackEffect
  <2> QED BY <1>0, <1>3, <2>1 DEF Alone
<1>4. CASE UNCHANGED vars
  BY <1>1, <1>4 DEF vars
<1>5. CASE (\E x \in Orders : CreateOrder(x) \/ CancelInMemory(x)) \/ PairCanceled
           \/ (\E s, b \in Orders : \E a \in 1..Amount[s] : MatchTwoOrders(s, b, a))
  BY ZenonT(30), <1>1, <1>5 DEF CreateOrder, CancelInMemory, PairCanceled, MatchTwoOrders
<1>6. ASSUME NEW q \in Procs, NEW o \in Orders, UpdateRow(q, o) PROVE Alone
  <2>1. q # c
    BY <1>6 DEF RequestActs
  <2>2. stmt'[c].rows = stmt[c].rows
    BY <1>0, <1>6, <2>1, UpdateRowStmt
  <2>3. \A x \in Orders : lock'[x] \in {lock[x], q}
    BY <1>0, <1>6, UpdateRowWrites
  <2> QED BY <1>6, <2>1, <2>2, <2>3 DEF Alone, UpdateRow
<1>7. CASE StartRound
  BY <1>0, <1>7 DEF StartRound, RoundLocks, Alone
<1>8. CASE IncreaseOrderMatchedAmount
  <2>1. stmt'[c] = stmt[c] /\ UNCHANGED <<lock, req>>
    BY <1>0, <1>8, IncreaseEffect
  <2> QED BY <2>1 DEF Alone
<1>9. CASE TradeFails
  <2>1. stmt'[c] = stmt[c] /\ req' = req /\ \A x \in Orders : lock'[x] \in {lock[x], None}
    BY <1>0, <1>9 DEF TradeFails, TypeOK
  <2> QED BY <1>0, <2>1 DEF Alone
<1>10. CASE (\E expired \in SUBSET System : SaveRound(expired)) \/ CancelOcoOrderPair
            \/ (\E reached \in SUBSET Orders : ActivateStopOrders(reached))
  <2>1. stmt'[c] = stmt[c] /\ UNCHANGED <<lock, req>>
    BY <1>0, <1>10 DEF SaveRound, CancelOcoOrderPair, ActivateStopOrders, TypeOK
  <2> QED BY <2>1 DEF Alone
<1>11. CASE CommitRound
  <2>1. stmt' = stmt /\ req' = req /\ \A x \in Orders : lock'[x] \in {lock[x], None}
    BY <1>0, <1>11, CommitRoundEffect DEF CommitRound
  <2> QED BY <1>0, <2>1 DEF Alone
<1>12. CASE RoundFails \/ StopsFail
  BY <1>0, <1>3, <1>12 DEF RoundFails, StopsFail
<1>13. CASE CommitStops
  BY <1>0, <1>2, <1>13 DEF CommitStops
<1>14. ASSUME NEW d \in Requests \ {c}, NEW kind, NEW o, NEW ps, NEW R, NEW check,
              Begin(d, kind, o, ps, R, check)
       PROVE  Alone
  BY <1>0, <1>14, BeginEffect DEF Alone, Begin
<1>15. ASSUME NEW d \in Requests,
              (\E o \in Orders : ViewCancel(d, o) \/ TaskCancel(d, o))
              \/ (\E ids \in SUBSET Orders : BatchCancel(d, ids))
       PROVE  Alone
  <2>1. d # c
    BY <1>15 DEF RequestActs
  <2> QED BY <1>14, <1>15, <2>1 DEF ViewCancel, TaskCancel, BatchCancel
<1>16. ASSUME NEW d \in Requests, CancelPair(d) PROVE Alone
  <2>1. d # c
    BY <1>16 DEF RequestActs
  <2>2. req'[c] = req[c] /\ stmt'[c] = stmt[c] /\ (CommitStatuses(d) \/ lock' = lock)
    BY <1>0, <1>16, <2>1, CancelPairEffect
  <2> QED BY <1>0, <1>2, <2>1, <2>2 DEF Alone
<1>17. ASSUME NEW d \in Requests, CancelDone(d) \/ CancelFails(d) PROVE Alone
  <2>1. d # c
    BY <1>17 DEF RequestActs
  <2>2. req'[c] = req[c]
    BY <1>0, <1>17, <2>1, EndEffect
  <2> QED BY <1>0, <1>2, <1>3, <1>17, <2>1, <2>2 DEF CancelDone, CancelFails
<1> QED BY <1>4, <1>5, <1>6, <1>7, <1>8, <1>9, <1>10, <1>11, <1>12, <1>13, <1>15, <1>16, <1>17
        DEF Next, MatcherStep, RequestStep

LEMMA SettledStays ==
  ASSUME ExactInv, [Next]_vars, NEW o \in Orders, Exec[o] = "limit", Settled(o)
  PROVE  Settled(o)'
<1>0. StatusInv /\ TypeOK /\ Exact(o) /\ CountedOf(o)
  <2>1. CountedAll
    BY CountedFacts DEF ExactInv, PairInv, CoverInv, StatusInv, LockInv
  <2> QED BY <2>1 DEF ExactInv, PairInv, CoverInv, StatusInv, LockInv, Shape, CountedAll
<1>1. CASE row[o].status \in Closed
  BY <1>0, <1>1, LimitStaysClosed DEF Settled
<1>2. CASE row[o].matched > 0
  <2>1. row[o].matched \in Nat /\ traded[o] \in Nat /\ newTraded[o] \in Nat /\ Counted(o) \in Nat
    BY <1>0 DEF TypeOK, Rows, CountedOf
  <2>2. mpc = "save" /\ o \in book => mem[o].matched >= row[o].matched
    BY <1>0, <2>1 DEF Exact, Booked, InRound
  <2>3. row'[o].matched >= row[o].matched /\ row'[o].matched \in Nat
    <3>1. mem[o].matched \in Nat
      BY <1>0 DEF TypeOK, Rows
    <3> QED BY <1>0, <2>1, <2>2, <3>1, RowTraded
  <2> QED BY <1>2, <2>1, <2>3 DEF Settled
<1> QED BY <1>1, <1>2 DEF Settled

LEMMA ReqStep ==
  ASSUME ExactInv, [Next]_vars, BatchRequests = {}, NEW c \in Requests
  PROVE  ReqOK(c)'
<1> USE DEF db, txs, round
<1>0. /\ LockInv /\ Shape /\ TypeOK /\ ReqTyped /\ RequestWrites /\ PairStatuses /\ ReqOK(c)
      /\ Held(c) /\ ToVisit(c) /\ LimitFirst(c) /\ req[c].kind # "batch"
      /\ c \in Procs /\ None # c /\ c # Matcher
  BY ProcsAssumption DEF ExactInv, PairInv, CoverInv, StatusInv, LockInv, Shape, Procs, ReqInv, ReqOK
<1>1. req[c].pc # "idle" => req[c].order \in Orders
  BY <1>0 DEF ReqTyped
<1>2. ASSUME req'[c] = req[c], \A o \in Orders : lock'[o] = c => lock[o] = c,
             stmt'[c].rows = stmt[c].rows
      PROVE  ReqOK(c)'
  <2>1. Held(c)'
    BY <1>0, <1>2 DEF Held
  <2>2. req[c].pc = "pair" => Pair[req[c].order] \in Orders
    BY <1>0, <1>1, PairAssumption DEF ReqTyped
  <2>3. ToVisit(c)'
    BY <1>0, <1>1, <1>2, <2>2 DEF ToVisit
  <2>4. LimitFirst(c)'
    <3> SUFFICES ASSUME req[c].pc # "idle", Pair[req[c].order] # None, req[c].kind = "view",
                        Exec[req[c].order] # "limit"
                 PROVE  req[c].pc = "update" /\ req[c].pairStatus = None
                        /\ Settled(Pair[req[c].order])'
      BY <1>2 DEF LimitFirst
    <3>1. req[c].pc = "update" /\ req[c].pairStatus = None /\ Settled(Pair[req[c].order])
      BY <1>0 DEF LimitFirst
    <3>2. PICK t \in Orders : t = req[c].order
      BY <1>1
    <3>3. PICK q \in Orders : q = Pair[t] /\ Exec[q] = "limit"
      BY <3>2, PairFacts
    <3>4. Settled(q)'
      BY <3>1, <3>2, <3>3, SettledStays
    <3> QED BY <1>2, <3>1, <3>2, <3>3, <3>4
  <2> QED BY <1>0, <1>2, <2>1, <2>3, <2>4 DEF ReqOK
<1>3. CASE ~ RequestActs(c)
  BY <1>0, <1>2, <1>3, OthersAct
<1>4. ASSUME NEW o \in Orders, UpdateRow(c, o) PROVE ReqOK(c)'
  <2>1. /\ o \in stmt[c].rows /\ stmt'[c].rows = stmt[c].rows \ {o}
        /\ \A x \in Orders : lock'[x] = c => lock[x] = c \/ x = o
        /\ req' = req /\ row' = row
    <3>1. stmt'[c].rows = stmt[c].rows \ {o}
      BY <1>0, <1>4, UpdateRowStmt
    <3>2. \A x \in Orders : lock'[x] = c => lock[x] = c \/ x = o
      BY <1>0, <1>4, UpdateRowWrites
    <3> QED BY <1>4, <3>1, <3>2 DEF UpdateRow
  <2>2. \/ req[c].pc = "update" /\ o = req[c].order /\ stmt[c].rows = {o}
        \/ req[c].pc = "pair" /\ o = Pair[req[c].order] /\ stmt[c].rows = {o}
    BY <1>0, <2>1 DEF ToVisit, TypeOK
  <2>3. Held(c)'
    BY <1>0, <2>1, <2>2 DEF Held
  <2>4. ToVisit(c)'
    BY <2>1, <2>2 DEF ToVisit
  <2>5. LimitFirst(c)'
    BY <1>0, <2>1 DEF LimitFirst, Settled
  <2> QED BY <1>0, <2>1, <2>3, <2>4, <2>5 DEF ReqOK
<1>5. ASSUME NEW o \in Orders, ViewCancel(c, o) PROVE ReqOK(c)'
  <2>1. PICK t, ps :
          /\ t \in Orders
          /\ t = IF Swaps(o) THEN Pair[o] ELSE o
          /\ ps = IF Swaps(o) THEN row[o].status ELSE None
          /\ Begin(c, "view", t, ps, {t}, Statuses) /\ req[c].pc = "idle" /\ row[t].status \in Open
    <3>1. (IF Swaps(o) THEN Pair[o] ELSE o) \in Orders
      BY PairAssumption DEF Swaps
    <3> QED BY <1>5, <3>1 DEF ViewCancel
  <2>3. /\ stmt'[c].rows = {t} /\ req'[c].pc = "update" /\ req'[c].kind = "view"
        /\ req'[c].order = t /\ req'[c].pairStatus = ps
        /\ UNCHANGED <<row, lock>>
    <3>1. UNCHANGED <<row, lock>>
      BY <2>1 DEF Begin
    <3> QED BY <1>0, <2>1, <3>1, BeginEffect
  <2>4. \A x \in Orders : lock[x] # c
    BY <1>0, <2>1 DEF Held
  <2>5. Held(c)' /\ ToVisit(c)'
    BY <2>1, <2>3, <2>4 DEF Held, ToVisit
  <2>6. ASSUME Pair[t] # None, Exec[t] # "limit" PROVE ps = None /\ Settled(Pair[t])
    <3>1. ~ Swaps(o)
      <4>1. ASSUME Swaps(o) PROVE Exec[Pair[o]] = "limit"
        BY <1>0, <4>1, PairFacts DEF Swaps, PairStatuses
      <4> QED BY <2>1, <2>6, <4>1
    <3>2. Exec[o] \in StopExecs /\ Pair[o] \in Orders
      BY <2>1, <2>6, <3>1, PairFacts
    <3>3. CASE row[o].status = "active"
      BY <1>0, <2>1, <2>6, <3>1, <3>2, <3>3 DEF PairStatuses, Settled
    <3>4. CASE row[o].status = "inactive"
      <4>1. row[Pair[o]].matched # 0 /\ row[Pair[o]].matched \in Nat
        BY <1>0, <2>1, <2>6, <3>1, <3>2, <3>4 DEF Swaps, TypeOK, Rows
      <4> QED BY <2>1, <3>1, <4>1 DEF Settled
    <3> QED BY <2>1, <3>1, <3>3, <3>4 DEF Open
  <2>7. LimitFirst(c)'
    BY <2>3, <2>6 DEF LimitFirst, Settled
  <2> QED BY <2>3, <2>5, <2>7 DEF ReqOK
<1>6. ASSUME NEW o \in Orders, TaskCancel(c, o) PROVE ReqOK(c)'
  <2>1. /\ stmt'[c].rows = {o} /\ req'[c].pc = "update" /\ req'[c].kind = "task"
        /\ req'[c].order = o /\ lock' = lock /\ req[c].pc = "idle"
    <3>1. Begin(c, "task", o, None, {o}, Statuses) /\ req[c].pc = "idle"
      BY <1>6 DEF TaskCancel
    <3>2. lock' = lock
      BY <3>1 DEF Begin
    <3> QED BY <1>0, <3>1, <3>2, BeginEffect
  <2>2. \A x \in Orders : lock[x] # c
    BY <1>0, <2>1 DEF Held
  <2>3. Held(c)' /\ ToVisit(c)'
    BY <2>1, <2>2 DEF Held, ToVisit
  <2> QED BY <2>1, <2>3 DEF ReqOK, LimitFirst
<1>7. ASSUME CancelPair(c) PROVE ReqOK(c)'
  <2> DEFINE t == req[c].order
  <2>1. /\ req[c].pc = "update" /\ t \in Orders /\ Pair[t] \in Orders
        /\ req'[c].pc = "pair" /\ req'[c].kind = req[c].kind /\ req'[c].order = t
        /\ stmt'[c].rows = {Pair[t]}
    <3>1. stmt'[c] = Update({Pair[t]}, "canceled", Statuses)
      BY <1>0, <1>7, CancelPairEffect
    <3> QED BY <1>0, <1>7, <3>1, CancelPairEffect DEF Update
  <2>2. Pair[t] # None /\ Pair[t] # t
    BY <1>7, <2>1, PairFacts DEF CancelPair, PairFollows
  <2>3. \A x \in Orders : lock[x] = c => x = t
    BY <1>0, <2>1 DEF Held
  <2>4. \A x \in Orders : lock'[x] = c => x = t /\ req[c].kind = "view"
    <3>1. CASE req[c].kind = "task"
      <4>1. CommitStatuses(c)
        BY <1>7, <3>1 DEF CancelPair
      <4> QED BY <1>0, <4>1, CommitEffect
    <3>2. CASE req[c].kind # "task"
      <4>1. lock' = lock /\ req[c].kind = "view"
        BY <1>7, <3>2 DEF CancelPair, PairFollows
      <4> QED BY <2>3, <4>1
    <3> QED BY <3>1, <3>2
  <2>5. Held(c)' /\ ToVisit(c)'
    BY <2>1, <2>2, <2>4 DEF Held, ToVisit
  <2>6. req[c].kind = "view" => Exec[t] = "limit"
    <3> SUFFICES ASSUME req[c].kind = "view", Exec[t] # "limit" PROVE FALSE
      OBVIOUS
    <3>1. req[c].pairStatus = None /\ Settled(Pair[t])
      BY <1>0, <2>1, <2>2 DEF LimitFirst
    <3>2. row[Pair[t]].matched = 0 /\ Seen(c, Pair[t]) \in Open
      BY <1>7, <3>1 DEF CancelPair, PairFollows
    <3>3. written[c][Pair[t]] \in {None, "canceled"}
      BY <1>0, <2>1 DEF RequestWrites
    <3> QED BY <3>1, <3>2, <3>3 DEF Settled, Seen, Open, Closed
  <2>7. LimitFirst(c)'
    BY <2>1, <2>6 DEF LimitFirst
  <2> QED BY <1>0, <2>1, <2>5, <2>7 DEF ReqOK
<1>8. ASSUME CancelDone(c) \/ CancelFails(c) PROVE ReqOK(c)'
  <2>1. req'[c].pc = "idle" /\ req'[c].kind = "view"
    BY <1>0, <1>8, EndEffect DEF NoReq
  <2>2. \A x \in Orders : lock'[x] # c
    <3>1. CommitStatuses(c) \/ Rollback(c)
      BY <1>8 DEF CancelDone, CancelFails
    <3> QED BY <1>0, <3>1, CommitEffect, RollbackEffect
  <2>3. stmt'[c].rows = {}
    <3>1. CASE CancelDone(c)
      BY <3>1 DEF CancelDone, Finished
    <3>2. CASE CancelFails(c)
      <4>1. stmt'[c] = NoStmt
        BY <1>0, <3>2, RollbackEffect DEF CancelFails
      <4> QED BY <4>1 DEF NoStmt
    <3> QED BY <1>8, <3>1, <3>2
  <2> QED BY <2>1, <2>2, <2>3 DEF ReqOK, Held, ToVisit, LimitFirst
<1>9. ASSUME NEW ids \in SUBSET Orders, BatchCancel(c, ids) PROVE FALSE
  BY <1>9 DEF BatchCancel
<1> QED BY <1>3, <1>4, <1>5, <1>6, <1>7, <1>8, <1>9 DEF RequestActs

LEMMA ExactStep ==
  ASSUME BatchRequests = {} PROVE ExactInv /\ [Next]_vars => ExactInv'
<1> SUFFICES ASSUME ExactInv, [Next]_vars, NEW o \in Orders PROVE Exact(o)'
  BY PairStep, ReqStep DEF ExactInv, ReqInv
<1>0. StatusInv /\ LockInv /\ TypeOK /\ Exact(o) /\ CountedOf(o)
  <2>1. CountedAll
    BY CountedFacts DEF ExactInv, PairInv, CoverInv, StatusInv, LockInv
  <2> QED BY <2>1 DEF ExactInv, PairInv, CoverInv, StatusInv, LockInv, Shape, CountedAll
<1>1. ~ TradeFails
  BY HolderRuns DEF ExactInv, TradeNeverDeadlocks, TradeFails
<1>2. row[o].matched \in Nat /\ traded[o] \in Nat /\ newTraded[o] \in Nat
  BY <1>0 DEF TypeOK, Rows
<1>3. row'[o].matched = traded'[o]
  <2>1. CASE row'[o].matched = row[o].matched /\ traded'[o] = traded[o]
    BY <1>0, <2>1 DEF Exact
  <2>2. CASE /\ mpc = "save" /\ o \in book
             /\ row'[o].matched = mem[o].matched /\ traded'[o] = traded[o] + newTraded[o]
    <3>1. Counted(o) = 0
      BY <1>0, <2>2 DEF CountedOf, Trading
    <3> QED BY <1>0, <1>2, <2>2, <3>1 DEF Exact, Booked, InRound
  <2> QED BY <1>0, <2>1, <2>2, RowTraded
<1>4. ASSUME mpc' \in InRound, o \in book' PROVE mem'[o].matched = Booked(o)'
  <2>1. CASE mpc \in InRound
    <3>1. /\ book' = book
          /\ mem[o].matched \in Nat /\ Booked(o) \in Nat /\ mem'[o].matched \in Nat /\ Booked(o)' \in Nat
          /\ mem'[o].matched - Booked(o)' = mem[o].matched - Booked(o)
      BY <1>0, <1>1, <1>4, <2>1, BookedStep
    <3>2. mem[o].matched = Booked(o)
      BY <1>0, <1>4, <2>1, <3>1 DEF Exact
    <3> QED BY <3>1, <3>2
  <2>2. CASE mpc \notin InRound
    BY <1>0, <1>2, <1>4, <2>2, RoundBegins DEF Exact
  <2> QED BY <2>1, <2>2
<1> QED BY <1>3, <1>4 DEF Exact

LEMMA ExactInit == Init => ExactInv
<1> SUFFICES ASSUME Init PROVE ReqInv /\ \A o \in Orders : Exact(o)
  BY PairInit DEF ExactInv
<1>1. \A o \in Orders : Exact(o)
  BY DEF Init, Exact, NoRow, InRound, Matching
<1>2. ReqInv
  BY ProcsAssumption DEF Init, ReqInv, ReqOK, Held, ToVisit, LimitFirst, NoReq, NoWrites, NoStmt, Procs
<1> QED BY <1>1, <1>2

\* When requests cancel one order or one pair at a time, the pair cancel inside a
\* trade never waits on a cycle, however many requests there are.
THEOREM TradeProgress ==
  ASSUME BatchRequests = {} PROVE Spec => []TradeNeverDeadlocks
<1>1. ExactInv => TradeNeverDeadlocks
  BY HolderRuns DEF ExactInv
<1>2. ExactInv /\ [Next]_vars => ExactInv'
  BY ExactStep
<1> QED BY ExactInit, <1>1, <1>2, PTL DEF Spec

\* Then no trade fails inside its savepoint, and the matched amount of an order is
\* exactly the total of its trades.
THEOREM MatchedExact ==
  ASSUME BatchRequests = {} PROVE Spec => []MatchedEqualsTraded
<1>1. ExactInv => MatchedEqualsTraded
  BY DEF ExactInv, Exact, MatchedEqualsTraded
<1>2. ExactInv /\ [Next]_vars => ExactInv'
  BY ExactStep
<1> QED BY ExactInit, <1>1, <1>2, PTL DEF Spec

-----------------------------------------------------------------------------
(* One cancels the other *)

\* Once an order of a pair has matched, the other one has not and is closed for good.
SoldOnce ==
  \A o \in Orders : Pair[o] # None /\ row[o].matched > 0 =>
    /\ row[Pair[o]].status \in Closed /\ Pair[o] \notin act
    /\ row[Pair[o]].matched = 0

\* A round that has matched an order has loaded its pair, and has closed it or is
\* about to.
PairSettled ==
  mpc \in InRound => \A o \in Orders :
    /\ pairObj[o] # None =>
         /\ o \in book /\ Pair[o] # None
         /\ \/ Seen(Matcher, Pair[o]) \in Closed
            \/ mpc = "pair" /\ o = CurOrder /\ Pair[o] \in stmt[Matcher].rows
    /\ o \in book /\ Pair[o] # None /\ mem[o].matched # row[o].matched => pairObj[o] # None

\* The cancel of a pair is blind.
PairCheck == mpc = "pair" => stmt[Matcher].check = Statuses

OcoInv == ExactInv /\ SoldOnce /\ PairSettled /\ PairCheck

\* The two orders of a pair are never in one round.
LEMMA NotBoth ==
  ASSUME PairInv, NEW o \in book, Pair[o] # None
  PROVE  o \in Orders /\ Pair[o] \in Orders /\ Pair[o] \notin book /\ row[Pair[o]].status # "absent"
<1>0. PairStatuses /\ RoundReadsCurrent /\ TypeOK /\ PairsAppear
  BY DEF PairInv, CoverInv, StatusInv, LockInv, Shape
<1>1. o \in Orders /\ row[o].status = "active"
  BY <1>0 DEF RoundReadsCurrent, TypeOK
<1>2. Pair[o] \in Orders /\ Pair[Pair[o]] = o /\ (Exec[o] \in StopExecs \/ Exec[Pair[o]] \in StopExecs)
  BY <1>1, PairFacts
<1>3. Pair[o] \notin book
  <2> SUFFICES ASSUME Pair[o] \in book PROVE FALSE
    OBVIOUS
  <2>1. row[Pair[o]].status = "active"
    BY <1>0 DEF RoundReadsCurrent
  <2>2. Pair[Pair[o]] # None
    BY <1>1, <1>2, OrdersAssumption
  <2> QED BY <1>0, <1>1, <1>2, <2>1, <2>2 DEF PairStatuses, Closed
<1> QED BY <1>0, <1>1, <1>2, <1>3 DEF PairsAppear

LEMMA SoldOnceStep ==
  ASSUME BatchRequests = {}, OcoInv, [Next]_vars PROVE SoldOnce'
<1> SUFFICES ASSUME NEW o \in Orders, Pair[o] # None, row'[o].matched > 0
             PROVE  /\ row'[Pair[o]].status \in Closed /\ Pair[o] \notin act'
                    /\ row'[Pair[o]].matched = 0
  BY DEF SoldOnce
<1>0. /\ PairInv /\ StatusInv /\ LockInv /\ TypeOK /\ RoundLists /\ RoundReadsCurrent /\ SoldOnce /\ PairSettled
  BY DEF OcoInv, ExactInv, PairInv, CoverInv, StatusInv, LockInv, Shape
<1>1. PICK p \in Orders : p = Pair[o] /\ Pair[p] = o
  BY PairFacts
<1>2. p \notin book => row'[p].matched = row[p].matched
  BY <1>0, RowTraded
<1>3. CASE row[o].matched > 0
  <2>1. row[p].status \in Closed /\ p \notin act /\ row[p].matched = 0
    BY <1>0, <1>1, <1>3 DEF SoldOnce
  <2>2. p \notin book /\ p \notin pending
    BY <1>0, <2>1 DEF RoundReadsCurrent, RoundLists, Closed
  <2>3. row'[p].status \in Closed
    BY <1>0, <2>1, <2>2, RowStep DEF Same, Created, CanceledBy, Activated, SavedByRound, Closed
  <2>4. p \notin act'
    BY <2>1, ActGrows DEF Closed
  <2> QED BY <1>1, <1>2, <2>1, <2>2, <2>3, <2>4
<1>4. CASE ~ (row[o].matched > 0)
  <2>1. /\ CommitRound /\ mpc = "save" /\ o \in book /\ row'[o].matched = mem[o].matched
    BY <1>0, <1>4, RowTraded
  <2>2. pairObj[o] # None
    BY <1>0, <1>4, <2>1 DEF PairSettled, InRound
  <2>3. Seen(Matcher, p) \in Closed
    BY <1>0, <1>1, <2>1, <2>2 DEF PairSettled, InRound
  <2>4. row'[p].status = Seen(Matcher, p)
    BY <1>0, <2>1, CommitRoundEffect
  <2>5. p \notin book
    BY <1>0, <1>1, <2>1, NotBoth
  <2>6. act' = {}
    BY <1>0, <2>1 DEF CommitRound, RoundLists, Stopping
  <2>7. row[p].matched = 0
    <3>1. row[o].status = "active" /\ row[p].matched \in Nat
      BY <1>0, <2>1 DEF RoundReadsCurrent, TypeOK, Rows
    <3>2. Pair[p] # None
      BY <1>1, OrdersAssumption
    <3> QED BY <1>0, <1>1, <3>1, <3>2 DEF SoldOnce, Closed
  <2> QED BY <1>1, <1>2, <2>3, <2>4, <2>5, <2>6, <2>7
<1> QED BY <1>3, <1>4

\* A round writes only rows of its book, except to cancel.
LEMMA RoundCancels ==
  ASSUME LockInv, [Next]_vars, mpc \in InRound, mpc' \in InRound, ~ TradeFails,
         NEW o \in Orders, o \notin book
  PROVE  written'[Matcher][o] \in {written[Matcher][o], "canceled"}
<1> USE DEF db, txs, round
<1>0. /\ Shape /\ TypeOK /\ MatcherStmt /\ RoundLists /\ Matcher \in Procs /\ Requests \subseteq Procs
      /\ \A c \in Requests : c # Matcher
  BY ProcsAssumption DEF LockInv, Shape, Procs
<1>1. CASE UNCHANGED written
  BY <1>1
<1>2. ASSUME NEW p \in Procs, NEW x \in Orders, UpdateRow(p, x)
      PROVE  written'[Matcher][o] \in {written[Matcher][o], "canceled"}
  <2>1. p = Matcher /\ x \in stmt[Matcher].rows => stmt[Matcher].set = "canceled"
    BY <1>0 DEF MatcherStmt, InRound, Matching
  <2> QED BY <1>0, <1>2, <2>1, UpdateRowWrites
<1>3. ASSUME NEW expired \in SUBSET System, SaveRound(expired)
      PROVE  written'[Matcher][o] \in {written[Matcher][o], "canceled"}
  <2>1. o \notin pending \cup cancels \cup expired
    BY <1>0, <1>3 DEF RoundLists, SaveRound
  <2> QED BY <1>0, <1>3, <2>1, SaveRoundWrites
<1>4. ASSUME NEW c \in Requests, CommitStatuses(c) \/ Rollback(c)
      PROVE  written'[Matcher][o] \in {written[Matcher][o], "canceled"}
  BY <1>0, <1>4, CommitEffect, RollbackEffect
<1>5. CASE UNCHANGED vars
  BY <1>1, <1>5 DEF vars
<1>6. CASE \E c \in Requests : CancelPair(c) \/ CancelDone(c) \/ CancelFails(c)
  BY <1>1, <1>4, <1>6 DEF CancelPair, CancelDone, CancelFails
<1>7. CASE \E c \in Requests : (\E x \in Orders : ViewCancel(c, x) \/ TaskCancel(c, x))
                               \/ (\E ids \in SUBSET Orders : BatchCancel(c, ids))
  BY <1>1, <1>7 DEF ViewCancel, TaskCancel, BatchCancel, Begin
<1>8. CASE (\E x \in Orders : CreateOrder(x) \/ CancelInMemory(x)) \/ StartRound \/ PairCanceled
           \/ IncreaseOrderMatchedAmount
           \/ (\E s, b \in Orders : \E a \in 1..Amount[s] : MatchTwoOrders(s, b, a))
           \/ CancelOcoOrderPair \/ (\E reached \in SUBSET Orders : ActivateStopOrders(reached))
  BY <1>1, <1>8 DEF CreateOrder, CancelInMemory, StartRound, PairCanceled,
     IncreaseOrderMatchedAmount, MatchTwoOrders, CancelOcoOrderPair, ActivateStopOrders
<1>9. CASE RoundFails \/ StopsFail \/ CommitStops \/ CommitRound
  BY <1>9 DEF RoundFails, StopsFail, CommitStops, CommitRound, InRound, Matching
<1> QED BY <1>2, <1>3, <1>5, <1>6, <1>7, <1>8, <1>9 DEF Next, MatcherStep, RequestStep

\* What a round reads as closed stays closed for it.
LEMMA SeenClosedStays ==
  ASSUME LockInv, [Next]_vars, mpc \in InRound, mpc' \in InRound, ~ TradeFails,
         NEW o \in Orders, o \notin book, Seen(Matcher, o) \in Closed
  PROVE  Seen(Matcher, o)' \in Closed
<1>0. RoundLists /\ None \notin Statuses
  BY NoneAssumption DEF LockInv, Shape, RowStatuses
<1>1. written'[Matcher][o] \in {written[Matcher][o], "canceled"}
  BY RoundCancels
<1>2. CASE written'[Matcher][o] = "canceled"
  BY <1>0, <1>2 DEF Seen, Closed, Statuses
<1>3. CASE written'[Matcher][o] = written[Matcher][o] /\ written[Matcher][o] # None
  BY <1>3 DEF Seen
<1>4. CASE written'[Matcher][o] = written[Matcher][o] /\ written[Matcher][o] = None
  <2>1. row[o].status \in Closed
    BY <1>4 DEF Seen
  <2>2. ~ Activated(o) /\ ~ SavedByRound(o) /\ ~ Created(o)
    BY <1>0, <2>1 DEF Activated, SavedByRound, Created, RoundLists, InRound, Matching, Closed
  <2>3. row'[o].status \in Closed
    BY <2>1, <2>2, RowStep DEF Same, CanceledBy, Closed
  <2> QED BY <1>4, <2>3 DEF Seen
<1> QED BY <1>1, <1>2, <1>3, <1>4

\* A step of a running round other than an increase keeps the objects; while a
\* trade waits for a pair, only its statement moves.
LEMMA RoundKeeps ==
  ASSUME LockInv, [Next]_vars, mpc \in InRound, mpc' \in InRound,
         ~ TradeFails, ~ IncreaseOrderMatchedAmount
  PROVE  /\ pairObj' = pairObj
         /\ mpc = "pair" => \/ PairCanceled
                            \/ /\ mpc' = "pair" /\ cur' = cur
                               /\ \/ stmt'[Matcher] = stmt[Matcher]
                                  \/ \E p \in Procs, o \in Orders : UpdateRow(p, o)
         /\ mpc # "pair" => mpc' # "pair"
         /\ \A x \in Orders : mem'[x].matched = mem[x].matched
<1> USE DEF db, txs, round
<1>0. /\ Shape /\ TypeOK /\ Matcher \in Procs /\ Requests \subseteq Procs
      /\ \A c \in Requests : c # Matcher
  BY ProcsAssumption DEF LockInv, Shape, Procs
<1>1. ASSUME NEW c \in Requests,
             CancelPair(c) \/ CancelDone(c) \/ CancelFails(c)
             \/ (\E o \in Orders : ViewCancel(c, o) \/ TaskCancel(c, o))
             \/ (\E ids \in SUBSET Orders : BatchCancel(c, ids))
      PROVE  stmt'[Matcher] = stmt[Matcher] /\ UNCHANGED <<mpc, cur, pairObj, mem>>
  <2>1. CASE CancelPair(c)
    BY <1>0, <2>1, CancelPairEffect DEF CancelPair
  <2>2. CASE CancelDone(c)
    BY <2>2 DEF CancelDone
  <2>3. CASE CancelFails(c)
    BY <1>0, <2>3, RollbackEffect DEF CancelFails
  <2>4. CASE (\E o \in Orders : ViewCancel(c, o) \/ TaskCancel(c, o))
             \/ (\E ids \in SUBSET Orders : BatchCancel(c, ids))
    BY <1>0, <2>4 DEF ViewCancel, TaskCancel, BatchCancel, Begin, TypeOK
  <2> QED BY <1>1, <2>1, <2>2, <2>3, <2>4
<1>2. CASE UNCHANGED vars
  BY <1>2 DEF vars
<1>3. CASE \E p \in Procs, o \in Orders : UpdateRow(p, o)
  BY <1>3 DEF UpdateRow
<1>4. CASE PairCanceled
  BY <1>4 DEF PairCanceled
<1>5. CASE (\E x \in Orders : CreateOrder(x)) \/ StartRound
           \/ (\E s, b \in Orders : \E a \in 1..Amount[s] : MatchTwoOrders(s, b, a))
           \/ (\E expired \in SUBSET System : SaveRound(expired))
           \/ RoundFails \/ StopsFail \/ CommitStops \/ CommitRound
           \/ CancelOcoOrderPair \/ (\E reached \in SUBSET Orders : ActivateStopOrders(reached))
  <2>1. CASE (\E x \in Orders : CreateOrder(x)) \/ StartRound
    <3>1. CASE \E x \in Orders : CreateOrder(x)
      BY <3>1 DEF CreateOrder
    <3>2. CASE StartRound
      BY <3>2 DEF StartRound, InRound, Matching
    <3> QED BY <2>1, <3>1, <3>2
  <2>2. CASE \E s, b \in Orders : \E a \in 1..Amount[s] : MatchTwoOrders(s, b, a)
    BY <2>2 DEF MatchTwoOrders
  <2>3. CASE \E expired \in SUBSET System : SaveRound(expired)
    BY <2>3 DEF SaveRound
  <2>4. CASE RoundFails \/ StopsFail \/ CommitStops \/ CommitRound
    BY <2>4 DEF RoundFails, StopsFail, CommitStops, CommitRound, InRound, Matching
  <2>5. CASE CancelOcoOrderPair \/ (\E reached \in SUBSET Orders : ActivateStopOrders(reached))
    BY <2>5 DEF CancelOcoOrderPair, ActivateStopOrders, InRound, Matching
  <2> QED BY <1>5, <2>1, <2>2, <2>3, <2>4, <2>5
<1>6. CASE \E x \in Orders : CancelInMemory(x)
  <2>1. PICK x \in Orders : CancelInMemory(x)
    BY <1>6
  <2>2. \A y \in Orders : mem'[y].matched = mem[y].matched
    BY <1>0, <2>1 DEF CancelInMemory, TypeOK, Rows
  <2> QED BY <2>1, <2>2 DEF CancelInMemory
<1> QED BY <1>1, <1>2, <1>3, <1>4, <1>5, <1>6 DEF Next, MatcherStep, RequestStep

LEMMA PairSettledStep ==
  ASSUME BatchRequests = {}, OcoInv, [Next]_vars PROVE PairSettled'
<1>0. /\ ExactInv /\ PairInv /\ StatusInv /\ LockInv /\ Shape /\ TypeOK /\ PairSettled /\ PairCheck
      /\ MatcherStmt /\ Matcher \in Procs /\ None \notin RowStatuses
  BY NoneAssumption DEF OcoInv, ExactInv, PairInv, CoverInv, StatusInv, LockInv, Shape, Procs
<1>1. ~ TradeFails
  BY <1>0, HolderRuns DEF ExactInv, TradeNeverDeadlocks, TradeFails
<1> SUFFICES ASSUME mpc' \in InRound, NEW o \in Orders
    PROVE  /\ pairObj'[o] # None =>
                /\ o \in book' /\ Pair[o] # None
                /\ \/ Seen(Matcher, Pair[o])' \in Closed
                   \/ mpc' = "pair" /\ o = CurOrder' /\ Pair[o] \in stmt'[Matcher].rows
           /\ o \in book' /\ Pair[o] # None /\ mem'[o].matched # row'[o].matched => pairObj'[o] # None
  BY DEF PairSettled
<1>2. CASE mpc \notin InRound
  <2>1. StartRound /\ row' = row
    BY <1>0, <1>2, RoundBegins
  <2> QED BY <2>1 DEF StartRound, NoWrites
<1>3. CASE mpc \in InRound
  <2>0. book' = book /\ row'[o].matched = row[o].matched
    <3>1. row'[o].matched = row[o].matched
      BY <1>0, RowTraded DEF InRound, Matching
    <3> QED BY <1>0, <1>3, <3>1, BookedStep
  <2>1. ASSUME o \in book, Pair[o] # None, Seen(Matcher, Pair[o]) \in Closed
        PROVE  Seen(Matcher, Pair[o])' \in Closed
    <3>1. Pair[o] \in Orders /\ Pair[o] \notin book
      BY <1>0, <2>1, NotBoth
    <3> QED BY <1>0, <1>1, <1>3, <2>1, <3>1, SeenClosedStays
  <2>2. pairObj[o] # None =>
          /\ o \in book /\ Pair[o] # None
          /\ \/ Seen(Matcher, Pair[o]) \in Closed
             \/ mpc = "pair" /\ o = CurOrder /\ Pair[o] \in stmt[Matcher].rows
    BY <1>0, <1>3 DEF PairSettled
  <2>3. o \in book /\ Pair[o] # None /\ mem[o].matched # row[o].matched => pairObj[o] # None
    BY <1>0, <1>3 DEF PairSettled
  <2>4. CASE IncreaseOrderMatchedAmount
    <3>1. mpc = "trade" /\ mpc \in Trading /\ CurOrder \in book /\ CurOrder \in Orders
      BY <1>0, <2>4, IncreaseEffect, CurFacts DEF Trading
    <3>2. CASE o # CurOrder
      <4>1. mem'[o] = mem[o] /\ pairObj'[o] = pairObj[o]
        BY <1>0, <2>4, <3>2, IncreaseEffect
      <4> QED BY <2>0, <2>1, <2>2, <2>3, <3>1, <4>1
    <3>3. CASE o = CurOrder /\ Pair[o] = None
      <4>1. pairObj'[o] = pairObj[o]
        BY <1>0, <2>4, <3>3, IncreaseEffect
      <4> QED BY <2>2, <3>3, <4>1
    <3>4. CASE o = CurOrder /\ Pair[o] # None /\ CancelsPair(o)
      <4>1. pairObj'[o] = "canceled" /\ mpc' = "pair" /\ cur' = cur
            /\ stmt'[Matcher] = Update({Pair[o]}, "canceled", Statuses)
        BY <1>0, <2>4, <3>4, IncreaseEffect
      <4>2. pairObj'[o] # None /\ Pair[o] \in stmt'[Matcher].rows /\ o = CurOrder'
        BY <1>0, <3>4, <4>1 DEF Update, CurOrder, RowStatuses, Statuses, Closed
      <4> QED BY <2>0, <3>1, <3>4, <4>1, <4>2
    <3>5. CASE o = CurOrder /\ Pair[o] # None /\ ~ CancelsPair(o)
      <4>1. pairObj'[o] = PairSeen(o) /\ PairSeen(o) \notin Open
        BY <1>0, <2>4, <3>5, IncreaseEffect DEF CancelsPair
      <4>2. Pair[o] \in Orders /\ Seen(Matcher, Pair[o]) # "absent"
            /\ Seen(Matcher, Pair[o]) \in RowStatuses
        BY <1>0, <3>1, <3>5, NotBoth, SeenFacts
      <4>3. pairObj'[o] # None
        BY <1>0, <4>1, <4>2 DEF PairSeen
      <4>4. Seen(Matcher, Pair[o]) \in Closed
        <5>1. CASE pairObj[o] # None
          BY <2>2, <3>1, <5>1
        <5>2. CASE pairObj[o] = None
          BY <4>1, <4>2, <5>2 DEF PairSeen, RowStatuses, Statuses, Open
        <5> QED BY <5>1, <5>2
      <4> QED BY <2>0, <2>1, <3>1, <3>5, <4>3, <4>4
    <3> QED BY <3>2, <3>3, <3>4, <3>5
  <2>5. CASE ~ IncreaseOrderMatchedAmount
    <3>0. /\ pairObj' = pairObj
          /\ mpc = "pair" => \/ PairCanceled
                             \/ /\ mpc' = "pair" /\ cur' = cur
                                /\ \/ stmt'[Matcher] = stmt[Matcher]
                                   \/ \E p \in Procs, x \in Orders : UpdateRow(p, x)
      BY <1>0, <1>1, <1>3, <2>5, RoundKeeps
    <3>1. mem'[o].matched = mem[o].matched
      BY <1>0, <1>1, <1>3, <2>5, RoundKeeps
    <3>2. ASSUME pairObj[o] # None, mpc = "pair", o = CurOrder, Pair[o] \in stmt[Matcher].rows
          PROVE  \/ Seen(Matcher, Pair[o])' \in Closed
                 \/ mpc' = "pair" /\ o = CurOrder' /\ Pair[o] \in stmt'[Matcher].rows
      <4>1. ~ PairCanceled
        BY <3>2 DEF PairCanceled, Finished
      <4>2. mpc' = "pair" /\ o = CurOrder'
        BY <3>0, <3>2, <4>1 DEF CurOrder
      <4>3. CASE stmt'[Matcher] = stmt[Matcher]
        BY <3>2, <4>2, <4>3
      <4>4. CASE \E p \in Procs, x \in Orders : UpdateRow(p, x)
        <5>1. PICK p \in Procs, x \in Orders : UpdateRow(p, x)
          BY <4>4
        <5>2. CASE p # Matcher \/ x # Pair[o]
          <6>1. Pair[o] \in stmt'[Matcher].rows
            BY ZenonT(30), <1>0, <3>2, <5>1, <5>2, UpdateRowStmt
          <6> QED BY <4>2, <6>1
        <5>3. CASE p = Matcher /\ x = Pair[o]
          <6>1. Seen(Matcher, x) \in Statuses
            <7>1. row[x].status # "absent"
              BY <1>0, <2>2, <3>2, <5>3, NotBoth
            <7> QED BY <1>0, <7>1, SeenFacts DEF RowStatuses
          <6>2. written'[Matcher][x] = "canceled"
            <7>1. stmt[Matcher].check = Statuses /\ stmt[Matcher].set = "canceled"
              BY <1>0, <3>2 DEF PairCheck, MatcherStmt
            <7> QED BY <1>0, <5>1, <5>3, <6>1, <7>1, UpdateRowWrites
          <6> QED BY <1>0, <5>3, <6>2 DEF Seen, RowStatuses, Statuses, Closed
        <5> QED BY <5>2, <5>3
      <4> QED BY <3>0, <3>2, <4>1, <4>3, <4>4
    <3> QED BY <2>0, <2>1, <2>2, <2>3, <3>0, <3>1, <3>2
  <2> QED BY <2>4, <2>5
<1> QED BY <1>2, <1>3

LEMMA PairCheckStep ==
  ASSUME OcoInv, [Next]_vars PROVE PairCheck'
<1>0. /\ LockInv /\ Shape /\ TypeOK /\ PairCheck /\ Matcher \in Procs
  BY DEF OcoInv, ExactInv, PairInv, CoverInv, StatusInv, LockInv, Shape, Procs
<1> SUFFICES ASSUME mpc' = "pair" PROVE stmt'[Matcher].check = Statuses
  BY DEF PairCheck
<1>1. CASE IncreaseOrderMatchedAmount
  <2>1. CASE stmt'[Matcher] = Update({Pair[CurOrder]}, "canceled", Statuses)
    BY <2>1 DEF Update
  <2>2. CASE NextSide
    BY <2>2 DEF NextSide
  <2> QED BY <1>0, <1>1, <2>1, <2>2, IncreaseEffect
<1>2. CASE TradeFails
  BY <1>2 DEF TradeFails
<1>3. CASE ~ IncreaseOrderMatchedAmount /\ ~ TradeFails
  <2>1. mpc \in InRound
    <3> SUFFICES ASSUME mpc \notin InRound PROVE FALSE
      OBVIOUS
    <3>1. ASSUME NEW x \in Orders PROVE StartRound
      BY <1>0, RoundBegins DEF InRound, Matching
    <3>2. UNCHANGED mpc \/ StartRound
      BY <1>3 DEF Next, MatcherStep, RequestStep, CreateOrder, CancelInMemory, UpdateRow, StartRound,
         PairCanceled, TradeFails, MatchTwoOrders, SaveRound, CommitRound,
         RoundFails, CancelOcoOrderPair, CommitStops, StopsFail, ActivateStopOrders, ViewCancel,
         TaskCancel, BatchCancel, Begin, CancelPair, CancelDone, CancelFails, vars, InRound, Matching
    <3> QED BY <3>2 DEF StartRound, InRound, Matching
  <2>2. mpc' \in InRound
    BY DEF InRound, Matching
  <2>3. mpc = "pair"
    BY <1>0, <1>3, <2>1, <2>2, RoundKeeps
  <2>4. PairCanceled => mpc' # "pair"
    BY DEF PairCanceled, NextSide
  <2>5. stmt'[Matcher] = stmt[Matcher] \/ \E p \in Procs, x \in Orders : UpdateRow(p, x)
    BY <1>0, <1>3, <2>1, <2>2, <2>3, <2>4, RoundKeeps
  <2>6. stmt'[Matcher].check = stmt[Matcher].check
    BY <1>0, <2>5, UpdateRowStmt
  <2> QED BY <1>0, <2>3, <2>6 DEF PairCheck
<1> QED BY <1>1, <1>2, <1>3

LEMMA OcoInit == Init => OcoInv
<1> SUFFICES ASSUME Init PROVE SoldOnce /\ PairSettled /\ PairCheck
  BY ExactInit DEF OcoInv
<1>1. SoldOnce
  BY DEF Init, SoldOnce, NoRow
<1>2. PairSettled /\ PairCheck
  BY DEF Init, PairSettled, PairCheck, InRound, Matching
<1> QED BY <1>1, <1>2

\* One cancels the other: when requests cancel one order or one pair at a time,
\* the two orders of an OCO pair never both trade, whatever the interleaving of
\* trades, activations, manual cancels and the admin task.
THEOREM OcoCorrect ==
  ASSUME BatchRequests = {} PROVE Spec => []OcoExclusive
<1>1. OcoInv => OcoExclusive
  <2> SUFFICES ASSUME OcoInv, NEW o \in Orders, Pair[o] # None, traded[o] > 0, traded[Pair[o]] > 0
               PROVE  FALSE
    BY DEF OcoExclusive
  <2>1. Pair[o] \in Orders
    BY PairFacts
  <2>2. row[o].matched = traded[o] /\ row[Pair[o]].matched = traded[Pair[o]]
    BY <2>1 DEF OcoInv, ExactInv, Exact
  <2> QED BY <2>2 DEF OcoInv, SoldOnce
<1>2. OcoInv /\ [Next]_vars => OcoInv'
  BY ExactStep, SoldOnceStep, PairSettledStep, PairCheckStep DEF OcoInv
<1> QED BY OcoInit, <1>1, <1>2, PTL DEF Spec
=============================================================================
