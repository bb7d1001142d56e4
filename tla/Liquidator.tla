----------------------------- MODULE Liquidator -----------------------------
(***************************************************************************)
(* The liquidator sells what margin positions and other services hand over *)
(* in LiquidationRequests.  Celery tasks split a request into Liquidations *)
(* (LiquidationCreator), place an order for each in the own market or at   *)
(* an external broker (OrderCreator), follow the orders (Internal- and     *)
(* ExternalLiquidationProcessor), book what was executed to the request    *)
(* (LiquidationRequestProcessor) and pay the requester for what the broker *)
(* executed; a cron deletes liquidations that never got an order.          *)
(*                                                                         *)
(* A task is one transaction that locks the rows it changes, so it is one  *)
(* step, except for the two that decide with a subquery whether a request  *)
(* has active liquidations left and commit later.  Amounts are whole units *)
(* and the price is one; caps in money vary with the price and are         *)
(* therefore chosen anew in every round.  Every request is a sell.         *)
(***************************************************************************)
EXTENDS Integers, FiniteSets, SetSums

CONSTANTS Requests,
          Amount,    \* amount of every request
          MaxLiq,    \* bound on liquidations
          MaxQueued, \* bound on queued update tasks of one liquidation
          MaxFaults, \* bound on workers killed at a bad moment
          None

ASSUME LiquidatorBounds ==
  /\ IsFiniteSet(Requests) /\ None \notin Requests
  /\ Amount \in Nat \ {0} /\ MaxLiq \in Nat \ {0} /\ MaxQueued \in Nat
  /\ MaxFaults \in Nat

VARIABLES
  rstat,    \* status of the request rows
  rfilled,  \* their filled_amount
  liq,      \* liquidation rows
  creating, \* queued tasks that create an order: <<liquidation, market type>>
  updates,  \* updates[l]: queued task_update_status_external_liquidation
  order,    \* order[l]: the order in the own market
  broker,   \* broker[l]: the order at the broker
  sla,      \* liquidations whose SLA_TIME is over
  share,    \* the running update_in_progress_liquidation_request
  del,      \* the running DeleteEmptyLiquidation
  maker,    \* maker[l]: the market maker's transactions for l, 0 if none
  credit,   \* credit[r]: the requester's transactions for r, 0 if none
  faults,
  overlapped \* history: requests a share and a delete worked on at once

requests == <<rstat, rfilled>>
orders == <<order, broker>>
queues == <<creating, updates>>
running == <<share, del, overlapped>>
ledger == <<maker, credit>>
vars == <<requests, liq, queues, orders, sla, running, ledger, faults>>

Ids == 1..MaxLiq
NoLiquidation == [st |-> "none", req |-> None, amount |-> 0, ext |-> FALSE,
                  filled |-> 0, paid |-> 0]
NoOrder == [st |-> "none", fill |-> 0]
NewOrder == [st |-> "open", fill |-> 0]
Nothing == [ids |-> {}, pending |-> {}]

ActiveStatuses == {"new", "open", "ready_to_share"}
Of(r) == {l \in Ids : liq[l].req = r}
ActiveOf(r) == {l \in Of(r) : liq[l].st \in ActiveStatuses}
Unshared(l) == liq[l].filled - liq[l].paid
Unfilled(r) == Amount - rfilled[r]
RequestsOf(ids) == {liq[l].req : l \in ids}

-----------------------------------------------------------------------------
(* LiquidationCreator *)

\* _split_amount_if_needed
Pieces(amount, max) == (amount + max - 1) \div max

\* Mutant of Piece: the last piece is not cut
PieceUncut(amount, max, i) == max

Piece(amount, max, i) == IF i < Pieces(amount, max) THEN max
                         ELSE amount - (i - 1) * max

\* execute for one pending request: MAX_IN_MARKET_ORDER leaves it some amount,
\* MAX_ORDER splits that.  The tasks are fired after the commit, for the market
\* the broker's status suggests, unless the worker is killed in between.
CreateLiquidations(r) ==
  /\ rstat[r] = "pending"
  /\ \E amount \in 1..Unfilled(r), max \in 1..Amount :
       LET used == Cardinality({l \in Ids : liq[l].st # "none"})
           n == Pieces(amount, max)
           new == (used + 1)..(used + n)
       IN /\ used + n <= MaxLiq
          /\ liq' = [l \in Ids |->
                       IF l \in new
                       THEN [NoLiquidation EXCEPT !.st = "new", !.req = r,
                               !.amount = Piece(amount, max, l - used)]
                       ELSE liq[l]]
          /\ \/ /\ \E type \in {"internal", "external"} :
                     creating' = creating \cup (new \X {type})
                /\ UNCHANGED faults
             \/ /\ faults < MaxFaults /\ faults' = faults + 1
                /\ UNCHANGED creating
  /\ rstat' = [rstat EXCEPT ![r] = "in_progress"]
  /\ UNCHANGED <<rfilled, updates, orders, sla, running, ledger>>

-----------------------------------------------------------------------------
(* OrderCreator.process *)

\* The task locks a liquidation that is new; otherwise it ends.
TakesTask(l, type) ==
  /\ <<l, type>> \in creating
  /\ creating' = creating \ {<<l, type>>}

TaskFindsNothing(l, type) ==
  /\ TakesTask(l, type)
  /\ liq[l].st # "new" \/ l \in del.ids
  /\ UNCHANGED <<requests, liq, updates, orders, sla, running, ledger, faults>>

Creates(l, type) == TakesTask(l, type) /\ liq[l].st = "new" /\ l \notin del.ids

\* InternalOrderCreator.create_order, also for a broker that answers 4XX and for
\* amounts below EXTERNAL_ORDER_USDT_VALUE_THRESHOLD
CreateInternalOrder(l, type) ==
  /\ Creates(l, type)
  /\ order' = [order EXCEPT ![l] = NewOrder]
  /\ liq' = [liq EXCEPT ![l].st = "open", ![l].ext = FALSE]
  /\ UNCHANGED <<requests, updates, broker, sla, running, ledger, faults>>

AcceptedByBroker(l) ==
  /\ broker' = [broker EXCEPT ![l] = NewOrder]
  /\ UNCHANGED order

\* ExternalOrderCreator.create_order: an error that is not a 4XX leaves it open
\* whether the broker has the order.
CreateExternalOrder(l) ==
  /\ Creates(l, "external")
  /\ AcceptedByBroker(l) \/ UNCHANGED orders
  /\ liq' = [liq EXCEPT ![l].st = "open", ![l].ext = TRUE]
  /\ UNCHANGED <<requests, updates, sla, running, ledger, faults>>

\* No price or too little balance; or the worker is killed before the commit,
\* perhaps when the broker has the order already.
OrderNotCreated(l, type) ==
  /\ Creates(l, type)
  /\ \/ UNCHANGED <<orders, faults>>
     \/ /\ type = "external" /\ faults < MaxFaults /\ faults' = faults + 1
        /\ AcceptedByBroker(l)
  /\ UNCHANGED <<requests, liq, updates, sla, running, ledger>>

-----------------------------------------------------------------------------
(* The markets *)

Fill(o, amount) == [st |-> IF o.fill + 1 = amount THEN "closed" ELSE "open",
                    fill |-> o.fill + 1]

\* The matcher trades a part of the order.
OrderMatched(l) ==
  /\ order[l].st = "open"
  /\ order' = [order EXCEPT ![l] = Fill(@, liq[l].amount)]
  /\ UNCHANGED <<requests, liq, queues, broker, sla, running, ledger, faults>>

\* The broker executes a part, or gives up when the ttl of the order is over.
BrokerWorks(l) ==
  /\ broker[l].st = "open"
  /\ \/ broker' = [broker EXCEPT ![l] = Fill(@, liq[l].amount)]
     \/ broker' = [broker EXCEPT ![l].st = "closed"]
  /\ UNCHANGED <<requests, liq, queues, order, sla, running, ledger, faults>>

SlaPasses(l) ==
  /\ liq[l].st = "open" /\ liq[l].ext /\ l \notin sla
  /\ sla' = sla \cup {l}
  /\ UNCHANGED <<requests, liq, queues, orders, running, ledger, faults>>

-----------------------------------------------------------------------------
(* InternalLiquidationProcessor, ExternalLiquidationProcessor *)

\* process_liquidation_orders: orders that are closed, and those older than
\* MARGIN_SYSTEM_ORDERS_MAX_AGE, which are canceled
ProcessLiquidationOrders ==
  \E old \in SUBSET {l \in Ids : order[l].st = "open"} :
    LET ids == {l \in Ids : /\ liq[l].st = "open" /\ ~ liq[l].ext
                            /\ order[l].st = "closed" \/ l \in old}
    IN /\ ids # {}
       /\ order' = [l \in Ids |-> IF l \in ids THEN [order[l] EXCEPT !.st = "closed"]
                                  ELSE order[l]]
       /\ liq' = [l \in Ids |-> IF l \in ids
                                THEN [liq[l] EXCEPT !.st = "ready_to_share",
                                                    !.filled = order[l].fill]
                                ELSE liq[l]]
       /\ UNCHANGED <<requests, queues, broker, sla, running, ledger, faults>>

\* task_check_status_external_liquidation
CheckExternal ==
  LET ids == {l \in Ids : liq[l].st = "open" /\ liq[l].ext /\ updates[l] < MaxQueued}
  IN /\ ids # {}
     /\ updates' = [l \in Ids |-> IF l \in ids THEN updates[l] + 1 ELSE updates[l]]
     /\ UNCHANGED <<requests, liq, creating, orders, sla, running, ledger, faults>>

\* update_status runs whatever the status of the liquidation is by then.  (A task
\* that finds the row locked does nothing, as if it had not been queued.)
TakesUpdate(l) ==
  /\ updates[l] > 0 /\ l \notin share.ids
  /\ updates' = [updates EXCEPT ![l] = @ - 1]
  /\ UNCHANGED <<requests, creating, orders, sla, running, ledger, faults>>

\* Mutant of StatusAfter: the amount of an order that is still open is shared
SharedAfterSla(l) ==
  IF broker[l].st = "open" /\ l \notin sla THEN liq[l].st ELSE "ready_to_share"

StatusAfter(l) ==
  CASE broker[l].st = "closed" -> "ready_to_share"
    [] broker[l].st = "open" /\ l \in sla -> "overstock"
    [] OTHER -> liq[l].st

\* _update_liquidation
UpdateStatus(l) ==
  /\ TakesUpdate(l) /\ broker[l].st # "none"
  /\ liq' = [liq EXCEPT ![l].st = StatusAfter(l), ![l].filled = broker[l].fill]

SettlementNotFound(l) ==
  /\ TakesUpdate(l) /\ broker[l].st = "none"
  /\ liq' = [liq EXCEPT ![l].st = "ready_to_share"]

\* No valid answer
UpdateFails(l) ==
  /\ TakesUpdate(l)
  /\ liq' = IF l \in sla THEN [liq EXCEPT ![l].st = "overstock"] ELSE liq

-----------------------------------------------------------------------------
(* LiquidationRequestProcessor.update_in_progress_liquidation_request *)

SharedTo(r, ids) == SumOf([l \in Ids |-> Unshared(l)], {l \in ids : liq[l].req = r})

\* Mutant of ActiveBeside: liquidations without an order do not count
OpenBeside(r, ids) == {l \in ActiveOf(r) \ ids : liq[l].st # "new"}

\* What the subquery on ACTIVE_STATUSES finds apart from the own changes: other
\* transactions are seen only after their commit.
ActiveBeside(r, ids) == ActiveOf(r) \ ids

\* Mutant of Ready: nothing to share, nothing to do
ReadyFilled == {l \in Ids : liq[l].st = "ready_to_share" /\ Unshared(l) # 0}

\* _get_ready_to_share_liquidations_with_requests
Ready == {l \in Ids : liq[l].st = "ready_to_share"}

\* All liquidations that are ready are locked with their requests.  The unique
\* references of the market maker's transactions must be new: otherwise the
\* whole transaction is rolled back.
ShareDecide ==
  LET ids == Ready
      both == RequestsOf(ids) \cap RequestsOf(del.ids)
  IN /\ share.ids = {} /\ ids # {}
     /\ \A l \in ids : liq[l].ext /\ liq[l].filled # 0 => maker[l] = 0
     /\ share' = [ids |-> ids,
                  pending |-> {r \in RequestsOf(ids) :
                                 /\ Unfilled(r) > SharedTo(r, ids)
                                 /\ ActiveBeside(r, ids) = {}}]
     /\ overlapped' = overlapped \cup both
     /\ UNCHANGED <<requests, liq, queues, orders, sla, del, ledger, faults>>

\* Mutant of ShareCommit: paid_amount is not written
ShareNotPaid ==
  /\ share.ids # {}
  /\ rfilled' = [r \in Requests |-> rfilled[r] + SharedTo(r, share.ids)]
  /\ liq' = [l \in Ids |-> IF l \in share.ids THEN [liq[l] EXCEPT !.st = "done"]
                           ELSE liq[l]]
  /\ maker' = [l \in Ids |-> IF l \in share.ids /\ liq[l].ext THEN liq[l].filled
                             ELSE maker[l]]
  /\ rstat' = [r \in Requests |->
                 IF r \notin RequestsOf(share.ids) THEN rstat[r]
                 ELSE IF rfilled'[r] >= Amount THEN "waiting"
                 ELSE IF r \in share.pending THEN "pending" ELSE rstat[r]]
  /\ share' = Nothing
  /\ UNCHANGED <<queues, orders, sla, del, credit, faults, overlapped>>

\* Everything that was shared, and the request's new status
ShareCommit ==
  /\ share.ids # {}
  /\ rfilled' = [r \in Requests |-> rfilled[r] + SharedTo(r, share.ids)]
  /\ liq' = [l \in Ids |-> IF l \in share.ids
                           THEN [liq[l] EXCEPT !.st = "done", !.paid = liq[l].filled]
                           ELSE liq[l]]
  /\ maker' = [l \in Ids |-> IF l \in share.ids /\ liq[l].ext THEN liq[l].filled
                             ELSE maker[l]]
  /\ rstat' = [r \in Requests |->
                 IF r \notin RequestsOf(share.ids) THEN rstat[r]
                 ELSE IF rfilled'[r] >= Amount THEN "waiting"
                 ELSE IF r \in share.pending THEN "pending" ELSE rstat[r]]
  /\ share' = Nothing
  /\ UNCHANGED <<queues, orders, sla, del, credit, faults, overlapped>>

-----------------------------------------------------------------------------
(* submit_wallet_transactions_for_external_liquidations, first try and retry *)

External(r) == SumOf([l \in Ids |-> liq[l].paid], {l \in Of(r) : liq[l].ext})

\* The references of the two transactions are unique.
SubmitTransactions(r) ==
  /\ rstat[r] \in {"waiting", "transactions_failed"}
  /\ External(r) # 0 => credit[r] = 0
  /\ credit' = [credit EXCEPT ![r] = @ + External(r)]
  /\ rstat' = [rstat EXCEPT ![r] = "done"]
  /\ UNCHANGED <<rfilled, liq, queues, orders, sla, running, maker, faults>>

SubmitFails(r) ==
  /\ rstat[r] = "waiting" /\ External(r) # 0
  /\ rstat' = [rstat EXCEPT ![r] = "transactions_failed"]
  /\ UNCHANGED <<rfilled, liq, queues, orders, sla, running, ledger, faults>>

-----------------------------------------------------------------------------
(* DeleteEmptyLiquidation *)

\* Those of the new liquidations that are older than five minutes
DeleteDecide ==
  \E ids \in SUBSET {l \in Ids : liq[l].st = "new"} :
    /\ del.ids = {} /\ ids # {}
    /\ del' = [ids |-> ids,
               pending |-> {r \in RequestsOf(ids) : ActiveBeside(r, ids) = {}}]
    /\ overlapped' = overlapped \cup (RequestsOf(ids) \cap RequestsOf(share.ids))
    /\ UNCHANGED <<requests, liq, queues, orders, sla, share, ledger, faults>>

\* Mutant of DeleteCommit: the requests are left alone
DeleteOnly ==
  /\ del.ids # {}
  /\ liq' = [l \in Ids |-> IF l \in del.ids
                           THEN [liq[l] EXCEPT !.st = "deleted", !.req = None]
                           ELSE liq[l]]
  /\ del' = Nothing
  /\ UNCHANGED <<requests, queues, orders, sla, share, overlapped, ledger, faults>>

DeleteCommit ==
  /\ del.ids # {}
  /\ liq' = [l \in Ids |-> IF l \in del.ids
                           THEN [liq[l] EXCEPT !.st = "deleted", !.req = None]
                           ELSE liq[l]]
  /\ rstat' = [r \in Requests |-> IF r \in del.pending THEN "pending" ELSE rstat[r]]
  /\ del' = Nothing
  /\ UNCHANGED <<rfilled, queues, orders, sla, share, overlapped, ledger, faults>>

-----------------------------------------------------------------------------
Init ==
  /\ rstat = [r \in Requests |-> "pending"] /\ rfilled = [r \in Requests |-> 0]
  /\ liq = [l \in Ids |-> NoLiquidation]
  /\ creating = {} /\ updates = [l \in Ids |-> 0]
  /\ order = [l \in Ids |-> NoOrder] /\ broker = [l \in Ids |-> NoOrder]
  /\ sla = {} /\ share = Nothing /\ del = Nothing /\ overlapped = {}
  /\ maker = [l \in Ids |-> 0] /\ credit = [r \in Requests |-> 0]
  /\ faults = 0

OrderTask(l) ==
  \/ \E type \in {"internal", "external"} :
       TaskFindsNothing(l, type) \/ CreateInternalOrder(l, type) \/ OrderNotCreated(l, type)
  \/ CreateExternalOrder(l)

UpdateTask(l) == UpdateStatus(l) \/ SettlementNotFound(l) \/ UpdateFails(l)

Next ==
  \/ \E r \in Requests : CreateLiquidations(r) \/ SubmitTransactions(r) \/ SubmitFails(r)
  \/ \E l \in Ids : \/ OrderTask(l) \/ UpdateTask(l)
                    \/ OrderMatched(l) \/ BrokerWorks(l) \/ SlaPasses(l)
  \/ ProcessLiquidationOrders \/ CheckExternal
  \/ ShareDecide \/ ShareCommit \/ DeleteDecide \/ DeleteCommit

Spec == Init /\ [][Next]_vars

\* Celery beat and the cron repeat their tasks, workers take what is queued, and
\* time passes.  Nothing is assumed of the markets.
FairSpec ==
  /\ Spec
  /\ WF_vars(ProcessLiquidationOrders) /\ WF_vars(CheckExternal)
  /\ WF_vars(ShareDecide) /\ WF_vars(ShareCommit)
  /\ WF_vars(DeleteDecide) /\ WF_vars(DeleteCommit)
  /\ \A l \in Ids : WF_vars(OrderTask(l)) /\ WF_vars(UpdateTask(l)) /\ WF_vars(SlaPasses(l))
  /\ \A r \in Requests : WF_vars(CreateLiquidations(r))
                      /\ WF_vars(SubmitTransactions(r) \/ SubmitFails(r))

-----------------------------------------------------------------------------
(* Properties *)

Liquidations == [st : {"none", "deleted", "new", "open", "ready_to_share", "overstock",
                       "done"},
                 req : Requests \cup {None}, amount : 0..Amount, ext : BOOLEAN,
                 filled : 0..Amount, paid : 0..Amount]
Orders == [st : {"none", "open", "closed"}, fill : 0..Amount]
Jobs == [ids : SUBSET Ids, pending : SUBSET Requests]

\* Types of the rows, the queues and the orders outside.
TypeOK ==
  /\ rstat \in [Requests -> {"pending", "in_progress", "waiting",
                            "transactions_failed", "done"}]
  /\ rfilled \in [Requests -> 0..Amount]
  /\ liq \in [Ids -> Liquidations]
  /\ creating \subseteq Ids \X {"internal", "external"}
  /\ updates \in [Ids -> 0..MaxQueued]
  /\ order \in [Ids -> Orders] /\ broker \in [Ids -> Orders]
  /\ sla \subseteq Ids /\ share \in Jobs /\ del \in Jobs /\ overlapped \subseteq Requests
  /\ maker \in [Ids -> 0..Amount] /\ credit \in [Requests -> 0..Amount]
  /\ faults \in 0..MaxFaults

\* No amount is liquidated twice: what a request has been filled with and what
\* its active liquidations may still execute never exceed its amount, whatever
\* is split, deleted, refused or retried ("Certain double spend in liquidation
\* Request" of check_double_spend_in_liquidation_request).
NeverDoubleSpent ==
  \A r \in Requests :
    rfilled[r] + SumOf([l \in Ids |-> liq[l].amount - liq[l].paid], ActiveOf(r)) <= Amount

Executed(l) == IF liq[l].ext THEN broker[l].fill ELSE order[l].fill

\* filled_amount of a request is what the markets have finally executed for the
\* liquidations that were shared: nothing is booked from an order that goes on.
FilledWasExecuted ==
  \A r \in Requests :
    rfilled[r] = SumOf([l \in Ids |-> Executed(l)], {l \in Of(r) : liq[l].st = "done"})

\* When a request is done, the requester has been paid exactly what the market
\* maker was charged for its external liquidations; before that nothing.
BooksAgree ==
  \A r \in Requests : credit[r] = IF rstat[r] = "done" THEN SumOf(maker, Of(r)) ELSE 0

\* A request in progress has an active liquidation that will bring it on, or one
\* that was given up as overstock, unless a share and a delete decided about it
\* at the same time and each counted what the other was about to finish.
InProgressHasWork ==
  \A r \in Requests :
    rstat[r] = "in_progress" =>
      \/ ActiveOf(r) # {}
      \/ \E l \in Of(r) : liq[l].st = "overstock"
      \/ r \in overlapped

\* A request does not stay in progress or wait for its transactions for ever,
\* with the same two exceptions, though tasks are lost and answers fail.
RequestsAdvance ==
  \A r \in Requests :
    rstat[r] \in {"in_progress", "waiting"} ~>
      \/ rstat[r] \notin {"in_progress", "waiting"}
      \/ \E l \in Of(r) : liq[l].st = "overstock"
      \/ r \in overlapped

\* "Updates the status of ready_to_share liquidations to done"
\* (update_in_progress_liquidation_request).
ReadyIsShared ==
  \A l \in Ids : liq[l].st = "ready_to_share" ~> liq[l].st # "ready_to_share"
=============================================================================
