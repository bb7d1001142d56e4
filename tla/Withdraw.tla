------------------------------ MODULE Withdraw ------------------------------
(***************************************************************************)
(* The coin withdraws of one wallet, from the request to the hot wallet.   *)
(* Three kinds of actors write a WithdrawRequest row: the views that       *)
(* create, confirm and cancel it (one transaction per request) and the     *)
(* long-running command process_withdraw, which works on objects it read   *)
(* at the start of a round and commits every statement on its own.         *)
(*                                                                         *)
(* WithdrawRequest.save reads the row, decides whether the transition is   *)
(* allowed, and writes in a second statement; only the confirm views lock  *)
(* the row in between.  The settings are those of production: cancel is    *)
(* enabled, WITHDRAW_CREATE_TX_VERIFY and WITHDRAW_FRAUD_ENABLED are off.  *)
(*                                                                         *)
(* Every request is for one unit.  Left out: rial settlement, splitting,   *)
(* one-time passwords and limits, blacklists, the rejections of            *)
(* recheck_request, which concern malformed rows, and the age of a         *)
(* request: rounds fetch those of the last three days only.                *)
(***************************************************************************)
EXTENDS Naturals, FiniteSets

CONSTANTS Requests,
          Mixes,      \* what kinds of requests there may be
          MaxBatch,   \* max_batch_size
          Funds,      \* balances of the wallet at the beginning
          MaxCancels, \* bound on cancel calls
          MaxCrashes, \* bound on restarts of process_withdraw
          None

ASSUME RequestsAssumption ==
  /\ IsFiniteSet(Requests) /\ None \notin Requests
  /\ Mixes \subseteq [Requests -> {"internal", "batch", "single"}]

ASSUME WithdrawBounds ==
  /\ MaxBatch \in Nat \ {0} /\ Funds \subseteq Nat
  /\ MaxCancels \in Nat /\ MaxCrashes \in Nat

VARIABLES
  kind,     \* kind[r]: "internal" if the target is a wallet of the exchange,
            \* "batch" if the method of the coin has BATCH_ENABLED, or "single"
  status,   \* status of the row, "none" before it exists
  auto,     \* status of its AutomaticWithdraw, "none" if there is none
  linked,   \* requests whose row refers to their transaction
  debit,    \* debit[r]: how often the wallet was charged for r
  onchain,  \* onchain[r]: how often the hot wallet sent r
  credited, \* credited[r]: how often r was deposited to an internal target
  balance,  \* wallet balance
  confirming, \* requests that a confirm view has read
  cancel,   \* cancel[r]: the cancel call of r: its step and what save() read
  cancels,  \* number of cancel calls
  due,      \* requests whose processing_timeout has passed
  ppc,      \* step of process_withdraw
  todo,     \* requests of the round that are still to be handled
  ostat,    \* ostat[r]: status of the round's object of r
  obal,     \* balance of the round's wallet objects
  cur,      \* request being handled
  want,     \* status that the running save() is to write
  old,      \* old[r]: row status read by the running save()
  batch,    \* batch_withdraws: collected in memory, across rounds
  batchDue, \* the batch has waited long enough
  sending,  \* requests handed to process_withdraw of the method
  valid,    \* those of them that validate() let pass
  crashes

rows == <<status, auto, linked>>
money == <<debit, onchain, credited, balance>>
users == <<kind, confirming, cancel, cancels>>
timers == <<due, batchDue>>
object == <<todo, ostat, obal>>
send == <<sending, valid>>
proc == <<ppc, object, cur, want, old, batch, send, crashes>>
vars == <<rows, money, users, timers, proc>>

Statuses == {"new", "verified", "waiting", "accepted", "processing", "sent",
             "done", "canceled", "rejected"}
StateIndex(s) == CASE s = "new" -> 1 [] s = "verified" -> 2 [] s = "waiting" -> 3
                   [] s = "accepted" -> 4 [] s = "processing" -> 5 [] s = "sent" -> 6
                   [] s = "done" -> 7 [] s = "canceled" -> 8 [] s = "rejected" -> 9
                   [] OTHER -> 0
Pending == {"verified", "accepted", "processing", "waiting"}
Cancelable == {"new", "verified", "waiting", "accepted", "processing"}
Committed == {"sent", "done"}
AutomaticRetry == {"none", "new", "waiting", "accepted"}

\* check_status_transition
Allowed(from, to) ==
  /\ StateIndex(to) >= StateIndex(from)
  /\ ~ (from \in Committed /\ to = "canceled")

\* What save() writes: the new status, or again the one it has read.
Result(from, to) == IF Allowed(from, to) THEN to ELSE from

\* get_financially_pending_requests: holds funds in active_balance
Holds(r) == r \notin linked /\ status[r] \in Pending \cup Committed
ActiveBalance == balance - Cardinality({r \in Requests : Holds(r)})

NoOld == [r \in Requests |-> "none"]
NoCancel == [pc |-> "idle", old |-> "none"]

-----------------------------------------------------------------------------
(* The views *)

\* wallets_withdraw
CreateRequest(r) ==
  /\ status[r] = "none" /\ ActiveBalance >= 1
  /\ status' = [status EXCEPT ![r] = "new"]
  /\ UNCHANGED <<auto, linked, money, users, timers, proc>>

\* Mutant of RowLocked: the row is read without FOR UPDATE
RowUnlocked(r) == FALSE

\* The row lock of a confirm view, from its SELECT ... FOR UPDATE to COMMIT
RowLocked(r) == r \in confirming

\* wallets_withdraw_confirm, wallets_withdraw_direct_confirm: the row is read
\* under a lock, so that save() will read the same, the balance without any;
\* do_verify ignores requests that are not new.
ConfirmRead(r) ==
  /\ r \notin confirming /\ status[r] = "new" /\ ActiveBalance >= 1
  /\ confirming' = confirming \cup {r}
  /\ UNCHANGED <<kind, rows, money, cancel, cancels, timers, proc>>

\* do_verify and COMMIT
ConfirmSave(r) ==
  /\ r \in confirming
  /\ status' = [status EXCEPT ![r] = "verified"]
  /\ confirming' = confirming \ {r}
  /\ UNCHANGED <<kind, auto, linked, money, cancel, cancels, timers, proc>>

\* wallets_withdraw_canceled, cancel_withdraws: the request is read first,
\* its AutomaticWithdraw later, the row again by save(), then it is written.
CancelRead(r) ==
  /\ cancel[r].pc = "idle" /\ cancels < MaxCancels
  /\ status[r] \in Cancelable
  /\ cancel' = [cancel EXCEPT ![r].pc = "auto"]
  /\ cancels' = cancels + 1
  /\ UNCHANGED <<kind, rows, money, confirming, timers, proc>>

\* is_cancelable
CancelCheck(r) ==
  /\ cancel[r].pc = "auto"
  /\ cancel' = [cancel EXCEPT ![r].pc =
                  IF auto[r] \in AutomaticRetry THEN "old" ELSE "idle"]
  /\ UNCHANGED <<kind, rows, money, confirming, cancels, timers, proc>>

CancelSaveReads(r) ==
  /\ cancel[r].pc = "old"
  /\ cancel' = [cancel EXCEPT ![r] = [pc |-> "write", old |-> status[r]]]
  /\ UNCHANGED <<kind, rows, money, confirming, cancels, timers, proc>>

\* The UPDATE waits for a row lock; the request commits.
CancelSaveWrites(r) ==
  /\ cancel[r].pc = "write" /\ ~ RowLocked(r)
  /\ status' = [status EXCEPT ![r] = Result(cancel[r].old, "canceled")]
  /\ cancel' = [cancel EXCEPT ![r] = NoCancel]
  /\ UNCHANGED <<kind, auto, linked, money, confirming, cancels, timers, proc>>

-----------------------------------------------------------------------------
(* Time *)

\* processing_timeout: 180 seconds after the AutomaticWithdraw was created
Elapse(r) ==
  /\ r \notin due /\ auto[r] # "none"
  /\ due' = due \cup {r}
  /\ UNCHANGED <<rows, money, users, batchDue, proc>>

\* min_batch_timeout or max_batch_timeout has passed for the batch
ElapseBatch ==
  /\ batch # {} /\ ~ batchDue
  /\ batchDue' = TRUE
  /\ UNCHANGED <<rows, money, users, due, proc>>

-----------------------------------------------------------------------------
(* process_withdraw: a round *)

\* The batch is not to wait any longer.
BatchFull == Cardinality(batch) >= MaxBatch
Ripe == batch # {} /\ (batchDue \/ BatchFull)

AllPending == {r \in Requests : status[r] \in Pending}
Found == {r \in AllPending : auto[r] \in AutomaticRetry}

\* Mutant of RoundRuns: nothing is done without a request to process
RoundOnlyForFound == Found # {}

\* A round without any new request still looks after the batch.
RoundRuns == Found # {} \/ (AllPending # {} /\ Ripe)

\* process_withdraws: the pending requests and their AutomaticWithdraws are read
\* at once; those that were handed over already are skipped.
Scan ==
  /\ ppc = "idle" /\ RoundRuns
  /\ todo' = Found
  /\ ostat' = [r \in Requests |-> IF r \in Found THEN status[r] ELSE "none"]
  /\ obal' = balance
  /\ ppc' = "pick"
  /\ UNCHANGED <<rows, money, users, timers, cur, want, old, batch, send, crashes>>

\* The request is passed over, without a mark, since the user is restricted, the
\* coin or the network is disabled, there is no method for it, or more than 500
\* come before it.  All of that may change from round to round.
PassOver(r) ==
  /\ ppc = "pick" /\ r \in todo
  /\ todo' = todo \ {r}
  /\ UNCHANGED <<rows, money, users, timers, ppc, ostat, obal, cur, want, old, batch, send,
                 crashes>>

\* withdraw_change_states creates the AutomaticWithdraw.
Pick(r) ==
  /\ ppc = "pick" /\ r \in todo
  /\ todo' = todo \ {r} /\ cur' = r
  /\ auto' = [auto EXCEPT ![r] = IF @ = "none" THEN "new" ELSE @]
  /\ ppc' = "work"
  /\ UNCHANGED <<status, linked, money, users, timers, ostat, obal, want, old, batch,
                 send, crashes>>

EndScan ==
  /\ ppc = "pick" /\ todo = {} /\ ~ Ripe
  /\ ppc' = "idle" /\ cur' = None /\ ostat' = NoOld /\ obal' = 0
  /\ UNCHANGED <<rows, money, users, timers, todo, want, old, batch, send, crashes>>

\* The two statements of a save() of the current request.
SaveReads ==
  /\ ppc = "save"
  /\ old' = [old EXCEPT ![cur] = status[cur]]
  /\ ppc' = "write"
  /\ UNCHANGED <<rows, money, users, timers, object, cur, want, batch, send, crashes>>

\* After pre_processing_withdraw the request may go on in the same round.
SaveWrites ==
  LET s == Result(old[cur], want)
  IN /\ ppc = "write" /\ ~ RowLocked(cur)
     /\ status' = [status EXCEPT ![cur] = s]
     /\ ostat' = [ostat EXCEPT ![cur] = s]
     /\ ppc' = CASE want = "rejected" -> "reject"
                 [] want # "rejected" /\ s = "processing" -> "work"
                 [] OTHER -> "pick"
     /\ old' = NoOld /\ want' = "none"
     /\ UNCHANGED <<auto, linked, money, users, timers, todo, obal, cur, batch, send,
                    crashes>>

\* A rejection is followed by an exception that marks the AutomaticWithdraw.
MarkRejected ==
  /\ ppc = "reject"
  /\ auto' = [auto EXCEPT ![cur] = "failed"]
  /\ ppc' = "pick"
  /\ UNCHANGED <<status, linked, money, users, timers, object, cur, want, old, batch,
                 send, crashes>>

\* accept_withdraw of a verified or waiting request: the user is not eligible,
\* has a balance difference, or is accepted.
AcceptWithdraw ==
  /\ ppc = "work" /\ ostat[cur] \in {"verified", "waiting"}
  /\ \/ /\ auto[cur] # "waiting"
        /\ auto' = [auto EXCEPT ![cur] = "waiting"]
        /\ want' = "waiting" /\ ppc' = "save"
     \/ /\ auto[cur] = "waiting"
        /\ ppc' = "pick" /\ UNCHANGED <<auto, want>>
     \/ /\ auto' = [auto EXCEPT ![cur] = "diff"]
        /\ ppc' = "pick" /\ UNCHANGED want
     \/ /\ auto' = [auto EXCEPT ![cur] = "accepted"]
        /\ want' = "accepted" /\ ppc' = "save"
  /\ UNCHANGED <<status, linked, money, users, timers, object, cur, old, batch, send,
                 crashes>>

PreProcessingWithdraw ==
  /\ ppc = "work" /\ ostat[cur] = "accepted" /\ kind[cur] # "internal"
  /\ want' = "processing" /\ ppc' = "save"
  /\ UNCHANGED <<rows, money, users, timers, object, cur, old, batch, send, crashes>>

\* Mutant of Covered: commit does not check the balance it has written
CoveredByObject == obal >= 1

\* Wallet.create_transaction checks the object, Transaction.commit the row.
Covered == obal >= 1 /\ balance >= 1

\* process_internal_transfer: in settle_to_internal_wallet the first save()
\* reads the row, ...
SettleReads ==
  /\ ppc = "work" /\ ostat[cur] = "accepted" /\ kind[cur] = "internal"
  /\ old' = [old EXCEPT ![cur] = status[cur]]
  /\ ppc' = "settle"
  /\ UNCHANGED <<rows, money, users, timers, object, cur, want, batch, send, crashes>>

\* ... then everything is written and committed: sent, the charge that save()
\* makes for a committed status, done, the deposit.  A refused transition or
\* missing funds end in a ValueError, which rolls all of it back.
Settle ==
  LET ok == Allowed(old[cur], "sent") /\ Covered
  IN /\ ppc = "settle"
     /\ IF ok
        THEN /\ status' = [status EXCEPT ![cur] = "done"]
             /\ linked' = linked \cup {cur}
             /\ debit' = [debit EXCEPT ![cur] = @ + 1]
             /\ balance' = balance - 1
             /\ credited' = [credited EXCEPT ![cur] = @ + 1]
             /\ ppc' = "settled"
             /\ UNCHANGED auto
        ELSE /\ auto' = [auto EXCEPT ![cur] = "failed"]
             /\ ppc' = "pick"
             /\ UNCHANGED <<status, linked, debit, balance, credited>>
     /\ old' = NoOld
     /\ UNCHANGED <<onchain, users, timers, object, cur, want, batch, send, crashes>>

SettleDone ==
  /\ ppc = "settled"
  /\ auto' = [auto EXCEPT ![cur] = "done"]
  /\ ppc' = "pick"
  /\ UNCHANGED <<status, linked, money, users, timers, object, cur, want, old, batch,
                 send, crashes>>

-----------------------------------------------------------------------------
(* processing_withdraws *)

Waits == cur \notin due \/ (kind[cur] = "batch" /\ BatchFull)

WaitForTimeout ==
  /\ ppc = "work" /\ ostat[cur] = "processing" /\ Waits
  /\ ppc' = "pick"
  /\ UNCHANGED <<rows, money, users, timers, object, cur, want, old, batch, send, crashes>>

Charging == ppc = "work" /\ ostat[cur] = "processing" /\ ~ Waits

\* create_transaction with a link already, or Transaction.commit.
CreateTransaction ==
  /\ Charging
  /\ \/ cur \in linked /\ UNCHANGED money /\ ppc' = "mark"
     \/ /\ cur \notin linked /\ Covered /\ debit[cur] = 0
        /\ debit' = [debit EXCEPT ![cur] = @ + 1]
        /\ balance' = balance - 1
        /\ UNCHANGED <<onchain, credited>>
        /\ ppc' = "link"
  /\ UNCHANGED <<rows, users, timers, object, cur, want, old, batch, send, crashes>>

\* The wallet object has too little: the request is rejected.
TransactionRefused ==
  /\ Charging /\ cur \notin linked /\ obal < 1
  /\ want' = "rejected" /\ ppc' = "save"
  /\ UNCHANGED <<rows, money, users, timers, object, cur, old, batch, send, crashes>>

\* The row has too little, or the transaction exists: commit raises.
TransactionFails ==
  /\ Charging /\ cur \notin linked /\ obal >= 1
  /\ ~ Covered \/ debit[cur] > 0
  /\ auto' = [auto EXCEPT ![cur] = "failed"]
  /\ ppc' = "pick"
  /\ UNCHANGED <<status, linked, money, users, timers, object, cur, want, old, batch,
                 send, crashes>>

\* save(update_fields=['transaction']), which also checks the transition: the
\* status is written only if that is refused.
LinkReads ==
  /\ ppc = "link"
  /\ old' = [old EXCEPT ![cur] = status[cur]]
  /\ ppc' = "linking"
  /\ UNCHANGED <<rows, money, users, timers, object, cur, want, batch, send, crashes>>

LinkWrites ==
  /\ ppc = "linking"
  /\ linked' = linked \cup {cur}
  /\ status' = IF Allowed(old[cur], ostat[cur]) THEN status
               ELSE [status EXCEPT ![cur] = old[cur]]
  /\ ostat' = [ostat EXCEPT ![cur] = Result(old[cur], @)]
  /\ ppc' = "mark"
  /\ old' = NoOld
  /\ UNCHANGED <<auto, money, users, timers, todo, obal, cur, want, batch, send, crashes>>

\* Mutant of MarkSending: the mark is left to the end of the sending
MarkLater ==
  /\ ppc = "mark"
  /\ IF kind[cur] = "batch"
     THEN batch' = batch \cup {cur} /\ ppc' = "pick" /\ UNCHANGED sending
     ELSE sending' = {cur} /\ ppc' = "validate" /\ UNCHANGED batch
  /\ UNCHANGED <<rows, money, users, timers, object, cur, want, old, valid, crashes>>

\* The AutomaticWithdraw is marked before anything is sent, so that no later
\* round takes up the request again.
MarkSending ==
  /\ ppc = "mark"
  /\ auto' = [auto EXCEPT ![cur] = "sending"]
  /\ IF kind[cur] = "batch"
     THEN batch' = batch \cup {cur} /\ ppc' = "pick" /\ UNCHANGED sending
     ELSE sending' = {cur} /\ ppc' = "validate" /\ UNCHANGED batch
  /\ UNCHANGED <<status, linked, money, users, timers, object, cur, want, old, valid,
                 crashes>>

FlushBatch ==
  /\ ppc = "pick" /\ Ripe
  /\ sending' = batch /\ batch' = {} /\ batchDue' = FALSE
  /\ ppc' = "validate"
  /\ UNCHANGED <<rows, money, users, due, object, cur, want, old, valid, crashes>>

-----------------------------------------------------------------------------
(* AutomaticWithdrawMethod.process_withdraw, inside one transaction *)

\* validate refreshes the request.
Validates(r) == status[r] = "processing" /\ r \in linked

Validate ==
  /\ ppc = "validate"
  /\ valid' = {r \in sending : Validates(r)}
  /\ ppc' = "send"
  /\ UNCHANGED <<rows, money, users, timers, object, cur, want, old, batch, sending,
                 crashes>>

SendOver ==
  /\ ppc' = "pick" /\ sending' = {} /\ valid' = {} /\ old' = NoOld
  /\ UNCHANGED <<object, cur, want, batch>>

Sent(r) == IF r \in valid THEN onchain[r] + 1 ELSE onchain[r]

\* create_transaction, create_multi_transaction: the hot wallet sends.
HotWalletSends ==
  /\ ppc = "send" /\ valid # {}
  /\ onchain' = [r \in Requests |-> Sent(r)]
  /\ ppc' = "sent"
  /\ UNCHANGED <<rows, debit, credited, balance, users, timers, object, cur, want, old,
                 batch, send, crashes>>

\* Mutant of NothingToSend: requests that fail in validation are only logged
NothingMarked ==
  /\ ppc = "send" /\ valid = {}
  /\ SendOver
  /\ UNCHANGED <<rows, money, users, timers, crashes>>

\* No request passed: those that failed are committed.
NothingToSend ==
  /\ ppc = "send" /\ valid = {}
  /\ auto' = [r \in Requests |-> IF r \in sending THEN "failed" ELSE auto[r]]
  /\ SendOver
  /\ UNCHANGED <<status, linked, money, users, timers, crashes>>

\* An exception, before the hot wallet has sent or without its answer, or from
\* the database afterwards: the transaction is rolled back and everything
\* that was handed over is marked failed.
SendFails ==
  /\ ppc \in {"send", "sent", "finish"}
  /\ \/ UNCHANGED onchain
     \/ ppc = "send" /\ onchain' = [r \in Requests |-> Sent(r)]
  /\ auto' = [r \in Requests |-> IF r \in sending THEN "failed" ELSE auto[r]]
  /\ SendOver
  /\ UNCHANGED <<status, linked, debit, credited, balance, users, timers, crashes>>

\* done_withdraw: save() reads the rows, ...
FinishReads ==
  /\ ppc = "sent"
  /\ old' = [r \in Requests |-> IF r \in valid THEN status[r] ELSE "none"]
  /\ ppc' = "finish"
  /\ UNCHANGED <<rows, money, users, timers, object, cur, want, batch, send, crashes>>

\* Mutant of FinishWrites: all that was handed over is marked done
FinishMarksAll ==
  /\ ppc = "finish"
  /\ status' = [r \in Requests |-> IF r \in valid THEN Result(old[r], "sent")
                                   ELSE status[r]]
  /\ auto' = [r \in Requests |-> IF r \in sending THEN "done" ELSE auto[r]]
  /\ SendOver
  /\ UNCHANGED <<linked, money, users, timers, crashes>>

\* ... writes them, and the transaction commits.
FinishWrites ==
  /\ ppc = "finish"
  /\ status' = [r \in Requests |-> IF r \in valid THEN Result(old[r], "sent")
                                   ELSE status[r]]
  /\ auto' = [r \in Requests |-> IF r \in valid THEN "done"
                                 ELSE IF r \in sending THEN "failed" ELSE auto[r]]
  /\ SendOver
  /\ UNCHANGED <<linked, money, users, timers, crashes>>

-----------------------------------------------------------------------------
(* The command is killed: an open transaction and all memory are lost. *)
Crash ==
  /\ crashes < MaxCrashes /\ (ppc # "idle" \/ batch # {})
  /\ crashes' = crashes + 1
  /\ ppc' = "idle" /\ todo' = {} /\ ostat' = NoOld /\ obal' = 0 /\ cur' = None
  /\ want' = "none" /\ old' = NoOld /\ batch' = {} /\ sending' = {} /\ valid' = {}
  /\ batchDue' = FALSE
  /\ UNCHANGED <<rows, money, users, due>>

-----------------------------------------------------------------------------
Init ==
  /\ status = NoOld /\ auto = NoOld /\ linked = {}
  /\ debit = [r \in Requests |-> 0] /\ onchain = [r \in Requests |-> 0]
  /\ credited = [r \in Requests |-> 0] /\ balance \in Funds
  /\ kind \in Mixes
  /\ confirming = {} /\ cancel = [r \in Requests |-> NoCancel] /\ cancels = 0
  /\ due = {} /\ batchDue = FALSE
  /\ ppc = "idle" /\ todo = {} /\ ostat = NoOld /\ obal = 0 /\ cur = None
  /\ want = "none" /\ old = NoOld /\ batch = {} /\ sending = {} /\ valid = {}
  /\ crashes = 0

Processor ==
  \/ Scan \/ EndScan \/ FlushBatch
  \/ \E r \in Requests : Pick(r) \/ PassOver(r)
  \/ SaveReads \/ SaveWrites \/ MarkRejected
  \/ AcceptWithdraw \/ PreProcessingWithdraw
  \/ SettleReads \/ Settle \/ SettleDone
  \/ WaitForTimeout \/ CreateTransaction \/ TransactionRefused \/ TransactionFails
  \/ LinkReads \/ LinkWrites \/ MarkSending
  \/ Validate \/ HotWalletSends \/ NothingToSend \/ SendFails
  \/ FinishReads \/ FinishWrites

Users ==
  \E r \in Requests :
    \/ CreateRequest(r) \/ ConfirmRead(r) \/ ConfirmSave(r)
    \/ CancelRead(r) \/ CancelCheck(r) \/ CancelSaveReads(r) \/ CancelSaveWrites(r)

Time == ElapseBatch \/ \E r \in Requests : Elapse(r)

Next == Users \/ Time \/ Processor \/ Crash

Spec == Init /\ [][Next]_vars

\* The command loops, with the module of withdraw processing switched on, and
\* time passes, less than three days of it; a view that has locked a row ends.
FairSpec ==
  /\ Spec
  /\ WF_vars(Processor) /\ WF_vars(ElapseBatch)
  /\ \A r \in Requests : WF_vars(Elapse(r)) /\ WF_vars(ConfirmSave(r))

-----------------------------------------------------------------------------
(* Properties *)

Steps == {"idle", "pick", "work", "save", "write", "reject", "settle", "settled", "link",
          "linking", "mark", "validate", "send", "sent", "finish"}
AutoStatuses == {"none", "new", "failed", "done", "sending", "waiting", "diff", "accepted"}

\* Types of the rows, the ledger and the memory of the processes.
TypeOK ==
  /\ status \in [Requests -> Statuses \cup {"none"}]
  /\ auto \in [Requests -> AutoStatuses]
  /\ linked \subseteq Requests
  /\ debit \in [Requests -> Nat] /\ onchain \in [Requests -> Nat]
  /\ credited \in [Requests -> Nat] /\ balance \in Nat
  /\ kind \in Mixes
  /\ confirming \subseteq Requests
  /\ cancel \in [Requests -> [pc : {"idle", "auto", "old", "write"},
                              old : Statuses \cup {"none"}]]
  /\ cancels \in Nat
  /\ due \subseteq Requests /\ batchDue \in BOOLEAN
  /\ ppc \in Steps
  /\ todo \subseteq Requests
  /\ ostat \in [Requests -> Statuses \cup {"none"}] /\ obal \in Nat
  /\ cur \in Requests \cup {None}
  /\ want \in Statuses \cup {"none"}
  /\ old \in [Requests -> Statuses \cup {"none"}]
  /\ batch \subseteq Requests /\ sending \subseteq Requests /\ valid \subseteq Requests
  /\ crashes \in Nat

Paid(r) == onchain[r] + credited[r]

\* A request is paid out at most once, whatever is retried after errors with an
\* unknown outcome, restarts, lost batches and cancels, and only after the
\* wallet was charged for it, once (AutomaticWithdraw.STATUS.sending, the unique
\* reference of the transaction, validate).
PaidOnceIfCharged ==
  \A r \in Requests : debit[r] <= 1 /\ Paid(r) <= debit[r]

\* A request that is shown as sent or done, or whose AutomaticWithdraw is done,
\* has been paid out; one that is rejected has not.
StatusTellsPayment ==
  \A r \in Requests :
    /\ status[r] \in Committed \/ auto[r] = "done" => Paid(r) = 1
    /\ status[r] = "rejected" => Paid(r) = 0

\* The question of the TODO in do_verify: no race makes a request verified that
\* was not new, because the confirm views lock the row they read.
VerifiedOnlyFromNew ==
  [][\A r \in Requests :
       status'[r] = "verified" => status[r] \in {"new", "verified"}]_vars

\* Between rounds, a request that was charged and not paid is in the batch or
\* shows up as failed for an operator; only a restart can leave one that looks
\* as if it were still on its way.
UnpaidIsTracked ==
  ppc = "idle" /\ crashes = 0 =>
    \A r \in Requests : debit[r] > Paid(r) =>
       (r \in batch /\ auto[r] = "sending") \/ auto[r] = "failed"

PassedOverForGood(r) == []<><<PassOver(r)>>_vars /\ <>[][~ Pick(r)]_vars

\* No verified request is forgotten: it is paid, closed or held back for an
\* operator to see; only a restart may leave it in the state sending.  The
\* exception is a request that from some round on every round passes over.
RequestsSettle ==
  \A r \in Requests :
    \/ status[r] = "verified" ~>
         \/ status[r] \in {"sent", "done", "canceled", "rejected", "waiting"}
         \/ auto[r] \in {"failed", "diff", "waiting"}
         \/ auto[r] = "sending" /\ crashes > 0
    \/ PassedOverForGood(r)

\* "Cancel a request because of user request if it is not processed yet"
\* (cancel_request): a request that ends canceled or rejected costs nothing.
ClosedNotCharged ==
  \A r \in Requests : status[r] \in {"canceled", "rejected"} => debit[r] = 0
=============================================================================
