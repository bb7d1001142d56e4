--------------------------- MODULE WithdrawProofs ---------------------------
(***************************************************************************)
(* Proofs about Withdraw, for any requests, kinds of methods, balances,    *)
(* batch sizes, cancels and restarts, from the two assumptions of Withdraw *)
(* only.                                                                   *)
(***************************************************************************)
EXTENDS Withdraw, TLAPS

-----------------------------------------------------------------------------
(* Types, and what the steps of process_withdraw have at hand *)

\* Steps at which the round is about one request
Busy == {"work", "save", "write", "reject", "settle", "settled", "link", "linking", "mark"}

\* A request that was picked is no longer to be picked; a save() writes one of
\* the statuses the round gives.
AtHand ==
  /\ ppc \in Busy => cur \in Requests /\ cur \notin todo
  /\ ppc \in {"save", "write"} => want \in {"waiting", "accepted", "processing", "rejected"}

\* Only the steps of sending have requests to send, and those that passed are
\* among them and have their transaction.
InHand ==
  /\ ppc \notin {"validate", "send", "sent", "finish"} => sending = {}
  /\ ppc \notin {"send", "sent", "finish"} => valid = {}
  /\ valid \subseteq sending /\ valid \subseteq linked

Shape == TypeOK /\ AtHand /\ InHand

LEMMA ResultTyped ==
  \A a, b \in Statuses \cup {"none"} : Result(a, b) \in Statuses \cup {"none"}
BY DEF Result

LEMMA ShapeStep == Shape /\ [Next]_vars => Shape'
<1> SUFFICES ASSUME Shape, [Next]_vars PROVE Shape'
  OBVIOUS
<1> USE DEF Shape
<1> USE DEF rows, money, users, timers, object, send, proc
<1>1. CASE UNCHANGED vars
  BY <1>1 DEF vars, TypeOK, AtHand, InHand
<1>2. ASSUME NEW r \in Requests,
             CreateRequest(r) \/ ConfirmRead(r) \/ ConfirmSave(r)
      PROVE  Shape'
  <2>1. CASE CreateRequest(r)
    BY <2>1 DEF CreateRequest, TypeOK, AtHand, InHand, Statuses
  <2>2. CASE ConfirmRead(r)
    BY <2>2 DEF ConfirmRead, TypeOK, AtHand, InHand
  <2>3. CASE ConfirmSave(r)
    BY <2>3 DEF ConfirmSave, TypeOK, AtHand, InHand, Statuses
  <2> QED BY <1>2, <2>1, <2>2, <2>3
<1>3. ASSUME NEW r \in Requests,
             CancelRead(r) \/ CancelCheck(r) \/ CancelSaveReads(r) \/ CancelSaveWrites(r)
      PROVE  Shape'
  <2>1. CASE CancelRead(r)
    BY <2>1 DEF CancelRead, TypeOK, AtHand, InHand
  <2>2. CASE CancelCheck(r)
    BY <2>2 DEF CancelCheck, TypeOK, AtHand, InHand
  <2>3. CASE CancelSaveReads(r)
    <3>1. cancel' \in [Requests -> [pc : {"idle", "auto", "old", "write"},
                                    old : Statuses \cup {"none"}]]
      BY <2>3 DEF CancelSaveReads, TypeOK
    <3> QED BY <2>3, <3>1 DEF CancelSaveReads, TypeOK, AtHand, InHand
  <2>4. CASE CancelSaveWrites(r)
    <3>1. Result(cancel[r].old, "canceled") \in Statuses \cup {"none"}
      BY ResultTyped DEF TypeOK, Statuses
    <3>2. cancel' \in [Requests -> [pc : {"idle", "auto", "old", "write"},
                                    old : Statuses \cup {"none"}]]
      BY <2>4 DEF CancelSaveWrites, TypeOK, NoCancel
    <3> QED BY <2>4, <3>1, <3>2 DEF CancelSaveWrites, TypeOK, AtHand, InHand
  <2> QED BY <1>3, <2>1, <2>2, <2>3, <2>4
<1>4. ASSUME ElapseBatch \/ \E r \in Requests : Elapse(r) PROVE Shape'
  <2>1. batchDue' \in BOOLEAN /\ due' \subseteq Requests
    BY <1>4 DEF ElapseBatch, Elapse, TypeOK
  <2> QED BY <1>4, <2>1 DEF ElapseBatch, Elapse, TypeOK, AtHand, InHand
<1>5. CASE Scan
  BY <1>5 DEF Scan, Found, AllPending, TypeOK, AtHand, InHand, Busy, Steps
<1>6. ASSUME NEW r \in Requests, Pick(r) \/ PassOver(r) PROVE Shape'
  BY <1>6 DEF Pick, PassOver, TypeOK, AtHand, InHand, Busy, AutoStatuses, Steps
<1>7. CASE EndScan \/ FlushBatch
  <2>1. CASE EndScan
    BY <2>1 DEF EndScan, NoOld, TypeOK, AtHand, InHand, Busy, Steps
  <2>2. CASE FlushBatch
    <3>1. batchDue' \in BOOLEAN
      BY <2>2 DEF FlushBatch
    <3> QED BY <2>2, <3>1 DEF FlushBatch, TypeOK, AtHand, InHand, Busy, Steps
  <2> QED BY <1>7, <2>1, <2>2
<1>8. CASE SaveReads \/ LinkReads \/ SettleReads
  BY <1>8 DEF SaveReads, LinkReads, SettleReads, TypeOK, AtHand, InHand, Busy, Steps
<1>9. CASE SaveWrites
  <2>1. Result(old[cur], want) \in Statuses \cup {"none"} /\ cur \in Requests
    BY <1>9, ResultTyped DEF SaveWrites, TypeOK, AtHand, Busy
  <2> QED BY <1>9, <2>1 DEF SaveWrites, NoOld, TypeOK, AtHand, InHand, Busy, Steps, AutoStatuses
<1>10. CASE AcceptWithdraw
  BY <1>10 DEF AcceptWithdraw, TypeOK, AtHand, InHand, Busy, Steps, AutoStatuses, Statuses
<1>11. CASE PreProcessingWithdraw \/ WaitForTimeout \/ TransactionRefused
  BY <1>11 DEF PreProcessingWithdraw, WaitForTimeout, TransactionRefused, Charging, TypeOK,
     AtHand, InHand, Busy, Steps, Statuses
<1>12. CASE Settle
  BY <1>12 DEF Settle, Covered, NoOld, TypeOK, AtHand, InHand, Busy, Steps, Statuses,
     AutoStatuses
<1>13. CASE SettleDone \/ TransactionFails \/ MarkRejected
  BY <1>13 DEF SettleDone, TransactionFails, MarkRejected, Charging, TypeOK, AtHand, InHand,
     Busy, Steps, AutoStatuses
<1>14. CASE CreateTransaction
  BY <1>14 DEF CreateTransaction, Charging, Covered, TypeOK, AtHand, InHand, Busy, Steps
<1>15. CASE LinkWrites
  <2>1. Result(old[cur], ostat[cur]) \in Statuses \cup {"none"} /\ cur \in Requests
    BY <1>15, ResultTyped DEF LinkWrites, TypeOK, AtHand, Busy
  <2> QED BY <1>15, <2>1 DEF LinkWrites, NoOld, TypeOK, AtHand, InHand, Busy, Steps
<1>16. CASE MarkSending
  BY <1>16 DEF MarkSending, TypeOK, AtHand, InHand, Busy, Steps, AutoStatuses
<1>17. CASE Validate
  BY <1>17 DEF Validate, Validates, TypeOK, AtHand, InHand, Busy, Steps
<1>18. CASE HotWalletSends
  BY <1>18 DEF HotWalletSends, Sent, TypeOK, AtHand, InHand, Busy, Steps
<1>19. CASE NothingToSend \/ SendFails
  BY <1>19 DEF NothingToSend, SendFails, SendOver, Sent, NoOld, TypeOK, AtHand, InHand, Busy,
     Steps, AutoStatuses
<1>20. CASE FinishReads
  BY <1>20 DEF FinishReads, TypeOK, AtHand, InHand, Busy, Steps
<1>21. CASE FinishWrites
  <2>1. \A r \in Requests : Result(old[r], "sent") \in Statuses \cup {"none"}
    BY ResultTyped DEF TypeOK, Statuses
  <2> QED BY <1>21, <2>1 DEF FinishWrites, SendOver, NoOld, TypeOK, AtHand, InHand, Busy,
          Steps, AutoStatuses
<1>22. CASE Crash
  <2>1. batchDue' \in BOOLEAN
    BY <1>22 DEF Crash
  <2> QED BY <1>22, <2>1 DEF Crash, NoOld, TypeOK, AtHand, InHand, Busy, Steps
<1> QED BY <1>1, <1>2, <1>3, <1>4, <1>5, <1>6, <1>7, <1>8, <1>9, <1>10, <1>11, <1>12, <1>13,
           <1>14, <1>15, <1>16, <1>17, <1>18, <1>19, <1>20, <1>21, <1>22
        DEF Next, Users, Time, Processor

LEMMA ShapeInit == Init => Shape
<1> SUFFICES ASSUME Init PROVE Shape
  OBVIOUS
<1>1. batchDue \in BOOLEAN
  BY DEF Init
<1>2. cancel \in [Requests -> [pc : {"idle", "auto", "old", "write"},
                                old : Statuses \cup {"none"}]]
  BY DEF Init, NoCancel
<1>3. balance \in Nat
  BY WithdrawBounds DEF Init
<1>4. TypeOK
  BY <1>1, <1>2, <1>3 DEF Init, TypeOK, NoOld, Steps, AutoStatuses
<1> QED BY <1>4 DEF Init, Shape, AtHand, InHand, Busy

\* Rows, ledger and memory keep their types; a balance is never negative, though it
\* is checked without a lock when requests are confirmed.
THEOREM TypeCorrect == Spec => []TypeOK
BY ShapeInit, ShapeStep, PTL DEF Spec, Shape

-----------------------------------------------------------------------------
(* What a save() can make of a status *)

Final == {"sent", "done", "canceled", "rejected"}

LEMMA CancelResult ==
  \A a \in Statuses \cup {"none"} :
    Result(a, "canceled") = IF a \in Final THEN a ELSE "canceled"
BY DEF Result, Allowed, StateIndex, Statuses, Final, Committed

LEMMA SendResult ==
  \A a \in Statuses \cup {"none"} :
    Result(a, "sent") = IF a \in Final THEN a ELSE "sent"
BY DEF Result, Allowed, StateIndex, Statuses, Final, Committed

LEMMA SaveResult ==
  \A a \in Statuses \cup {"none"}, w \in {"waiting", "accepted", "processing", "rejected"} :
    \/ Result(a, w) = w
    \/ Result(a, w) = a /\ a \notin {"none", "new", "verified"} /\ w # "rejected"
BY DEF Result, Allowed, StateIndex, Statuses, Committed

LEMMA LinkResult ==
  \A a \in Statuses \cup {"none"} :
    Allowed(a, "processing") <=> a \notin Final
BY DEF Allowed, StateIndex, Statuses, Final, Committed

-----------------------------------------------------------------------------
(* Confirming and processing never meet on a row *)

Untouched == {"none", "new"}

\* The requests a round, its batch or its sending holds objects of
Taken(r) == r \in todo \/ r \in batch \/ r \in sending \/ (ppc \in Busy /\ cur = r)

\* A confirm view holds the lock of a new row; process_withdraw has only requests
\* that were confirmed, and so have the rows its save() has read.
Seen ==
  /\ \A r \in confirming : status[r] = "new"
  /\ \A r \in Requests : Taken(r) => status[r] \notin Untouched
  /\ ppc \in {"write", "settle", "linking"} => old[cur] \notin Untouched
  /\ ppc = "finish" => \A r \in valid : old[r] \notin Untouched
  /\ ppc \in {"link", "linking"} => ostat[cur] = "processing"

SeenInv == Shape /\ Seen

\* A step that takes up no further request and leaves the rows alone keeps Seen.
LEMMA SeenQuiet ==
  ASSUME SeenInv, UNCHANGED <<status, confirming>>,
         \A r \in Requests : Taken(r)' => Taken(r),
         ppc' \in {"write", "settle", "linking"} => old'[cur'] \notin Untouched,
         ppc' = "finish" => \A r \in valid' : old'[r] \notin Untouched,
         ppc' \in {"link", "linking"} => ostat'[cur'] = "processing"
  PROVE  Seen'
BY DEF SeenInv, Seen

LEMMA SeenStep == SeenInv /\ [Next]_vars => SeenInv'
<1> SUFFICES ASSUME SeenInv, [Next]_vars PROVE Seen'
  BY ShapeStep DEF SeenInv
<1>0. TypeOK /\ AtHand /\ InHand /\ Seen
  BY DEF SeenInv, Shape
<1> USE DEF rows, money, users, timers, object, send, proc
<1>1. CASE UNCHANGED vars
  BY <1>0, <1>1 DEF vars, Seen, Taken
<1>2. ASSUME NEW r \in Requests,
             CreateRequest(r) \/ ConfirmRead(r) \/ ConfirmSave(r)
      PROVE  Seen'
  <2>1. CASE CreateRequest(r)
    BY <1>0, <2>1 DEF CreateRequest, Seen, Taken, Untouched, TypeOK
  <2>2. CASE ConfirmRead(r)
    BY <1>0, <2>2 DEF ConfirmRead, Seen, Taken
  <2>3. CASE ConfirmSave(r)
    BY <1>0, <2>3 DEF ConfirmSave, Seen, Taken, Untouched, TypeOK
  <2> QED BY <1>2, <2>1, <2>2, <2>3
<1>3. ASSUME NEW r \in Requests, CancelRead(r) \/ CancelCheck(r) \/ CancelSaveReads(r)
      PROVE  Seen'
  BY <1>0, <1>3 DEF CancelRead, CancelCheck, CancelSaveReads, Seen, Taken
<1>4. ASSUME NEW r \in Requests, CancelSaveWrites(r) PROVE Seen'
  <2>1. Result(cancel[r].old, "canceled") \notin Untouched
    BY <1>0, CancelResult DEF TypeOK, Untouched, Final
  <2> QED BY <1>0, <1>4, <2>1 DEF CancelSaveWrites, RowLocked, Seen, Taken, TypeOK
<1>5. ASSUME ElapseBatch \/ \E r \in Requests : Elapse(r) PROVE Seen'
  BY <1>0, <1>5 DEF ElapseBatch, Elapse, Seen, Taken
<1>6. CASE Scan
  BY <1>0, <1>6 DEF Scan, Found, AllPending, Pending, Seen, Taken, Untouched, InHand, Busy
<1>7. ASSUME NEW r \in Requests, Pick(r) \/ PassOver(r) PROVE Seen'
  BY <1>0, <1>7 DEF Pick, PassOver, Seen, Taken, Busy
<1>8. CASE EndScan \/ FlushBatch \/ Crash
  BY <1>0, <1>8, SeenQuiet DEF EndScan, FlushBatch, Crash, Taken, Busy
<1>9. CASE SaveReads \/ SettleReads \/ LinkReads
  <2>1. old'[cur] = status[cur] /\ Taken(cur) /\ cur \in Requests
    BY <1>0, <1>9 DEF SaveReads, SettleReads, LinkReads, Taken, Busy, AtHand, TypeOK
  <2> QED BY <1>0, <1>9, <2>1 DEF SaveReads, SettleReads, LinkReads, Seen, Taken, Busy
<1>10. CASE SaveWrites
  <2>1. Result(old[cur], want) \notin Untouched /\ cur \in Requests
    BY <1>0, <1>10, SaveResult DEF SaveWrites, AtHand, Busy, TypeOK, Untouched
  <2> QED BY <1>0, <1>10, <2>1 DEF SaveWrites, RowLocked, Seen, Taken, Busy, TypeOK
<1>11. CASE AcceptWithdraw \/ PreProcessingWithdraw \/ WaitForTimeout \/ TransactionRefused
            \/ TransactionFails \/ SettleDone \/ MarkRejected
  BY <1>0, <1>11, SeenQuiet DEF AcceptWithdraw, PreProcessingWithdraw, WaitForTimeout,
     TransactionRefused, TransactionFails, SettleDone, MarkRejected, Charging, Taken, Busy
<1>12. CASE Settle
  BY <1>0, <1>12 DEF Settle, Seen, Taken, Untouched, Busy, AtHand, TypeOK
<1>13. CASE CreateTransaction
  BY <1>0, <1>13, SeenQuiet DEF CreateTransaction, Charging, Taken, Busy
<1>14. CASE LinkWrites
  <2>1. cur \in Requests /\ Taken(cur) /\ old[cur] \notin Untouched
    BY <1>0, <1>14 DEF LinkWrites, AtHand, Busy, Taken, Seen
  <2>2. status'[cur] \notin Untouched /\ \A r \in Requests \ {cur} : status'[r] = status[r]
    BY <1>0, <1>14, <2>1 DEF LinkWrites, TypeOK, Seen
  <2> QED BY <1>0, <1>14, <2>1, <2>2 DEF LinkWrites, Seen, Taken, Busy, Untouched
<1>15. CASE MarkSending
  BY <1>0, <1>15, SeenQuiet DEF MarkSending, Taken, Busy
<1>16. CASE Validate \/ HotWalletSends \/ NothingToSend \/ SendFails
  BY <1>0, <1>16, SeenQuiet DEF Validate, HotWalletSends, NothingToSend, SendFails, SendOver,
     Taken, Busy
<1>17. CASE FinishReads
  BY <1>0, <1>17 DEF FinishReads, Seen, Taken, Busy, InHand, TypeOK
<1>18. CASE FinishWrites
  <2>1. \A r \in valid : Taken(r) /\ Result(old[r], "sent") \notin Untouched
    BY <1>0, <1>18, SendResult DEF FinishWrites, InHand, Taken, TypeOK, Final, Untouched
  <2> QED BY <1>0, <1>18, <2>1 DEF FinishWrites, SendOver, Seen, Taken, Busy, Untouched, TypeOK
<1> QED BY <1>1, <1>2, <1>3, <1>4, <1>5, <1>6, <1>7, <1>8, <1>9, <1>10, <1>11, <1>12, <1>13,
           <1>14, <1>15, <1>16, <1>17, <1>18
        DEF Next, Users, Time, Processor

LEMMA SeenInit == Init => SeenInv
BY ShapeInit DEF Init, SeenInv, Seen, Taken, Busy

\* No race makes a request verified that was not new: the answer to the question
\* in do_verify.
THEOREM VerifyIsSafe == Spec => VerifiedOnlyFromNew
<1>1. ASSUME SeenInv, [Next]_vars, NEW r \in Requests, status'[r] = "verified"
      PROVE  status[r] \in {"new", "verified"}
  <2>0. TypeOK /\ AtHand /\ InHand /\ Seen
    BY <1>1 DEF SeenInv, Shape
  <2> USE DEF rows, money, users, timers, object, send, proc
  <2>1. CASE status' = status
    BY <1>1, <2>1
  <2>2. ASSUME NEW u \in Requests, CreateRequest(u) \/ ConfirmSave(u) \/ CancelSaveWrites(u)
        PROVE  status[r] \in {"new", "verified"}
    <3>1. Result(cancel[u].old, "canceled") # "verified"
      BY <2>0, CancelResult DEF TypeOK, Final
    <3> QED BY <1>1, <2>0, <2>2, <3>1 DEF CreateRequest, ConfirmSave, CancelSaveWrites, Seen,
            TypeOK
  <2>3. CASE SaveWrites
    <3>1. Result(old[cur], want) # "verified"
      BY <2>0, <2>3, SaveResult DEF SaveWrites, AtHand, Busy, TypeOK
    <3> QED BY <1>1, <2>0, <2>3, <3>1 DEF SaveWrites, TypeOK
  <2>4. CASE Settle
    BY <1>1, <2>0, <2>4 DEF Settle, TypeOK
  <2>5. CASE LinkWrites
    <3>1. ~ Allowed(old[cur], ostat[cur]) => old[cur] # "verified"
      BY <2>0, <2>5, LinkResult DEF LinkWrites, AtHand, Busy, TypeOK, Seen, Final
    <3> QED BY <1>1, <2>0, <2>5, <3>1 DEF LinkWrites, TypeOK
  <2>6. CASE FinishWrites
    <3>1. Result(old[r], "sent") # "verified"
      BY <2>0, SendResult DEF TypeOK, Final
    <3> QED BY <1>1, <2>0, <2>6, <3>1 DEF FinishWrites, TypeOK
  <2> QED BY <1>1, <2>1, <2>2, <2>3, <2>4, <2>5, <2>6
    DEF Next, Users, Time, Processor, vars, ConfirmRead, CancelRead, CancelCheck,
        CancelSaveReads, ElapseBatch, Elapse, Scan, EndScan, FlushBatch, Pick, PassOver,
        SaveReads, MarkRejected, AcceptWithdraw, PreProcessingWithdraw, SettleReads, SettleDone, WaitForTimeout,
        CreateTransaction, TransactionRefused, TransactionFails, LinkReads, MarkSending,
        Validate, HotWalletSends, NothingToSend, SendFails, FinishReads, Crash
<1>2. SeenInv /\ [Next]_vars =>
        [\A r \in Requests : status'[r] = "verified" => status[r] \in {"new", "verified"}]_vars
  BY <1>1
<1> QED BY <1>2, SeenInit, SeenStep, PTL DEF Spec, VerifiedOnlyFromNew

-----------------------------------------------------------------------------
(* Marks and kinds *)

\* What is still to be handled may be retried; what waits to be sent is marked, and
\* is in the batch or being sent, not both.
Marks ==
  /\ \A r \in todo : auto[r] \in AutomaticRetry
  /\ ppc \in Busy => auto[cur] \in AutomaticRetry
  /\ \A r \in batch \cup sending : auto[r] = "sending"
  /\ batch \cap sending = {}

\* A request with an internal target is settled and never charged or sent.
Kinds ==
  /\ \A r \in Requests : kind[r] = "internal" =>
       status[r] # "processing" /\ ostat[r] # "processing" /\ r \notin batch \cup sending
  /\ ppc \in {"link", "linking", "mark"} => kind[cur] # "internal"
  /\ ppc \in {"settle", "settled"} => kind[cur] = "internal"
  /\ ppc \in {"save", "write"} /\ kind[cur] = "internal" => want \in {"waiting", "accepted"}
  /\ ppc = "write" /\ kind[cur] = "internal" => old[cur] # "processing"

MarkInv == Shape /\ Marks /\ Kinds

LEMMA MarksStep == MarkInv /\ [Next]_vars => Marks'
<1> SUFFICES ASSUME MarkInv, [Next]_vars PROVE Marks'
  OBVIOUS
<1>0. TypeOK /\ AtHand /\ InHand /\ Marks
  BY DEF MarkInv, Shape
<1> USE DEF rows, money, users, timers, object, send, proc
<1>1. ASSUME UNCHANGED <<auto, todo, cur, batch, sending>>, ppc' \in Busy => ppc \in Busy
      PROVE  Marks'
  BY <1>0, <1>1 DEF Marks
<1>2. CASE UNCHANGED vars
  BY <1>1, <1>2 DEF vars
<1>3. CASE Users \/ Time
  BY <1>1, <1>3 DEF Users, Time, CreateRequest, ConfirmRead, ConfirmSave, CancelRead,
     CancelCheck, CancelSaveReads, CancelSaveWrites, ElapseBatch, Elapse
<1>4. CASE Scan \/ EndScan \/ FlushBatch \/ Crash
  BY <1>0, <1>4 DEF Scan, EndScan, FlushBatch, Crash, Found, Marks, InHand, Busy
<1>5. ASSUME NEW r \in Requests, Pick(r) PROVE Marks'
  <2>1. /\ \A u \in Requests : auto[u] \in AutomaticRetry => auto'[u] \in AutomaticRetry
        /\ \A u \in batch \cup sending : auto'[u] = "sending"
    BY <1>0, <1>5 DEF Pick, Marks, TypeOK, AutomaticRetry
  <2> QED BY <1>0, <1>5, <2>1 DEF Pick, Marks, TypeOK
<1>14. ASSUME NEW r \in Requests, PassOver(r) PROVE Marks'
  BY <1>0, <1>14 DEF PassOver, Marks, Busy
<1>6. CASE SaveReads \/ SettleReads \/ LinkReads \/ LinkWrites \/ PreProcessingWithdraw
           \/ WaitForTimeout \/ CreateTransaction \/ TransactionRefused
  BY <1>1, <1>6 DEF SaveReads, SettleReads, LinkReads, LinkWrites, PreProcessingWithdraw,
     WaitForTimeout, CreateTransaction, TransactionRefused, Charging, Busy
<1>7. ASSUME ppc \in Busy, UNCHANGED <<todo, cur, batch, sending>>,
             NEW a, auto' = [auto EXCEPT ![cur] = a],
             ppc' \in Busy => a \in AutomaticRetry
      PROVE  Marks'
  <2>1. cur \in Requests /\ cur \notin todo /\ cur \notin batch \cup sending
    BY <1>0, <1>7 DEF AtHand, Marks, AutomaticRetry
  <2> QED BY <1>0, <1>7, <2>1 DEF Marks, TypeOK
<1>8. CASE SaveWrites
  BY <1>1, <1>8 DEF SaveWrites, Busy
<1>9. CASE AcceptWithdraw
  BY <1>1, <1>7, <1>9 DEF AcceptWithdraw, Busy, AutomaticRetry
<1>10. CASE Settle \/ SettleDone \/ TransactionFails \/ MarkRejected
  BY <1>1, <1>7, <1>10 DEF Settle, SettleDone, TransactionFails, MarkRejected, Charging, Busy
<1>11. CASE MarkSending
  <2>1. cur \in Requests /\ cur \notin todo /\ sending = {}
    BY <1>0, <1>11 DEF MarkSending, AtHand, InHand, Busy
  <2> QED BY <1>0, <1>11, <2>1 DEF MarkSending, Marks, TypeOK, Busy, AutomaticRetry
<1>12. CASE Validate \/ HotWalletSends \/ FinishReads
  BY <1>1, <1>12 DEF Validate, HotWalletSends, FinishReads, Busy
<1>13. CASE NothingToSend \/ SendFails \/ FinishWrites
  <2>1. /\ \A r \in Requests \ sending : auto'[r] = auto[r]
        /\ sending' = {} /\ ppc' = "pick" /\ UNCHANGED <<todo, batch>>
    BY <1>0, <1>13 DEF NothingToSend, SendFails, FinishWrites, SendOver, InHand, TypeOK
  <2> QED BY <1>0, <2>1 DEF Marks, TypeOK, Busy, AutomaticRetry
<1> QED BY <1>2, <1>3, <1>4, <1>5, <1>6, <1>8, <1>9, <1>10, <1>11, <1>12, <1>13, <1>14
        DEF Next, Processor

LEMMA KindsStep == MarkInv /\ [Next]_vars => Kinds'
<1> SUFFICES ASSUME MarkInv, [Next]_vars PROVE Kinds'
  OBVIOUS
<1>0. TypeOK /\ AtHand /\ InHand /\ Marks /\ Kinds
  BY DEF MarkInv, Shape
<1> USE DEF rows, money, users, timers, object, send, proc
<1>1. CASE UNCHANGED vars
  BY <1>0, <1>1 DEF vars, Kinds
<1>2. ASSUME NEW r \in Requests, CreateRequest(r) \/ ConfirmRead(r) \/ ConfirmSave(r)
                                 \/ CancelRead(r) \/ CancelCheck(r) \/ CancelSaveReads(r)
      PROVE  Kinds'
  BY <1>0, <1>2 DEF CreateRequest, ConfirmRead, ConfirmSave, CancelRead, CancelCheck,
     CancelSaveReads, Kinds, TypeOK
<1>3. ASSUME NEW r \in Requests, CancelSaveWrites(r) PROVE Kinds'
  <2>1. Result(cancel[r].old, "canceled") # "processing"
    BY <1>0, CancelResult DEF TypeOK, Final
  <2> QED BY <1>0, <1>3, <2>1 DEF CancelSaveWrites, Kinds, TypeOK
<1>4. CASE Time
  BY <1>0, <1>4 DEF Time, ElapseBatch, Elapse, Kinds
<1>5. CASE Scan \/ EndScan \/ FlushBatch \/ Crash
  BY <1>0, <1>5 DEF Scan, EndScan, FlushBatch, Crash, NoOld, Kinds, TypeOK
<1>6. ASSUME NEW r \in Requests, Pick(r) \/ PassOver(r) PROVE Kinds'
  BY <1>0, <1>6 DEF Pick, PassOver, Kinds
<1>7. CASE SaveReads \/ LinkReads \/ SettleReads
  <2>1. cur \in Requests /\ old'[cur] = status[cur]
    BY <1>0, <1>7 DEF SaveReads, LinkReads, SettleReads, AtHand, Busy, TypeOK
  <2> QED BY <1>0, <1>7, <2>1 DEF SaveReads, LinkReads, SettleReads, Kinds
<1>8. CASE SaveWrites
  <2>1. cur \in Requests /\ (kind[cur] = "internal" => Result(old[cur], want) # "processing")
    BY <1>0, <1>8, SaveResult DEF SaveWrites, AtHand, Busy, TypeOK, Kinds
  <2> QED BY <1>0, <1>8, <2>1 DEF SaveWrites, Kinds, TypeOK
<1>9. CASE AcceptWithdraw \/ PreProcessingWithdraw \/ WaitForTimeout \/ SettleDone
           \/ MarkRejected
  BY <1>0, <1>9 DEF AcceptWithdraw, PreProcessingWithdraw, WaitForTimeout, SettleDone,
     MarkRejected, Kinds
<1>10. CASE Settle
  BY <1>0, <1>10 DEF Settle, Kinds, TypeOK
<1>11. CASE CreateTransaction \/ TransactionRefused \/ TransactionFails
  <2>1. cur \in Requests /\ kind[cur] # "internal"
    BY <1>0, <1>11 DEF CreateTransaction, TransactionRefused, TransactionFails, Charging, Kinds,
       AtHand, Busy
  <2> QED BY <1>0, <1>11, <2>1 DEF CreateTransaction, TransactionRefused, TransactionFails,
          Charging, Kinds
<1>12. CASE LinkWrites
  <2>1. cur \in Requests /\ kind[cur] # "internal"
    BY <1>0, <1>12 DEF LinkWrites, Kinds, AtHand, Busy
  <2>2. \A r \in Requests \ {cur} : status'[r] = status[r] /\ ostat'[r] = ostat[r]
    BY <1>0, <1>12 DEF LinkWrites, TypeOK
  <2> QED BY <1>0, <1>12, <2>1, <2>2 DEF LinkWrites, Kinds
<1>13. CASE MarkSending
  BY <1>0, <1>13 DEF MarkSending, Kinds, AtHand, Busy
<1>14. CASE Validate \/ HotWalletSends \/ NothingToSend \/ SendFails \/ FinishReads
  BY <1>0, <1>14 DEF Validate, HotWalletSends, NothingToSend, SendFails, FinishReads, SendOver,
     Kinds
<1>15. CASE FinishWrites
  <2>1. \A r \in Requests : Result(old[r], "sent") # "processing"
    BY <1>0, SendResult DEF TypeOK, Final
  <2> QED BY <1>0, <1>15, <2>1 DEF FinishWrites, SendOver, Kinds, TypeOK
<1> QED BY <1>1, <1>2, <1>3, <1>4, <1>5, <1>6, <1>7, <1>8, <1>9, <1>10, <1>11, <1>12, <1>13,
           <1>14, <1>15
        DEF Next, Users, Processor

LEMMA MarkStep == MarkInv /\ [Next]_vars => MarkInv'
BY ShapeStep, MarksStep, KindsStep DEF MarkInv

LEMMA MarkInit == Init => MarkInv
BY ShapeInit DEF Init, MarkInv, Marks, Kinds, NoOld, Busy

-----------------------------------------------------------------------------
(* Charged once, paid once *)

\* A wallet is charged once; what is settled is credited with the charge, what is
\* sent was charged before, and a link refers to a charge.
Ledger ==
  /\ \A r \in Requests :
       /\ debit[r] <= 1
       /\ kind[r] = "internal" => onchain[r] = 0 /\ credited[r] = debit[r]
       /\ kind[r] # "internal" => credited[r] = 0 /\ onchain[r] <= debit[r]
  /\ \A r \in linked : debit[r] = 1
  /\ ppc \in {"link", "linking"} => debit[cur] = 1
  /\ ppc = "mark" => cur \in linked

\* Nothing is sent that could be taken up again, waits in the batch or is about to
\* be sent.
NotYetSent ==
  /\ \A r \in Requests : auto[r] \in AutomaticRetry => onchain[r] = 0
  /\ \A r \in batch : onchain[r] = 0
  /\ ppc \in {"validate", "send"} => \A r \in sending : onchain[r] = 0
  /\ ppc \in {"sent", "finish"} => \A r \in valid : onchain[r] = 1

\* Nothing is credited that is still pending or to be handled.
NotYetCredited ==
  /\ \A r \in Requests : status[r] \in Pending \cup Untouched => credited[r] = 0
  /\ \A r \in todo : credited[r] = 0
  /\ ppc \in {"work", "save", "write", "settle"} => credited[cur] = 0
  /\ ppc = "settled" => credited[cur] = 1

PaidInv == SeenInv /\ MarkInv /\ Ledger /\ NotYetSent /\ NotYetCredited

LEMMA LedgerStep == PaidInv /\ [Next]_vars => Ledger'
<1> SUFFICES ASSUME PaidInv, [Next]_vars PROVE Ledger'
  OBVIOUS
<1>0. TypeOK /\ AtHand /\ InHand /\ Kinds /\ Ledger /\ NotYetSent /\ NotYetCredited
  BY DEF PaidInv, MarkInv, Shape
<1> USE DEF rows, money, users, timers, object, send, proc
<1>1. ASSUME UNCHANGED <<money, kind, linked>>, ppc' \notin {"link", "linking", "mark"}
      PROVE  Ledger'
  BY <1>0, <1>1 DEF Ledger
<1>2. ASSUME UNCHANGED <<money, kind, linked, cur, ppc>> PROVE Ledger'
  BY <1>0, <1>2 DEF Ledger
<1>3. CASE UNCHANGED vars \/ Users \/ Time
  BY <1>2, <1>3 DEF vars, Users, Time, CreateRequest, ConfirmRead, ConfirmSave, CancelRead,
     CancelCheck, CancelSaveReads, CancelSaveWrites, ElapseBatch, Elapse
<1>4. CASE Scan \/ EndScan \/ FlushBatch \/ Crash
           \/ \E r \in Requests : Pick(r) \/ PassOver(r)
  BY <1>1, <1>4 DEF Scan, EndScan, FlushBatch, Crash, Pick, PassOver
<1>5. CASE SaveReads \/ SaveWrites \/ AcceptWithdraw \/ PreProcessingWithdraw \/ SettleReads
           \/ SettleDone \/ WaitForTimeout \/ TransactionRefused \/ TransactionFails
           \/ MarkRejected
  BY <1>1, <1>5 DEF SaveReads, SaveWrites, AcceptWithdraw, PreProcessingWithdraw, SettleReads,
     SettleDone, WaitForTimeout, TransactionRefused, TransactionFails, MarkRejected, Charging
<1>6. CASE MarkSending \/ Validate \/ NothingToSend \/ FinishReads \/ FinishWrites
  BY <1>1, <1>6 DEF MarkSending, Validate, NothingToSend, FinishReads, FinishWrites, SendOver
<1>7. CASE Settle
  <2>1. cur \in Requests /\ kind[cur] = "internal" /\ credited[cur] = 0 /\ debit[cur] = 0
    BY <1>0, <1>7 DEF Settle, AtHand, Busy, Kinds, NotYetCredited, Ledger
  <2> QED BY <1>0, <1>7, <2>1 DEF Settle, Ledger, TypeOK
<1>8. CASE CreateTransaction
  <2>1. cur \in Requests /\ kind[cur] # "internal"
    BY <1>0, <1>8 DEF CreateTransaction, Charging, Kinds, AtHand, Busy
  <2>2. CASE cur \in linked /\ UNCHANGED money /\ ppc' = "mark"
    BY <1>0, <1>8, <2>2 DEF CreateTransaction, Ledger
  <2>3. CASE cur \notin linked /\ debit[cur] = 0 /\ debit' = [debit EXCEPT ![cur] = @ + 1]
             /\ UNCHANGED <<onchain, credited>> /\ ppc' = "link"
    BY <1>0, <1>8, <2>1, <2>3 DEF CreateTransaction, Ledger, TypeOK
  <2> QED BY <1>8, <2>2, <2>3 DEF CreateTransaction
<1>9. CASE LinkReads
  BY <1>0, <1>9 DEF LinkReads, Ledger
<1>10. CASE LinkWrites
  BY <1>0, <1>10 DEF LinkWrites, Ledger
<1>11. CASE HotWalletSends \/ SendFails
  <2>1. \A r \in Requests : onchain'[r] = onchain[r] \/ (ppc = "send" /\ r \in valid
                                                          /\ onchain'[r] = onchain[r] + 1)
    BY <1>0, <1>11 DEF HotWalletSends, SendFails, Sent, TypeOK
  <2>2. ppc = "send" => \A r \in valid : onchain[r] = 0 /\ debit[r] = 1 /\ kind[r] # "internal"
    BY <1>0 DEF NotYetSent, Ledger, InHand, Kinds, TypeOK
  <2>3. UNCHANGED <<debit, credited, kind, linked>> /\ ppc' \in {"sent", "pick"}
    BY <1>11 DEF HotWalletSends, SendFails, SendOver
  <2> QED BY <1>0, <2>1, <2>2, <2>3 DEF Ledger, TypeOK
<1> QED BY <1>3, <1>4, <1>5, <1>6, <1>7, <1>8, <1>9, <1>10, <1>11 DEF Next, Processor

LEMMA SentStep == PaidInv /\ [Next]_vars => NotYetSent'
<1> SUFFICES ASSUME PaidInv, [Next]_vars PROVE NotYetSent'
  OBVIOUS
<1>0. TypeOK /\ AtHand /\ InHand /\ Marks /\ NotYetSent
  BY DEF PaidInv, MarkInv, Shape
<1> USE DEF rows, money, users, timers, object, send, proc
\* A step that sends nothing and marks nothing to be retried that was not
<1>1. ASSUME UNCHANGED <<onchain, batch>>, ppc' \notin {"validate", "send", "sent", "finish"},
             \A r \in Requests : auto'[r] \in AutomaticRetry => auto[r] \in AutomaticRetry
      PROVE  NotYetSent'
  BY <1>0, <1>1 DEF NotYetSent
<1>2. ASSUME UNCHANGED <<onchain, batch, auto, ppc, send>> PROVE NotYetSent'
  BY <1>0, <1>2 DEF NotYetSent
<1>3. CASE UNCHANGED vars \/ Users \/ Time
  BY <1>2, <1>3 DEF vars, Users, Time, CreateRequest, ConfirmRead, ConfirmSave, CancelRead,
     CancelCheck, CancelSaveReads, CancelSaveWrites, ElapseBatch, Elapse
<1>4. CASE Scan \/ EndScan \/ \E r \in Requests : PassOver(r)
  BY <1>1, <1>4 DEF Scan, EndScan, PassOver
<1>5. ASSUME NEW r \in Requests, Pick(r) PROVE NotYetSent'
  BY <1>0, <1>1, <1>5 DEF Pick, TypeOK, AutomaticRetry
<1>6. CASE FlushBatch
  BY <1>0, <1>6 DEF FlushBatch, NotYetSent
<1>7. CASE Crash
  BY <1>0, <1>7 DEF Crash, NotYetSent
<1>8. CASE SaveReads \/ LinkReads \/ LinkWrites \/ SettleReads \/ PreProcessingWithdraw
           \/ WaitForTimeout \/ CreateTransaction \/ TransactionRefused
  BY <1>1, <1>8 DEF SaveReads, LinkReads, LinkWrites, SettleReads, PreProcessingWithdraw,
     WaitForTimeout, CreateTransaction, TransactionRefused, Charging
<1>9. ASSUME ppc \in Busy, NEW a, auto' = auto \/ auto' = [auto EXCEPT ![cur] = a],
             UNCHANGED <<onchain, batch>>, ppc' \notin {"validate", "send", "sent", "finish"}
      PROVE  NotYetSent'
  <2>1. \A r \in Requests : auto'[r] \in AutomaticRetry => auto[r] \in AutomaticRetry
    BY <1>0, <1>9 DEF TypeOK, Marks
  <2> QED BY <1>1, <1>9, <2>1
<1>10. CASE SaveWrites
  BY <1>9, <1>10 DEF SaveWrites, Busy
<1>11. CASE AcceptWithdraw
  BY <1>9, <1>11 DEF AcceptWithdraw, Busy
<1>12. CASE Settle \/ SettleDone \/ TransactionFails \/ MarkRejected
  BY <1>9, <1>12 DEF Settle, SettleDone, TransactionFails, MarkRejected, Charging, Busy
<1>13. CASE MarkSending
  <2>1. cur \in Requests /\ onchain[cur] = 0 /\ auto'[cur] = "sending"
        /\ \A r \in Requests \ {cur} : auto'[r] = auto[r]
    BY <1>0, <1>13 DEF MarkSending, AtHand, Busy, Marks, NotYetSent, TypeOK
  <2> QED BY <1>0, <1>13, <2>1 DEF MarkSending, NotYetSent, AutomaticRetry
<1>14. CASE Validate
  BY <1>0, <1>14 DEF Validate, NotYetSent
<1>15. CASE HotWalletSends
  <2>1. /\ \A r \in valid : onchain'[r] = 1 /\ auto[r] = "sending" /\ r \notin batch
        /\ \A r \in Requests \ valid : onchain'[r] = onchain[r]
    BY <1>0, <1>15 DEF HotWalletSends, Sent, NotYetSent, InHand, Marks, TypeOK
  <2> QED BY <1>0, <1>15, <2>1 DEF HotWalletSends, NotYetSent, AutomaticRetry, TypeOK
<1>16. CASE NothingToSend \/ SendFails \/ FinishWrites
  <2>1. /\ \A r \in Requests : r \in sending => auto'[r] \in {"failed", "done"}
        /\ \A r \in Requests \ sending : auto'[r] = auto[r] /\ onchain'[r] = onchain[r]
        /\ ppc' = "pick" /\ batch' = batch
    BY <1>0, <1>16 DEF NothingToSend, SendFails, FinishWrites, SendOver, Sent, InHand, TypeOK
  <2> QED BY <1>0, <2>1 DEF NotYetSent, Marks, AutomaticRetry, TypeOK
<1>17. CASE FinishReads
  BY <1>0, <1>17 DEF FinishReads, NotYetSent
<1> QED BY <1>3, <1>4, <1>5, <1>6, <1>7, <1>8, <1>10, <1>11, <1>12, <1>13, <1>14, <1>15, <1>16,
           <1>17
        DEF Next, Processor

LEMMA CreditedStep == PaidInv /\ [Next]_vars => NotYetCredited'
<1> SUFFICES ASSUME PaidInv, [Next]_vars PROVE NotYetCredited'
  OBVIOUS
<1>0. TypeOK /\ AtHand /\ Seen /\ Kinds /\ Ledger /\ NotYetCredited
  BY DEF PaidInv, SeenInv, MarkInv, Shape
<1> USE DEF rows, money, users, timers, object, send, proc
<1>1. ASSUME UNCHANGED <<credited, status, todo, cur>>,
             ppc' \in {"work", "save", "write", "settle"} =>
               ppc \in {"work", "save", "write", "settle"},
             ppc' = "settled" => ppc = "settled"
      PROVE  NotYetCredited'
  BY <1>0, <1>1 DEF NotYetCredited
<1>2. CASE UNCHANGED vars \/ Time
  BY <1>1, <1>2 DEF vars, Time, ElapseBatch, Elapse
<1>3. ASSUME NEW r \in Requests, CreateRequest(r) \/ ConfirmSave(r) PROVE NotYetCredited'
  BY <1>0, <1>3 DEF CreateRequest, ConfirmSave, NotYetCredited, Seen, Untouched, TypeOK
<1>4. ASSUME NEW r \in Requests, ConfirmRead(r) \/ CancelRead(r) \/ CancelCheck(r)
                                 \/ CancelSaveReads(r)
      PROVE  NotYetCredited'
  BY <1>1, <1>4 DEF ConfirmRead, CancelRead, CancelCheck, CancelSaveReads
<1>5. ASSUME NEW r \in Requests, CancelSaveWrites(r) PROVE NotYetCredited'
  <2>1. Result(cancel[r].old, "canceled") \notin Pending \cup Untouched
    BY <1>0, CancelResult DEF TypeOK, Final, Pending, Untouched
  <2> QED BY <1>0, <1>5, <2>1 DEF CancelSaveWrites, NotYetCredited, TypeOK
<1>6. CASE Scan \/ EndScan \/ FlushBatch \/ Crash
  BY <1>0, <1>6 DEF Scan, EndScan, FlushBatch, Crash, Found, AllPending, NotYetCredited
<1>7. ASSUME NEW r \in Requests, Pick(r) \/ PassOver(r) PROVE NotYetCredited'
  BY <1>0, <1>7 DEF Pick, PassOver, NotYetCredited
<1>8. CASE SaveReads \/ AcceptWithdraw \/ PreProcessingWithdraw \/ SettleReads \/ SettleDone
           \/ WaitForTimeout \/ TransactionRefused \/ TransactionFails \/ LinkReads
           \/ CreateTransaction \/ MarkRejected
  BY <1>1, <1>8 DEF SaveReads, AcceptWithdraw, PreProcessingWithdraw, SettleReads, SettleDone,
     WaitForTimeout, TransactionRefused, TransactionFails, LinkReads, CreateTransaction,
     MarkRejected, Charging
<1>9. CASE SaveWrites
  BY <1>0, <1>9 DEF SaveWrites, NotYetCredited, AtHand, Busy, TypeOK
<1>10. CASE Settle
  <2>1. cur \in Requests /\ cur \notin todo
    BY <1>0, <1>10 DEF Settle, AtHand, Busy
  <2> QED BY <1>0, <1>10, <2>1 DEF Settle, NotYetCredited, TypeOK, Pending, Untouched
<1>11. CASE LinkWrites
  <2>1. credited[cur] = 0 /\ \A r \in Requests \ {cur} : status'[r] = status[r]
    BY <1>0, <1>11 DEF LinkWrites, Kinds, Ledger, AtHand, Busy, TypeOK
  <2> QED BY <1>0, <1>11, <2>1 DEF LinkWrites, NotYetCredited
<1>12. CASE MarkSending \/ Validate \/ HotWalletSends \/ NothingToSend \/ SendFails
            \/ FinishReads
  BY <1>1, <1>12 DEF MarkSending, Validate, HotWalletSends, NothingToSend, SendFails,
     FinishReads, SendOver
<1>13. CASE FinishWrites
  <2>1. \A r \in Requests : Result(old[r], "sent") \notin Pending \cup Untouched
    BY <1>0, SendResult DEF TypeOK, Final, Pending, Untouched
  <2> QED BY <1>0, <1>13, <2>1 DEF FinishWrites, SendOver, NotYetCredited, TypeOK
<1> QED BY <1>2, <1>3, <1>4, <1>5, <1>6, <1>7, <1>8, <1>9, <1>10, <1>11, <1>12, <1>13
        DEF Next, Users, Processor

LEMMA PaidStep == PaidInv /\ [Next]_vars => PaidInv'
BY SeenStep, MarkStep, LedgerStep, SentStep, CreditedStep DEF PaidInv

LEMMA PaidInit == Init => PaidInv
<1> SUFFICES ASSUME Init PROVE Ledger /\ NotYetSent /\ NotYetCredited
  BY SeenInit, MarkInit DEF PaidInv
<1> QED BY DEF Init, Ledger, NotYetSent, NotYetCredited

\* A request is paid at most once and only when it was charged.
LEMMA PaidOnce == PaidInv => PaidOnceIfCharged
<1> SUFFICES ASSUME PaidInv, NEW r \in Requests PROVE debit[r] <= 1 /\ Paid(r) <= debit[r]
  BY DEF PaidOnceIfCharged
<1>1. onchain[r] \in Nat /\ credited[r] \in Nat /\ debit[r] \in Nat
  BY DEF PaidInv, MarkInv, Shape, TypeOK
<1> QED BY <1>1 DEF PaidInv, Ledger, Paid

\* No request is paid twice or without its charge, through retries, restarts, lost
\* batches, cancels and answers of the hot wallet that never came.
THEOREM PaidAtMostOnce == Spec => []PaidOnceIfCharged
BY PaidInit, PaidStep, PaidOnce, PTL DEF Spec

-----------------------------------------------------------------------------
(* What the rows say of the payment *)

\* The row of r, or what a running save() has read of it, shows a payment,
Shown(r) ==
  status[r] \in Committed \/ auto[r] = "done" \/ cancel[r].old \in Committed
  \/ old[r] \in Committed

\* or a rejection.
Refused(r) ==
  status[r] = "rejected" \/ cancel[r].old = "rejected" \/ old[r] = "rejected"

\* No round takes up r again, or goes on with it.
Closed(r) ==
  /\ status[r] \in {"rejected", "canceled"} /\ r \notin todo \cup batch \cup sending
  /\ ~ (ppc \in Busy \ {"reject"} /\ cur = r)

\* What was rejected is marked failed, unless the command is killed before that.
Told ==
  \A r \in Requests : /\ Shown(r) => Paid(r) = 1
                      /\ Refused(r) => Paid(r) = 0 /\ (auto[r] = "failed" \/ Closed(r))

\* A payment is not undone, and nothing more happens to what is marked failed.
Settled ==
  \A r \in Requests :
    /\ Paid(r) = 1 => Paid(r)' = 1
    /\ auto[r] = "failed" => auto'[r] = "failed" /\ Paid(r)' = Paid(r)

LEMMA SettledStep == PaidInv /\ [Next]_vars => Settled
<1> SUFFICES ASSUME PaidInv, [Next]_vars, NEW r \in Requests
             PROVE  /\ Paid(r) = 1 => Paid(r)' = 1
                    /\ auto[r] = "failed" => auto'[r] = "failed" /\ Paid(r)' = Paid(r)
  BY DEF Settled
<1>0. TypeOK /\ AtHand /\ InHand /\ Marks /\ Kinds /\ Ledger /\ NotYetSent /\ NotYetCredited
  BY DEF PaidInv, MarkInv, Shape
<1> USE DEF rows, money, users, timers, object, send, proc
<1>1. CASE UNCHANGED <<onchain, credited, auto>>
  BY <1>1 DEF Paid
<1>2. CASE /\ ppc \in Busy /\ UNCHANGED <<onchain, credited>>
           /\ \E a : auto' = [auto EXCEPT ![cur] = a]
  <2>1. cur # r \/ auto[r] # "failed"
    BY <1>0, <1>2 DEF Marks, AutomaticRetry
  <2>2. auto[r] = "failed" => auto'[r] = "failed"
    BY <1>0, <1>2, <2>1 DEF TypeOK
  <2> QED BY <1>2, <2>2 DEF Paid
<1>3. ASSUME NEW u \in Requests, Pick(u)
      PROVE  /\ Paid(r) = 1 => Paid(r)' = 1
             /\ auto[r] = "failed" => auto'[r] = "failed" /\ Paid(r)' = Paid(r)
  BY <1>0, <1>3 DEF Pick, Paid, TypeOK
<1>4. CASE MarkRejected \/ AcceptWithdraw \/ SettleDone \/ TransactionFails \/ MarkSending
  BY <1>1, <1>2, <1>4 DEF MarkRejected, AcceptWithdraw, SettleDone, TransactionFails, MarkSending,
     Charging, Busy
<1>5. CASE Settle
  <2>1. cur \in Requests /\ auto[cur] \in AutomaticRetry /\ onchain[cur] = 0 /\ credited[cur] = 0
    BY <1>0, <1>5 DEF Settle, AtHand, Busy, Marks, NotYetSent, NotYetCredited
  <2>2. CASE r = cur
    BY <1>0, <1>5, <2>1, <2>2 DEF Settle, Paid, AutomaticRetry, TypeOK
  <2>3. CASE r # cur
    <3>1. onchain'[r] = onchain[r] /\ credited'[r] = credited[r] /\ auto'[r] = auto[r]
      BY <1>0, <1>5, <2>3 DEF Settle, TypeOK
    <3> QED BY <3>1 DEF Paid
  <2> QED BY <2>2, <2>3
<1>6. CASE HotWalletSends \/ NothingToSend \/ SendFails \/ FinishWrites
  <2>1. CASE r \in sending
    <3>1. auto[r] = "sending" /\ credited[r] = 0 /\ credited' = credited
      BY <1>0, <1>6, <2>1 DEF Marks, Kinds, Ledger, HotWalletSends, NothingToSend, SendFails,
         FinishWrites
    <3>2. onchain[r] = 1 => onchain'[r] = 1
      BY <1>0, <1>6, <2>1 DEF HotWalletSends, NothingToSend, SendFails, FinishWrites, Sent,
         NotYetSent, TypeOK
    <3> QED BY <1>0, <3>1, <3>2 DEF Paid, TypeOK
  <2>2. CASE r \notin sending
    <3>1. onchain'[r] = onchain[r] /\ credited'[r] = credited[r] /\ auto'[r] = auto[r]
      BY <1>0, <1>6, <2>2 DEF HotWalletSends, NothingToSend, SendFails, FinishWrites, Sent,
         InHand, TypeOK
    <3> QED BY <3>1 DEF Paid
  <2> QED BY <2>1, <2>2
<1> QED BY <1>1, <1>3, <1>4, <1>5, <1>6
  DEF Next, Users, Time, Processor, vars, CreateRequest, ConfirmRead, ConfirmSave, CancelRead,
      CancelCheck, CancelSaveReads, CancelSaveWrites, ElapseBatch, Elapse, Scan, EndScan,
      FlushBatch, PassOver, SaveReads, SaveWrites, PreProcessingWithdraw, SettleReads, WaitForTimeout,
      CreateTransaction, TransactionRefused, LinkReads, LinkWrites, Validate, FinishReads, Crash

\* A rejected request stays closed, whatever a running save() has read of it.
LEMMA ClosedStep ==
  ASSUME PaidInv, [Next]_vars, NEW r \in Requests, Closed(r), ~ Shown(r)
  PROVE  Closed(r)' /\ Paid(r)' = Paid(r)
<1>0. TypeOK /\ AtHand /\ InHand /\ Seen
  BY DEF PaidInv, SeenInv, Shape
<1> USE DEF rows, money, users, timers, object, send, proc
<1> DEFINE Goal == Closed(r)' /\ Paid(r)' = Paid(r)
<1>1. ASSUME status'[r] \in {"rejected", "canceled"}, r \notin todo' \cup batch' \cup sending',
             ~ (ppc' \in Busy \ {"reject"} /\ cur' = r),
             onchain'[r] = onchain[r], credited'[r] = credited[r]
      PROVE  Goal
  BY <1>1 DEF Closed, Paid
<1>2. CASE UNCHANGED vars \/ Time
  BY <1>1, <1>2 DEF vars, Time, ElapseBatch, Elapse, Closed
<1>3. ASSUME NEW u \in Requests, CreateRequest(u) \/ ConfirmSave(u) PROVE Goal
  <2>1. u # r
    BY <1>0, <1>3 DEF CreateRequest, ConfirmSave, Seen, Closed
  <2>2. status'[r] = status[r]
    BY <1>0, <1>3, <2>1 DEF CreateRequest, ConfirmSave, TypeOK
  <2> QED BY <1>1, <1>3, <2>2 DEF CreateRequest, ConfirmSave, Closed
<1>4. ASSUME NEW u \in Requests, ConfirmRead(u) \/ CancelRead(u) \/ CancelCheck(u)
                                 \/ CancelSaveReads(u)
      PROVE  Goal
  BY <1>1, <1>4 DEF ConfirmRead, CancelRead, CancelCheck, CancelSaveReads, Closed
<1>5. ASSUME NEW u \in Requests, CancelSaveWrites(u) PROVE Goal
  <2>1. Result(cancel[r].old, "canceled") \in {"rejected", "canceled"}
    BY <1>0, CancelResult DEF Shown, Committed, Final, TypeOK
  <2>2. status'[r] \in {"rejected", "canceled"}
    BY <1>0, <1>5, <2>1 DEF CancelSaveWrites, Closed, TypeOK
  <2> QED BY <1>1, <1>5, <2>2 DEF CancelSaveWrites, Closed
<1>6. CASE Scan \/ EndScan \/ FlushBatch \/ Crash
  BY <1>1, <1>6 DEF Scan, EndScan, FlushBatch, Crash, Found, AllPending, Pending, Busy, Closed
<1>7. ASSUME NEW u \in Requests, Pick(u) \/ PassOver(u) PROVE Goal
  BY <1>1, <1>7 DEF Pick, PassOver, Busy, Closed
<1>9. CASE SaveReads \/ AcceptWithdraw \/ PreProcessingWithdraw \/ SettleReads \/ SettleDone
           \/ WaitForTimeout \/ TransactionRefused \/ TransactionFails \/ LinkReads
           \/ CreateTransaction
  <2>1. cur # r
    BY <1>9 DEF SaveReads, AcceptWithdraw, PreProcessingWithdraw, SettleReads, SettleDone,
       WaitForTimeout, TransactionRefused, TransactionFails, LinkReads, CreateTransaction,
       Charging, Busy, Closed
  <2> QED BY <1>1, <1>9, <2>1 DEF SaveReads, AcceptWithdraw, PreProcessingWithdraw, SettleReads,
       SettleDone, WaitForTimeout, TransactionRefused, TransactionFails, LinkReads,
       CreateTransaction, Charging, Closed
<1>10. CASE SaveWrites \/ Settle \/ LinkWrites \/ MarkSending
  <2>1. cur # r
    BY <1>10 DEF SaveWrites, Settle, LinkWrites, MarkSending, Busy, Closed
  <2>2. status'[r] = status[r] /\ credited'[r] = credited[r]
    BY <1>0, <1>10, <2>1 DEF SaveWrites, Settle, LinkWrites, MarkSending, TypeOK
  <2> QED BY <1>1, <1>10, <2>1, <2>2 DEF SaveWrites, Settle, LinkWrites, MarkSending, Closed
<1>11. CASE MarkRejected
  BY <1>1, <1>11 DEF MarkRejected, Busy, Closed
<1>12. CASE Validate \/ HotWalletSends \/ NothingToSend \/ SendFails \/ FinishReads
            \/ FinishWrites
  <2>1. r \notin valid
    BY <1>0 DEF InHand, Closed
  <2>2. status'[r] = status[r] /\ onchain'[r] = onchain[r] /\ credited' = credited
    BY <1>0, <1>12, <2>1 DEF Validate, HotWalletSends, NothingToSend, SendFails, FinishReads,
       FinishWrites, Sent, TypeOK
  <2> QED BY <1>1, <1>12, <2>2 DEF Validate, HotWalletSends, NothingToSend, SendFails,
          FinishReads, FinishWrites, SendOver, Busy, Closed
<1> QED BY <1>2, <1>3, <1>4, <1>5, <1>6, <1>7, <1>9, <1>10, <1>11, <1>12
        DEF Next, Users, Processor

LEMMA ToldStep == PaidInv /\ Told /\ [Next]_vars => Told'
<1> SUFFICES ASSUME PaidInv, Told, [Next]_vars PROVE Told'
  OBVIOUS
<1>a. Settled
  BY SettledStep
<1>b. ASSUME NEW r \in Requests, Refused(r)
      PROVE  Paid(r)' = 0 /\ (auto'[r] = "failed" \/ Closed(r)')
  <2>1. Paid(r) = 0 /\ ~ Shown(r) /\ (auto[r] = "failed" \/ Closed(r))
    BY <1>b DEF Told
  <2> QED BY <1>a, <2>1, ClosedStep DEF Settled
<1> SUFFICES ASSUME NEW r \in Requests
             PROVE  /\ Shown(r)' => Shown(r) \/ Paid(r)' = 1
                    /\ Refused(r)' => Refused(r) \/ (Closed(r)' /\ Paid(r)' = 0)
  BY <1>a, <1>b DEF Told, Settled
<1>0. TypeOK /\ AtHand /\ InHand /\ Seen /\ Marks /\ Kinds /\ Ledger /\ NotYetSent
      /\ NotYetCredited
  BY DEF PaidInv, SeenInv, MarkInv, Shape
<1> USE DEF rows, money, users, timers, object, send, proc
<1> DEFINE Goal == /\ Shown(r)' => Shown(r) \/ Paid(r)' = 1
                   /\ Refused(r)' => Refused(r) \/ (Closed(r)' /\ Paid(r)' = 0)
\* A step that shows nothing new of r
<1>1. ASSUME status'[r] = status[r] \/ status'[r] \notin Committed \cup {"rejected"},
             cancel'[r] = cancel[r] \/ cancel'[r].old = status[r] \/ cancel'[r].old = "none"
             \/ cancel'[r].old = cancel[r].old,
             old'[r] = old[r] \/ old'[r] = status[r] \/ old'[r] = "none",
             auto'[r] = auto[r] \/ auto'[r] # "done"
      PROVE  Goal
  BY <1>1 DEF Shown, Refused, Committed
<1>2. CASE UNCHANGED vars \/ Time
  BY <1>1, <1>2 DEF vars, Time, ElapseBatch, Elapse
<1>3. ASSUME NEW u \in Requests, CreateRequest(u) \/ ConfirmRead(u) \/ ConfirmSave(u)
      PROVE  Goal
  BY <1>0, <1>1, <1>3 DEF CreateRequest, ConfirmRead, ConfirmSave, TypeOK, Committed
<1>4. ASSUME NEW u \in Requests, CancelRead(u) \/ CancelCheck(u) \/ CancelSaveReads(u)
      PROVE  Goal
  <2>1. cancel'[r] = cancel[r] \/ cancel'[r].old = status[r] \/ cancel'[r].old = cancel[r].old
    BY <1>0, <1>4 DEF CancelRead, CancelCheck, CancelSaveReads, TypeOK
  <2> QED BY <1>1, <1>4, <2>1 DEF CancelRead, CancelCheck, CancelSaveReads
<1>5. ASSUME NEW u \in Requests, CancelSaveWrites(u) PROVE Goal
  <2>1. /\ u # r => status'[r] = status[r] /\ cancel'[r] = cancel[r]
        /\ u = r => /\ status'[r] \in {cancel[r].old, "canceled"}
                    /\ cancel'[r].old = "none"
    BY <1>0, <1>5, CancelResult DEF CancelSaveWrites, NoCancel, TypeOK
  <2> QED BY <1>5, <2>1 DEF CancelSaveWrites, Shown, Refused, Committed
<1>6. CASE Scan \/ EndScan \/ FlushBatch \/ Crash \/ PreProcessingWithdraw \/ WaitForTimeout
           \/ TransactionRefused \/ CreateTransaction \/ Validate \/ HotWalletSends
  BY <1>0, <1>1, <1>6 DEF Scan, EndScan, FlushBatch, Crash, PreProcessingWithdraw,
     WaitForTimeout, TransactionRefused, CreateTransaction, Validate, HotWalletSends, NoOld
<1>7. ASSUME NEW u \in Requests, Pick(u) \/ PassOver(u) PROVE Goal
  <2>1. auto'[r] = auto[r] \/ auto'[r] = "new"
    BY <1>0, <1>7 DEF Pick, PassOver, TypeOK
  <2> QED BY <1>1, <1>7, <2>1 DEF Pick, PassOver
<1>8. CASE SaveReads \/ LinkReads \/ SettleReads \/ FinishReads
  <2>1. old'[r] = old[r] \/ old'[r] = status[r] \/ old'[r] = "none"
    BY <1>0, <1>8 DEF SaveReads, LinkReads, SettleReads, FinishReads, TypeOK
  <2> QED BY <1>1, <1>8, <2>1 DEF SaveReads, LinkReads, SettleReads, FinishReads
<1>9. CASE SaveWrites
  <2>1. /\ cur # r => status'[r] = status[r]
        /\ cur = r /\ want # "rejected" =>
             status'[r] \in {old[r], "waiting", "accepted", "processing"}
        /\ cur = r /\ want = "rejected" => status'[r] = "rejected" /\ ppc' = "reject"
        /\ old'[r] = "none"
    BY <1>0, <1>9, SaveResult DEF SaveWrites, AtHand, Busy, NoOld, TypeOK
  <2>2. cur = r => Paid(r)' = 0 /\ r \notin todo' \cup batch' \cup sending'
    BY <1>0, <1>9 DEF SaveWrites, AtHand, Marks, Busy, AutomaticRetry, NotYetSent,
       NotYetCredited, Paid, TypeOK
  <2>3. cur = r /\ want = "rejected" => Closed(r)'
    BY <2>1, <2>2 DEF Closed
  <2> QED BY <1>9, <2>1, <2>2, <2>3 DEF SaveWrites, Shown, Refused, Committed
<1>10. CASE AcceptWithdraw \/ TransactionFails \/ MarkRejected \/ MarkSending
  <2>1. auto'[r] = auto[r] \/ auto'[r] # "done"
    BY <1>0, <1>10 DEF AcceptWithdraw, TransactionFails, MarkRejected, MarkSending, TypeOK
  <2> QED BY <1>1, <1>10, <2>1 DEF AcceptWithdraw, TransactionFails, MarkRejected, MarkSending
<1>11. CASE Settle
  <2>1. CASE cur = r /\ credited'[r] = credited[r] + 1
    <3>1. Paid(r)' = 1
      BY <1>0, <1>11, <2>1 DEF Settle, Kinds, Ledger, NotYetCredited, Paid, TypeOK
    <3>2. status'[r] = "done" /\ old'[r] = "none"
      BY <1>0, <1>11, <2>1 DEF Settle, NoOld, TypeOK
    <3> QED BY <1>11, <3>1, <3>2 DEF Settle, Refused
  <2>2. CASE status'[r] = status[r] /\ auto'[r] \in {auto[r], "failed"}
    <3>1. old'[r] = "none"
      BY <1>11 DEF Settle, NoOld
    <3> QED BY <1>1, <1>11, <2>2, <3>1 DEF Settle
  <2> QED BY <1>0, <1>11, <2>1, <2>2 DEF Settle, AtHand, Busy, TypeOK
<1>12. CASE SettleDone
  <2>1. cur = r => Paid(r)' = 1
    BY <1>0, <1>12 DEF SettleDone, Kinds, Ledger, NotYetCredited, Paid, TypeOK
  <2>2. cur # r => auto'[r] = auto[r]
    BY <1>0, <1>12 DEF SettleDone, TypeOK
  <2> QED BY <1>12, <2>1, <2>2 DEF SettleDone, Shown, Refused
<1>13. CASE LinkWrites
  <2>1. status'[r] \in {status[r], old[r]} /\ old'[r] = "none"
    BY <1>0, <1>13 DEF LinkWrites, NoOld, TypeOK
  <2> QED BY <1>13, <2>1 DEF LinkWrites, Shown, Refused, Committed
<1>14. CASE NothingToSend \/ SendFails
  <2>1. auto'[r] \in {auto[r], "failed"} /\ old'[r] = "none"
    BY <1>0, <1>14 DEF NothingToSend, SendFails, SendOver, NoOld
  <2> QED BY <1>1, <1>14, <2>1 DEF NothingToSend, SendFails
<1>15. CASE FinishWrites
  <2>1. old'[r] = "none" /\ UNCHANGED <<money, cancel>>
    BY <1>15 DEF FinishWrites, SendOver, NoOld
  <2>2. CASE r \in valid
    <3>1. Paid(r)' = 1
      BY <1>0, <1>15, <2>1, <2>2 DEF FinishWrites, InHand, Kinds, Ledger, NotYetSent, Paid,
         TypeOK
    <3>2. status'[r] \in {old[r], "sent"}
      BY <1>0, <1>15, <2>2, SendResult DEF FinishWrites, TypeOK
    <3> QED BY <2>1, <3>1, <3>2 DEF Refused
  <2>3. CASE r \notin valid
    <3>1. status'[r] = status[r] /\ auto'[r] \in {auto[r], "failed"}
      BY <1>15, <2>3 DEF FinishWrites
    <3> QED BY <1>1, <2>1, <3>1
  <2> QED BY <2>2, <2>3
<1> QED BY <1>2, <1>3, <1>4, <1>5, <1>6, <1>7, <1>8, <1>9, <1>10, <1>11, <1>12, <1>13, <1>14,
           <1>15
        DEF Next, Users, Processor

LEMMA ToldInit == Init => Told
BY DEF Init, Told, Shown, Refused, NoOld, NoCancel, Paid, Committed

\* What the rows say of a payment is true: no stale object that is saved, and no
\* answer of the hot wallet, shows as paid what is not, or as rejected what is.
THEOREM RowsTellPayment == Spec => []StatusTellsPayment
<1>1. Told => StatusTellsPayment
  BY DEF Told, Shown, Refused, StatusTellsPayment
<1> QED BY <1>1, PaidInit, PaidStep, ToldInit, ToldStep, PTL DEF Spec

-----------------------------------------------------------------------------
(* What was charged is not lost *)

\* Without a restart, a request that was charged and not paid is on its way through
\* the steps of the round or the batch, or marked failed.
OnItsWay(r) ==
  r \in batch \cup sending \/ (cur = r /\ ppc \in {"link", "linking", "mark"})

Track ==
  crashes = 0 =>
    \A r \in Requests : debit[r] > Paid(r) => OnItsWay(r) \/ auto[r] = "failed"

LEMMA TrackStep == PaidInv /\ Track /\ [Next]_vars => Track'
<1> SUFFICES ASSUME PaidInv, Track, [Next]_vars, NEW r \in Requests,
                    crashes' = 0, debit'[r] > Paid(r)'
             PROVE  OnItsWay(r)' \/ auto'[r] = "failed"
  BY DEF Track
<1>0. TypeOK /\ AtHand /\ InHand /\ Marks /\ Kinds /\ Ledger /\ NotYetSent /\ NotYetCredited
  BY DEF PaidInv, MarkInv, Shape
<1> USE DEF rows, money, users, timers, object, send, proc
<1> DEFINE Goal == OnItsWay(r)' \/ auto'[r] = "failed"
<1>1. Settled
  BY SettledStep
<1>2. ASSUME crashes' = crashes, UNCHANGED money,
             OnItsWay(r) => OnItsWay(r)' \/ auto'[r] = "failed"
      PROVE  Goal
  <2>1. OnItsWay(r) \/ auto[r] = "failed"
    BY <1>2 DEF Track, Paid
  <2> QED BY <1>1, <1>2, <2>1 DEF Settled
<1>3. CASE UNCHANGED vars \/ Users \/ Time
  BY <1>2, <1>3 DEF vars, Users, Time, CreateRequest, ConfirmRead, ConfirmSave, CancelRead,
     CancelCheck, CancelSaveReads, CancelSaveWrites, ElapseBatch, Elapse, OnItsWay
<1>4. CASE Scan \/ EndScan \/ FlushBatch \/ \E u \in Requests : Pick(u) \/ PassOver(u)
  BY <1>0, <1>2, <1>4 DEF Scan, EndScan, FlushBatch, Pick, PassOver, OnItsWay, InHand
<1>5. CASE SaveReads \/ SaveWrites \/ AcceptWithdraw \/ PreProcessingWithdraw \/ SettleReads
           \/ SettleDone \/ WaitForTimeout \/ TransactionRefused \/ TransactionFails
           \/ MarkRejected
  BY <1>2, <1>5 DEF SaveReads, SaveWrites, AcceptWithdraw, PreProcessingWithdraw, SettleReads,
     SettleDone, WaitForTimeout, TransactionRefused, TransactionFails, MarkRejected, Charging,
     OnItsWay
<1>6. CASE LinkReads \/ LinkWrites \/ Validate \/ FinishReads
  BY <1>2, <1>6 DEF LinkReads, LinkWrites, Validate, FinishReads, OnItsWay
<1>7. CASE MarkSending
  BY <1>0, <1>2, <1>7 DEF MarkSending, OnItsWay, InHand
<1>8. CASE CreateTransaction
  <2>1. CASE r = cur
    BY <1>8, <2>1 DEF CreateTransaction, OnItsWay
  <2>2. CASE r # cur
    <3>1. debit'[r] = debit[r] /\ Paid(r)' = Paid(r) /\ UNCHANGED <<crashes, auto>>
      BY <1>0, <1>8, <2>2 DEF CreateTransaction, Paid, TypeOK
    <3> QED BY <1>8, <2>2, <3>1 DEF CreateTransaction, Track, OnItsWay
  <2> QED BY <2>1, <2>2
<1>9. CASE Settle
  <2>1. CASE r = cur /\ credited' # credited
    BY <1>0, <1>9, <2>1 DEF Settle, Kinds, Ledger, NotYetCredited, Paid, TypeOK
  <2>2. CASE debit'[r] = debit[r] /\ credited'[r] = credited[r]
    <3>1. Paid(r)' = Paid(r) /\ UNCHANGED <<crashes, batch, sending>>
      BY <1>9, <2>2 DEF Settle, Paid
    <3>2. OnItsWay(r) \/ auto[r] = "failed"
      BY <2>2, <3>1 DEF Track
    <3> QED BY <1>1, <1>9, <3>1, <3>2 DEF Settle, OnItsWay, Settled
  <2> QED BY <1>0, <1>9, <2>1, <2>2 DEF Settle, TypeOK
<1>10. CASE HotWalletSends \/ SendFails
  <2>1. UNCHANGED <<crashes, debit, credited, batch, cur>>
    BY <1>10 DEF HotWalletSends, SendFails, SendOver
  <2>2. CASE r \in sending
    BY <1>10, <2>2 DEF HotWalletSends, SendFails, OnItsWay
  <2>3. CASE r \notin sending
    <3>1. onchain'[r] = onchain[r]
      BY <1>0, <1>10, <2>3 DEF HotWalletSends, SendFails, Sent, InHand, TypeOK
    <3>2. OnItsWay(r) \/ auto[r] = "failed"
      BY <2>1, <3>1 DEF Track, Paid
    <3> QED BY <1>1, <1>10, <2>1, <2>3, <3>2 DEF HotWalletSends, SendFails, OnItsWay, Settled
  <2> QED BY <2>2, <2>3
<1>11. CASE NothingToSend
  BY <1>2, <1>11 DEF NothingToSend, SendOver, OnItsWay
<1>12. CASE FinishWrites
  <2>1. r \notin valid
    BY <1>0, <1>12 DEF FinishWrites, SendOver, InHand, Kinds, Ledger, NotYetSent, Paid, TypeOK
  <2> QED BY <1>2, <1>12, <2>1 DEF FinishWrites, SendOver, OnItsWay
<1>13. CASE Crash
  BY <1>0, <1>13 DEF Crash, TypeOK
<1> QED BY <1>3, <1>4, <1>5, <1>6, <1>7, <1>8, <1>9, <1>10, <1>11, <1>12, <1>13
        DEF Next, Processor

LEMMA TrackInit == Init => Track
BY DEF Init, Track, Paid

\* As long as the command is not restarted, no charge is lost from sight: between
\* rounds its request is in the batch or marked failed for an operator.
THEOREM ChargesAreTracked == Spec => []UnpaidIsTracked
<1>1. PaidInv /\ Track => UnpaidIsTracked
  BY DEF PaidInv, MarkInv, Shape, InHand, Marks, Track, OnItsWay, UnpaidIsTracked
<1> QED BY <1>1, PaidInit, PaidStep, TrackInit, TrackStep, PTL DEF Spec
=============================================================================
