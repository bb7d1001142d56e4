------------------------ MODULE TradeProcessorProofs ------------------------
(***************************************************************************)
(* Proofs about TradeProcessor, for any set of trades, any batch sizes and *)
(* any number of faults.                                                   *)
(***************************************************************************)
EXTENDS TradeProcessor, FiniteSetTheorems, TLAPS

\* The names of the references and of the states of a trade in a round.
LEMMA FieldNames ==
  /\ Deposits \subseteq Fields /\ Withdraws \subseteq Fields
  /\ Deposits \subseteq Progress
  /\ "ok" \in Progress /\ "wait" \in Progress /\ "none" \in Progress
  /\ "failed" \in Progress /\ "duplicate" \in Progress
  /\ "sell_deposit" \in Deposits /\ "buy_deposit" \in Deposits
  /\ "none" \notin Deposits /\ Deposits \cap Withdraws = {}
BY DEF Deposits, Withdraws, Fields, Progress

-----------------------------------------------------------------------------
(* Types *)

\* Every action of the daemon, the cron and the matcher keeps the types.
LEMMA TypeStep == TypeOK /\ [Next]_vars => TypeOK'
<1> SUFFICES ASSUME TypeOK, [Next]_vars PROVE TypeOK'
  OBVIOUS
<1> USE TradesAssumption, BoundsAssumption, FieldNames
<1>1. ASSUME NEW t \in Trades, CommitTrade(t) PROVE TypeOK'
  BY <1>1 DEF TypeOK, CommitTrade, ledger, store, round, cron
<1>2. ASSUME NEW t \in Trades, TurnHalfHour(t) PROVE TypeOK'
  BY <1>2 DEF TypeOK, TurnHalfHour, ledger, store, round, cron
<1>3. ASSUME NEW t \in Trades, TurnOld(t) PROVE TypeOK'
  BY <1>3 DEF TypeOK, TurnOld, ledger, store, round, cron
<1>4. ASSUME NEW t \in Trades, ExpireTxIds(t) PROVE TypeOK'
  BY <1>4 DEF TypeOK, ExpireTxIds, ledger, store, round, cron
<1>5. ASSUME LoseCache PROVE TypeOK'
  BY <1>5 DEF TypeOK, LoseCache, Fault, ledger, store, round, cron
<1>6. ASSUME StartRound PROVE TypeOK'
  <2>1. \A d \in SUBSET Trades, b \in SUBSET Trades :
          [t \in Trades |-> IF t \in b /\ \A u \in d : t < u THEN "wait" ELSE "none"]
            \in [Trades -> Progress]
    OBVIOUS
  <2>2. First(Fetched, BatchSize) \in SUBSET Trades
    BY DEF First, Fetched, TypeOK
  <2>3. prog' \in [Trades -> Progress]
    BY <1>6, <2>1, <2>2 DEF StartRound
  <2> QED BY <1>6, <2>2, <2>3 DEF TypeOK, StartRound, ledger, store, cron
<1>7. ASSUME NEW t \in Trades, StartTrade(t) PROVE TypeOK'
  BY <1>7 DEF TypeOK, StartTrade, ledger, store, round, cron
<1>8. ASSUME NEW t \in Trades, NEW f \in Deposits, Deposit(t, f)
      PROVE /\ txs' \in [Trades -> SUBSET Fields]
            /\ credit' \in [Trades -> [Deposits -> Nat]]
  BY <1>8 DEF TypeOK, Deposit
<1>9. ASSUME NEW t \in Trades, NEW f \in Deposits,
             NEW O \in [Trades -> SUBSET Fields]
      PROVE Referenced(O, t, f) \in SUBSET Fields /\ After(f) \in Progress
  BY DEF Referenced, After
<1>10. ASSUME NEW t \in Trades, MakeDeposit(t) PROVE TypeOK'
  <2> DEFINE f == prog[t]
  <2>1. /\ f \in Deposits /\ Deposit(t, f)
        /\ UNCHANGED <<committed, age, refs, store, pc, start, batch, ids, left,
                       lastIds, cron, seen, faults>>
    BY <1>10 DEF MakeDeposit
  <2>2. Referenced(obj, t, f) \in SUBSET Fields /\ After(f) \in Progress
    BY <1>9, <2>1 DEF TypeOK
  <2>3. prog' \in [Trades -> Progress] /\ obj' \in [Trades -> SUBSET Fields]
    <3>1. CASE Outcome(t, f) = "duplicate"
      BY <1>10, <3>1 DEF TypeOK, MakeDeposit
    <3>2. CASE Outcome(t, f) # "duplicate"
      BY <1>10, <2>2, <3>2 DEF TypeOK, MakeDeposit
    <3> QED BY <3>1, <3>2
  <2> HIDE DEF f
  <2> QED BY <1>8, <2>1, <2>3 DEF TypeOK, store, cron
<1>11. ASSUME NEW t \in Trades, DepositError(t) PROVE TypeOK'
  BY <1>11 DEF TypeOK, DepositError, Fault, ledger, store, round, cron
<1>12. ASSUME NEW t \in Trades, Collect(t) PROVE TypeOK'
  BY <1>12 DEF TypeOK, Collect, ledger, store, round, cron
<1>13. ASSUME SetCursor PROVE TypeOK'
  BY <1>13 DEF TypeOK, SetCursor, NewCursor, DstCurrencies, ledger, store, round, cron
<1>14. ASSUME BulkUpdateTrades PROVE TypeOK'
  BY <1>14 DEF TypeOK, BulkUpdateTrades, EndRound, NoProgress, NoObjects, ledger,
               store, cron
<1>15. ASSUME RoundFails \/ RoundRaises PROVE TypeOK'
  <2>1. EndRound /\ UNCHANGED <<committed, age, ledger, refs, store, cron, seen>>
    BY <1>15 DEF RoundFails, RoundRaises
  <2>2. faults' \in Nat /\ faults' <= MaxFaults
    BY <1>15 DEF RoundFails, RoundRaises, Fault, TypeOK
  <2> QED BY <2>1, <2>2 DEF TypeOK, EndRound, NoProgress, NoObjects, ledger, store, cron
<1>16. ASSUME CronStart PROVE TypeOK'
  BY <1>16 DEF TypeOK, CronStart, ledger, store, round
<1>17. ASSUME NEW b \in SUBSET Trades, CronSelect(b) PROVE TypeOK'
  <2>1. /\ cpc' \in {"idle", "select", "lookup", "create"}
        /\ window' \subseteq Trades /\ cbatch' \subseteq Trades
        /\ cprog' \in [Trades -> Progress]
        /\ cobj' \in [Trades -> SUBSET Fields]
        /\ seen' \subseteq Trades
    <3>1. CASE b = {}
      <4>1. CronRest /\ UNCHANGED seen
        BY <1>17, <3>1 DEF CronSelect
      <4> QED BY <4>1 DEF TypeOK, CronRest, NoProgress, NoObjects
    <3>2. CASE b # {}
      <4>1. /\ cbatch' = b /\ cpc' = "lookup" /\ cprog' = NoProgress
            /\ cobj' = [t \in Trades |-> IF t \in b THEN refs[t] ELSE {}]
            /\ seen' = seen \cup b /\ UNCHANGED window
        BY <1>17, <3>2 DEF CronSelect
      <4> QED BY <4>1 DEF TypeOK, NoProgress
    <3> QED BY <3>1, <3>2
  <2>2. UNCHANGED <<committed, age, ledger, refs, store, round, faults>>
    BY <1>17 DEF CronSelect
  <2> QED BY <2>1, <2>2 DEF TypeOK, ledger, store, round
<1>18. ASSUME CronLookup PROVE TypeOK'
  BY <1>18 DEF TypeOK, CronLookup, ledger, store, round
<1>19. ASSUME NEW t \in Trades, CronDeposit(t) PROVE TypeOK'
  <2>1. CASE cprog[t] \in cobj[t]
    <3>1. /\ After(cprog[t]) \in Progress
          /\ cprog' = [cprog EXCEPT ![t] = After(cprog[t])]
      BY <1>9, <1>19, <2>1 DEF TypeOK, CronDeposit
    <3>2. UNCHANGED <<ledger, cpc, window, cbatch, cobj, committed, age, refs,
                      store, round, seen, faults>>
      BY <1>19, <2>1 DEF CronDeposit
    <3> QED BY <3>1, <3>2 DEF TypeOK, ledger, store, round
  <2>2. CASE cprog[t] \notin cobj[t] /\ Outcome(t, cprog[t]) = "duplicate"
    <3>1. /\ cprog[t] \in Deposits /\ Deposit(t, cprog[t]) /\ CronRest
          /\ UNCHANGED <<committed, age, refs, store, round, seen, faults>>
      BY <1>19, <2>2 DEF CronDeposit
    <3> QED BY <1>8, <3>1 DEF TypeOK, CronRest, NoProgress, NoObjects, store, round
  <2>3. CASE cprog[t] \notin cobj[t] /\ Outcome(t, cprog[t]) # "duplicate"
    <3> DEFINE f == cprog[t]
    <3>1. /\ f \in Deposits /\ Deposit(t, f)
          /\ cprog' = [cprog EXCEPT ![t] = After(f)]
          /\ cobj' = [cobj EXCEPT ![t] = Referenced(cobj, t, f)]
          /\ UNCHANGED <<cpc, window, cbatch, committed, age, refs, store, round,
                         seen, faults>>
      BY <1>19, <2>3 DEF CronDeposit
    <3>2. Referenced(cobj, t, f) \in SUBSET Fields /\ After(f) \in Progress
      BY <1>9, <3>1 DEF TypeOK
    <3> HIDE DEF f
    <3> QED BY <1>8, <3>1, <3>2 DEF TypeOK, store, round
  <2> QED BY <2>1, <2>2, <2>3
<1>20. ASSUME CronSave PROVE TypeOK'
  BY ZenonT(30), <1>20 DEF TypeOK, CronSave, CronRest, NoProgress, NoObjects, ledger, store,
               round
<1>21. ASSUME CronFails PROVE TypeOK'
  BY <1>21 DEF TypeOK, CronFails, Fault, CronRest, NoProgress, NoObjects, ledger,
               store, round
<1>22. CASE UNCHANGED vars
  BY <1>22 DEF TypeOK, vars, ledger, store, round, cron
<1> QED
  BY <1>1, <1>2, <1>3, <1>4, <1>5, <1>6, <1>7, <1>10, <1>11, <1>12, <1>13, <1>14,
     <1>15, <1>16, <1>17, <1>18, <1>19, <1>20, <1>21, <1>22
  DEF Next, Step, DaemonStep, CronStep

\* Type correctness of every behaviour of the daemon, the cron and the matcher.
THEOREM TypeCorrect == Spec => []TypeOK
<1>1. Init => TypeOK
  BY BoundsAssumption, FieldNames DEF Init, TypeOK, NoProgress, NoObjects
<1> QED BY <1>1, TypeStep, PTL DEF Spec

-----------------------------------------------------------------------------
(* Every deposit is credited once *)

\* What the two properties need to be inductive: only committed trades have
\* transactions or are worked on, and a committed trade has its withdraws.
Settling ==
  /\ \A t \in Trades : txs[t] # {} => t \in committed
  /\ \A t \in committed : Withdraws \subseteq txs[t]
  /\ \A t \in Trades : prog[t] # "none" => t \in committed
  /\ window \subseteq committed /\ cbatch \subseteq committed
  /\ \A t \in Trades : cprog[t] # "none" => t \in cbatch

LedgerInv == TypeOK /\ CreditedOnce /\ RefsExist /\ Settling

\* A deposit keeps the ledger consistent whoever makes it, and only adds to the
\* transactions of its trade.
LEMMA DepositKeepsLedger ==
  ASSUME LedgerInv, NEW t \in committed, NEW f \in Deposits, Deposit(t, f),
         committed' = committed
  PROVE  /\ CreditedOnce'
         /\ \A u \in Trades : txs[u] \subseteq txs'[u]
         /\ \A u \in Trades : txs'[u] # {} => u \in committed
         /\ Outcome(t, f) = "made" => f \in txs'[t]
<1>0. t \in Trades
  BY DEF LedgerInv, TypeOK
<1>1. CASE Outcome(t, f) = "made"
  <2>1. /\ txs' = [txs EXCEPT ![t] = txs[t] \cup {f}]
        /\ credit' = [credit EXCEPT ![t][f] = credit[t][f] + 1]
    BY <1>1 DEF Deposit
  <2>2. f \notin txs[t]
    BY <1>1 DEF Outcome, Exists
  <2>3. CreditedOnce'
    BY <1>0, <2>1, <2>2 DEF LedgerInv, TypeOK, CreditedOnce
  <2> QED BY <1>0, <2>1, <2>3 DEF LedgerInv, TypeOK, Settling
<1>2. CASE Outcome(t, f) # "made"
  BY <1>2 DEF Deposit, LedgerInv, CreditedOnce, Settling
<1> QED BY <1>1, <1>2

\* Every step of the matcher, the daemon and the cron keeps the ledger
\* invariant.
LEMMA LedgerStep == LedgerInv /\ [Next]_vars => LedgerInv'
<1> SUFFICES ASSUME LedgerInv, [Next]_vars
             PROVE  CreditedOnce' /\ RefsExist' /\ Settling'
  BY TypeStep DEF LedgerInv
<1> USE FieldNames
<1>1. ASSUME NEW t \in Trades, CommitTrade(t)
      PROVE CreditedOnce' /\ RefsExist' /\ Settling'
  <2>1. /\ txs' = [txs EXCEPT ![t] = Withdraws] /\ t \notin committed
        /\ committed' = committed \cup {t}
        /\ UNCHANGED <<credit, refs, prog, obj, window, cbatch, cprog, cobj>>
    BY <1>1 DEF CommitTrade, round, cron
  <2>2. txs[t] = {}
    BY <2>1 DEF LedgerInv, Settling
  <2>3. CreditedOnce'
    BY <2>1, <2>2 DEF LedgerInv, TypeOK, CreditedOnce
  <2>4. RefsExist'
    BY <2>1, <2>2 DEF LedgerInv, TypeOK, RefsExist
  <2>5. Settling'
    BY <2>1, <2>2 DEF LedgerInv, TypeOK, Settling
  <2> QED BY <2>3, <2>4, <2>5
<1>2. ASSUME UNCHANGED <<committed, txs, credit, refs>>,
             \A t \in Trades : obj'[t] \subseteq txs[t] /\ cobj'[t] \subseteq txs[t],
             \A t \in Trades : prog'[t] # "none" => t \in committed,
             window' \subseteq committed, cbatch' \subseteq committed,
             \A t \in Trades : cprog'[t] # "none" => t \in cbatch'
      PROVE CreditedOnce' /\ RefsExist' /\ Settling'
  BY <1>2 DEF LedgerInv, CreditedOnce, RefsExist, Settling
<1>3. ASSUME UNCHANGED <<committed, txs, credit, refs, prog, obj, cron>>
      PROVE CreditedOnce' /\ RefsExist' /\ Settling'
  BY <1>2, <1>3 DEF LedgerInv, RefsExist, Settling, cron
<1>4. ASSUME NEW t \in Trades, TurnHalfHour(t) \/ TurnOld(t) \/ ExpireTxIds(t)
      PROVE CreditedOnce' /\ RefsExist' /\ Settling'
  BY <1>3, <1>4 DEF TurnHalfHour, TurnOld, ExpireTxIds, ledger, round
<1>5. ASSUME LoseCache \/ SetCursor PROVE CreditedOnce' /\ RefsExist' /\ Settling'
  BY <1>3, <1>5 DEF LoseCache, SetCursor, ledger, round
<1>6. ASSUME NEW t \in Trades, Collect(t)
      PROVE CreditedOnce' /\ RefsExist' /\ Settling'
  BY <1>3, <1>6 DEF Collect, ledger
<1>7. ASSUME StartRound PROVE CreditedOnce' /\ RefsExist' /\ Settling'
  <2>1. First(Fetched, BatchSize) \subseteq committed
    BY DEF First, Fetched
  <2>2. /\ \A t \in Trades : prog'[t] # "none" => t \in committed
        /\ obj' = refs
        /\ UNCHANGED <<committed, txs, credit, refs, cron>>
    BY <1>7, <2>1 DEF StartRound, ledger
  <2> QED BY <1>2, <2>2 DEF LedgerInv, RefsExist, Settling, cron
<1>8. ASSUME NEW t \in Trades, StartTrade(t)
      PROVE CreditedOnce' /\ RefsExist' /\ Settling'
  <2>1. Withdraws \subseteq txs[t]
    BY <1>8 DEF StartTrade, LedgerInv, Settling
  <2>2. \A u \in Trades : obj'[u] \subseteq txs[u]
    BY <1>8, <2>1 DEF StartTrade, LedgerInv, TypeOK, RefsExist
  <2>3. \A u \in Trades : prog'[u] # "none" => u \in committed
    BY <1>8 DEF StartTrade, LedgerInv, TypeOK, Settling
  <2>4. UNCHANGED <<committed, txs, credit, refs, cron>>
    BY <1>8 DEF StartTrade, ledger
  <2> QED BY <1>2, <2>2, <2>3, <2>4 DEF LedgerInv, RefsExist, Settling, cron
<1>9. ASSUME NEW t \in Trades, DepositError(t)
      PROVE CreditedOnce' /\ RefsExist' /\ Settling'
  <2>1. \A u \in Trades : prog'[u] # "none" => u \in committed
    BY <1>9 DEF DepositError, LedgerInv, TypeOK, Settling
  <2>2. UNCHANGED <<committed, txs, credit, refs, obj, cron>>
    BY <1>9 DEF DepositError, ledger
  <2> QED BY <1>2, <2>1, <2>2 DEF LedgerInv, RefsExist, Settling, cron
<1>10. ASSUME NEW t \in Trades, MakeDeposit(t)
       PROVE CreditedOnce' /\ RefsExist' /\ Settling'
  <2> DEFINE f == prog[t]
  <2>1. /\ f \in Deposits /\ t \in committed /\ Deposit(t, f)
        /\ UNCHANGED <<committed, refs, cron>>
    BY <1>10 DEF MakeDeposit, LedgerInv, Settling
  <2>2. /\ CreditedOnce' /\ \A u \in Trades : txs[u] \subseteq txs'[u]
        /\ \A u \in Trades : txs'[u] # {} => u \in committed
        /\ Outcome(t, f) = "made" => f \in txs'[t]
    BY <2>1, DepositKeepsLedger
  <2>3. \A u \in Trades : obj'[u] \subseteq txs'[u]
    BY <1>10, <2>2 DEF MakeDeposit, LedgerInv, TypeOK, RefsExist, Referenced
  <2>4. \A u \in Trades : prog'[u] # "none" => u \in committed
    BY <1>10, <2>1 DEF MakeDeposit, LedgerInv, TypeOK, Settling
  <2> HIDE DEF f
  <2>5. RefsExist' /\ Settling'
    BY <2>1, <2>2, <2>3, <2>4 DEF LedgerInv, TypeOK, RefsExist, Settling, cron
  <2> QED BY <2>2, <2>5
<1>11. ASSUME BulkUpdateTrades PROVE CreditedOnce' /\ RefsExist' /\ Settling'
  <2>1. \A t \in Trades : refs'[t] \in {refs[t], obj[t]}
    BY <1>11 DEF BulkUpdateTrades
  <2>2. /\ prog' = NoProgress /\ obj' = NoObjects
        /\ UNCHANGED <<committed, txs, credit, cron>>
    BY <1>11 DEF BulkUpdateTrades, EndRound, ledger
  <2> QED BY <2>1, <2>2 DEF LedgerInv, CreditedOnce, RefsExist, Settling, cron,
                            NoProgress, NoObjects
<1>12. ASSUME RoundFails \/ RoundRaises PROVE CreditedOnce' /\ RefsExist' /\ Settling'
  <2>1. /\ prog' = NoProgress /\ obj' = NoObjects
        /\ UNCHANGED <<committed, txs, credit, refs, cron>>
    BY <1>12 DEF RoundFails, RoundRaises, EndRound, ledger
  <2> QED BY <1>2, <2>1 DEF LedgerInv, RefsExist, Settling, cron, NoProgress, NoObjects
<1>13. ASSUME CronRest, UNCHANGED <<committed, txs, credit, refs, round>>
       PROVE CreditedOnce' /\ RefsExist' /\ Settling'
  BY <1>2, <1>13 DEF CronRest, NoProgress, NoObjects, LedgerInv, RefsExist, Settling,
                     round
<1>14. ASSUME CronStart PROVE CreditedOnce' /\ RefsExist' /\ Settling'
  <2>1. /\ window' \subseteq committed
        /\ UNCHANGED <<committed, txs, credit, refs, prog, obj, cbatch, cprog, cobj>>
    BY <1>14 DEF CronStart, ledger, round
  <2> QED BY <1>2, <2>1 DEF LedgerInv, RefsExist, Settling
<1>15. ASSUME NEW b \in SUBSET Trades, CronSelect(b)
       PROVE CreditedOnce' /\ RefsExist' /\ Settling'
  <2>1. /\ b \subseteq window
        /\ UNCHANGED <<committed, txs, credit, refs, round>>
    BY <1>15 DEF CronSelect, ledger
  <2>2. CASE b = {}
    BY <1>13, <1>15, <2>1, <2>2 DEF CronSelect
  <2>3. CASE b # {}
    <3>1. /\ cbatch' = b /\ cprog' = NoProgress
          /\ cobj' = [t \in Trades |-> IF t \in b THEN refs[t] ELSE {}]
          /\ UNCHANGED window
      BY <1>15, <2>3 DEF CronSelect
    <3> QED BY <1>2, <2>1, <3>1 DEF LedgerInv, RefsExist, Settling, NoProgress, round
  <2> QED BY <2>2, <2>3
<1>16. ASSUME CronLookup PROVE CreditedOnce' /\ RefsExist' /\ Settling'
  <2>1. /\ \A t \in Trades : cobj'[t] \subseteq txs[t]
        /\ \A t \in Trades : cprog'[t] # "none" => t \in cbatch
        /\ UNCHANGED <<committed, txs, credit, refs, prog, obj, window, cbatch>>
    BY <1>16 DEF CronLookup, ledger, round, LedgerInv, RefsExist
  <2> QED BY <1>2, <2>1 DEF LedgerInv, RefsExist, Settling
<1>17. ASSUME NEW t \in Trades, CronDeposit(t)
       PROVE CreditedOnce' /\ RefsExist' /\ Settling'
  <2> DEFINE f == cprog[t]
  <2>1. /\ f \in Deposits /\ t \in cbatch /\ t \in committed
        /\ UNCHANGED <<committed, refs, round>>
    BY <1>17 DEF CronDeposit, LedgerInv, Settling
  <2>2. CASE f \in cobj[t]
    <3>1. /\ cprog' = [cprog EXCEPT ![t] = After(f)]
          /\ UNCHANGED <<txs, credit, window, cbatch, cobj>>
      BY <1>17, <2>2 DEF CronDeposit, ledger
    <3> QED BY <1>2, <2>1, <3>1 DEF LedgerInv, TypeOK, RefsExist, Settling, round
  <2>3. CASE f \notin cobj[t] /\ Outcome(t, f) = "duplicate"
    <3>1. CronRest /\ UNCHANGED <<txs, credit>>
      BY <1>17, <2>3 DEF CronDeposit, Deposit
    <3> QED BY <1>13, <2>1, <3>1
  <2>4. CASE f \notin cobj[t] /\ Outcome(t, f) # "duplicate"
    <3>1. /\ Deposit(t, f)
          /\ cprog' = [cprog EXCEPT ![t] = After(f)]
          /\ cobj' = [cobj EXCEPT ![t] = Referenced(cobj, t, f)]
          /\ UNCHANGED <<window, cbatch>>
      BY <1>17, <2>4 DEF CronDeposit
    <3>2. /\ CreditedOnce' /\ \A u \in Trades : txs[u] \subseteq txs'[u]
          /\ \A u \in Trades : txs'[u] # {} => u \in committed
          /\ Outcome(t, f) = "made" => f \in txs'[t]
      BY <2>1, <3>1, DepositKeepsLedger
    <3>3. \A u \in Trades : cobj'[u] \subseteq txs'[u]
      BY <3>1, <3>2 DEF LedgerInv, TypeOK, RefsExist, Referenced
    <3>4. \A u \in Trades : cprog'[u] # "none" => u \in cbatch
      BY <2>1, <3>1 DEF LedgerInv, TypeOK, Settling
    <3> HIDE DEF f
    <3>5. RefsExist' /\ Settling'
      BY <2>1, <3>1, <3>2, <3>3, <3>4
      DEF LedgerInv, TypeOK, RefsExist, Settling, round
    <3> QED BY <3>2, <3>5
  <2> QED BY <2>2, <2>3, <2>4
<1>18. ASSUME CronSave PROVE CreditedOnce' /\ RefsExist' /\ Settling'
  <2>1. /\ \A t \in Trades : refs'[t] \in {refs[t], cobj[t]}
        /\ UNCHANGED <<committed, txs, credit, round>>
    BY <1>18 DEF CronSave, ledger
  <2>2. /\ cbatch' = {} /\ cprog' = NoProgress /\ cobj' = NoObjects
        /\ window' \in {window, {}}
    BY <1>18 DEF CronSave, CronRest
  <2> QED BY <2>1, <2>2 DEF LedgerInv, CreditedOnce, RefsExist, Settling, round,
                            NoProgress, NoObjects
<1>19. ASSUME CronFails PROVE CreditedOnce' /\ RefsExist' /\ Settling'
  BY <1>13, <1>19 DEF CronFails, ledger
<1>20. CASE UNCHANGED vars
  BY <1>3, <1>20 DEF vars, ledger, round
<1> QED
  BY <1>1, <1>4, <1>5, <1>6, <1>7, <1>8, <1>9, <1>10, <1>11, <1>12, <1>14, <1>15,
     <1>16, <1>17, <1>18, <1>19, <1>20
  DEF Next, Step, DaemonStep, CronStep

\* The ledger invariant holds before the first trade.
LEMMA LedgerInit == Init => LedgerInv
BY BoundsAssumption, FieldNames
DEF Init, LedgerInv, TypeOK, CreditedOnce, RefsExist, Settling, NoProgress, NoObjects

\* No deposit is credited twice or without its transaction, for any number of
\* trades, retries and faults.
THEOREM DepositsCreditedOnce == Spec => []CreditedOnce
<1>1. LedgerInv => CreditedOnce
  BY DEF LedgerInv
<1> QED BY <1>1, LedgerInit, LedgerStep, PTL DEF Spec

\* No row, and no object that is going to be written back, refers to a
\* transaction that does not exist.
THEOREM ReferencesExist == Spec => []RefsExist
<1>1. LedgerInv => RefsExist
  BY DEF LedgerInv
<1> QED BY <1>1, LedgerInit, LedgerStep, PTL DEF Spec

-----------------------------------------------------------------------------
(* The cursor overtakes no trade *)

Tried(t) == t \in seen \/ age[t] = "old"

\* n is a safe cursor: the trades up to n have been tried, and each destination
\* currency has a committed trade at or after n, so that no trade at or below
\* n can commit any more.
Safe(n) ==
  /\ \A t \in committed : t <= n => Tried(t)
  /\ n > 0 => \A c \in DstCurrencies : \E t \in committed : Dst[t] = c /\ t >= n

\* Whatever has references or is worked on has been fetched.
Visited ==
  /\ \A t \in Trades : refs[t] # {} => t \in seen
  /\ \A t \in Trades : prog[t] # "none" => t \in seen
  /\ cbatch \subseteq seen

\* During a round: a trade up to one of the batch with the same destination
\* currency has been tried, and the last id of a currency is one of the batch.
RoundSafe ==
  pc = "run" =>
    /\ batch \subseteq committed /\ left \subseteq batch
    /\ Safe(start)
    /\ \A b \in batch, t \in committed : t <= b /\ Dst[t] = Dst[b] => Tried(t)
    /\ \A c \in DstCurrencies :
         lastIds[c] = start \/ (lastIds[c] \in batch /\ Dst[lastIds[c]] = c)

CursorInv == Safe(cursor) /\ Visited /\ RoundSafe

\* The batch of a round is a prefix of what it could fetch, in order of ids.
LEMMA FirstIsPrefix ==
  ASSUME NEW S \in SUBSET Trades, NEW n \in Nat,
         NEW b \in First(S, n), NEW t \in S, t <= b
  PROVE  t \in First(S, n)
<1> DEFINE Below(x) == {u \in S : u < x}
<1>1. b \in Nat /\ t \in Nat /\ \A u \in S : u \in Nat
  BY TradesAssumption DEF First
<1>2. Below(t) \subseteq Below(b)
  <2>1. ASSUME NEW u \in S, u < t PROVE u < b
    BY <1>1, <2>1
  <2> QED BY <2>1
<1>3. IsFiniteSet(Below(b)) /\ IsFiniteSet(Below(t))
  BY TradesAssumption, FS_Subset
<1>4. Cardinality(Below(t)) <= Cardinality(Below(b))
  BY <1>2, <1>3, FS_Subset
<1>5. Cardinality(Below(t)) \in Nat /\ Cardinality(Below(b)) \in Nat
  BY <1>3, FS_CardinalityType
<1>6. Cardinality(Below(b)) < n
  BY DEF First
<1> QED BY <1>4, <1>5, <1>6 DEF First

\* Trades that have been tried stay so, and nothing but a commit of a matching
\* round adds a trade.
LEMMA TriedStays ==
  ASSUME TypeOK, [Next]_vars
  PROVE  /\ seen \subseteq seen'
         /\ \A t \in Trades : Tried(t) => Tried(t)'
         /\ committed' = committed \/ \E t \in Trades : CommitTrade(t)
<1>1. ASSUME NEW t \in Trades, TurnHalfHour(t) \/ TurnOld(t)
      PROVE /\ UNCHANGED <<committed, seen>>
            /\ \A u \in Trades : age[u] = "old" => age'[u] = "old"
  BY <1>1 DEF TurnHalfHour, TurnOld, TypeOK
<1>2. ASSUME NEW b \in SUBSET Trades, CronSelect(b)
      PROVE UNCHANGED <<committed, age>> /\ seen \subseteq seen'
  <2>1. seen' = seen \/ seen' = seen \cup b
    BY <1>2 DEF CronSelect
  <2> QED BY <1>2, <2>1 DEF CronSelect
<1>3. ASSUME \/ DaemonStep \/ RoundFails \/ CronFails \/ LoseCache
             \/ CronStart \/ CronLookup \/ CronSave
             \/ \E t \in Trades : CronDeposit(t) \/ ExpireTxIds(t) \/ DepositError(t)
      PROVE UNCHANGED <<committed, age>> /\ seen \subseteq seen'
  BY <1>3 DEF DaemonStep, StartRound, SetCursor, BulkUpdateTrades, StartTrade,
              MakeDeposit, Collect, RoundFails, RoundRaises,
              CronFails, LoseCache, CronStart,
              CronLookup, CronSave, CronDeposit, ExpireTxIds, DepositError
<1>4. ASSUME NEW t \in Trades, CommitTrade(t) PROVE UNCHANGED <<age, seen>>
  BY <1>4 DEF CommitTrade
<1>5. CASE UNCHANGED vars
  BY <1>5 DEF vars, Tried
<1>6. CASE Next
  BY <1>1, <1>2, <1>3, <1>4, <1>6 DEF Next, Step, CronStep, Tried
<1> QED BY <1>5, <1>6

\* A cursor stays safe while trades commit, age and are fetched.
LEMMA SafeStays ==
  ASSUME TypeOK, NEW n \in Nat, Safe(n), [Next]_vars
  PROVE  Safe(n)'
<1>1. /\ committed \subseteq Trades /\ Trades \subseteq Nat
      /\ \A t \in Trades : Dst[t] \in DstCurrencies
  BY TradesAssumption DEF TypeOK
<1>2. ASSUME NEW t \in Trades, CommitTrade(t) PROVE Safe(n)'
  <2>1. /\ committed' = committed \cup {t}
        /\ \A u \in committed : Dst[u] = Dst[t] => u < t
    BY <1>2 DEF CommitTrade
  <2>2. n < t
    <3>1. CASE n = 0
      BY <3>1, TradesAssumption
    <3>2. CASE n > 0
      <4>1. PICK u \in committed : Dst[u] = Dst[t] /\ u >= n
        BY <1>1, <3>2 DEF Safe
      <4> QED BY <1>1, <2>1, <4>1
    <3> QED BY <3>1, <3>2
  <2>3. ASSUME NEW u \in committed', u <= n PROVE u \in committed
    BY <1>1, <2>1, <2>2, <2>3
  <2> QED BY <1>1, <2>1, <2>3, TriedStays DEF Safe
<1>3. CASE committed' = committed
  BY <1>1, <1>3, TriedStays DEF Safe
<1> QED BY <1>2, <1>3, TriedStays

\* Every step keeps the cursor invariant.
LEMMA CursorStep == LedgerInv /\ CursorInv /\ [Next]_vars => CursorInv'
<1> SUFFICES ASSUME LedgerInv, CursorInv, [Next]_vars PROVE CursorInv'
  OBVIOUS
<1> USE TradesAssumption
<1>0. /\ committed \subseteq Trades /\ Trades \subseteq Nat
      /\ cursor \in Nat /\ start \in Nat
      /\ \A t \in Trades : Dst[t] \in DstCurrencies
      /\ Safe(cursor) /\ Visited /\ RoundSafe
  BY DEF LedgerInv, TypeOK, CursorInv
<1>1. Safe(cursor)'
  <2>1. cursor' = cursor \/ LoseCache \/ SetCursor
    BY DEF vars, store, Next, Step, DaemonStep, CronStep, StartRound, StartTrade,
           MakeDeposit, Collect, BulkUpdateTrades, RoundFails, RoundRaises,
           CronStart, CronLookup,
           CronSave, CronSelect, CronDeposit, CronFails, CommitTrade, TurnHalfHour,
           TurnOld, ExpireTxIds, DepositError
  <2>2. CASE cursor' = cursor
    <3>1. ASSUME NEW n \in Nat, n = cursor PROVE Safe(n)'
      BY <1>0, <3>1, SafeStays DEF LedgerInv
    <3> QED BY <1>0, <2>2, <3>1 DEF Safe, Tried
  <2>3. CASE LoseCache
    <3>1. cursor' = 0 /\ committed' = committed
      BY <2>3 DEF LoseCache
    <3> QED BY <1>0, <3>1 DEF Safe
  <2>4. CASE SetCursor
    <3> DEFINE n == NewCursor
    <3>1. /\ cursor' = n /\ UNCHANGED <<committed, seen, age>>
          /\ pc = "run"
      BY <2>4 DEF SetCursor
    <3>2. /\ n \in Nat
          /\ \A c \in DstCurrencies : lastIds[c] \in Nat /\ n <= lastIds[c]
      BY DEF NewCursor, DstCurrencies, LedgerInv, TypeOK
    <3>3. /\ Safe(start) /\ batch \subseteq committed
          /\ \A b \in batch, t \in committed : t <= b /\ Dst[t] = Dst[b] => Tried(t)
          /\ \A c \in DstCurrencies :
               lastIds[c] = start \/ (lastIds[c] \in batch /\ Dst[lastIds[c]] = c)
      BY <1>0, <3>1 DEF RoundSafe
    <3> HIDE DEF n
    <3>4. ASSUME NEW t \in committed, t <= n PROVE Tried(t)
      <4>1. CASE lastIds[Dst[t]] = start
        <5>1. t <= start
          BY <1>0, <3>2, <3>4, <4>1
        <5> QED BY <3>3, <5>1 DEF Safe
      <4>2. CASE lastIds[Dst[t]] \in batch /\ Dst[lastIds[Dst[t]]] = Dst[t]
        <5>1. t <= lastIds[Dst[t]]
          BY <1>0, <3>2, <3>4
        <5> QED BY <3>3, <4>2, <5>1
      <4> QED BY <1>0, <3>3, <4>1, <4>2
    <3>5. ASSUME n > 0, NEW c \in DstCurrencies
          PROVE \E t \in committed : Dst[t] = c /\ t >= n
      <4>1. CASE lastIds[c] = start
        <5>1. start > 0 /\ start >= n
          BY <1>0, <3>2, <3>5, <4>1
        <5>2. PICK t \in committed : Dst[t] = c /\ t >= start
          BY <3>3, <5>1 DEF Safe
        <5>3. t >= n
          BY <1>0, <3>2, <5>1, <5>2
        <5> QED BY <5>2, <5>3
      <4>2. CASE lastIds[c] \in batch /\ Dst[lastIds[c]] = c
        BY <3>2, <3>3, <4>2
      <4> QED BY <3>3, <4>1, <4>2
    <3> QED BY <3>1, <3>4, <3>5 DEF Safe, Tried
  <2> QED BY <2>1, <2>2, <2>3, <2>4
<1>2. Visited'
  <2>0. seen \subseteq seen'
    BY TriedStays DEF LedgerInv
  <2>1. ASSUME NEW t \in Trades, refs'[t] # {} PROVE t \in seen'
    <3>1. \/ refs' = refs \/ BulkUpdateTrades \/ CronSave
      BY DEF vars, Next, Step, DaemonStep, CronStep, StartRound, StartTrade,
             MakeDeposit, Collect, SetCursor, RoundFails, RoundRaises,
             CronStart, CronLookup,
             CronSelect, CronDeposit, CronFails, CommitTrade, TurnHalfHour, TurnOld,
             ExpireTxIds, DepositError, LoseCache
    <3>2. CASE refs' = refs
      BY <1>0, <2>0, <2>1, <3>2 DEF Visited
    <3>3. CASE BulkUpdateTrades
      BY <1>0, <2>0, <2>1, <3>3 DEF BulkUpdateTrades, Saved, Visited
    <3>4. CASE CronSave
      BY <1>0, <2>0, <2>1, <3>4 DEF CronSave, Visited
    <3> QED BY <3>1, <3>2, <3>3, <3>4
  <2>2. ASSUME NEW t \in Trades, prog'[t] # "none" PROVE t \in seen'
    <3>1. \/ prog' = prog \/ prog' = NoProgress \/ StartRound
          \/ \E u \in Trades : StartTrade(u) \/ MakeDeposit(u) \/ DepositError(u)
      BY DEF vars, round, Next, Step, DaemonStep, CronStep, BulkUpdateTrades, EndRound,
             Collect, SetCursor, RoundFails, RoundRaises,
             CronStart, CronLookup, CronSave,
             CronSelect, CronDeposit, CronFails, CommitTrade, TurnHalfHour, TurnOld,
             ExpireTxIds, LoseCache
    <3>2. CASE prog' = prog \/ prog' = NoProgress
      BY <1>0, <2>0, <2>2, <3>2 DEF Visited, NoProgress
    <3>3. CASE StartRound
      BY <2>2, <3>3 DEF StartRound
    <3>4. ASSUME NEW u \in Trades, StartTrade(u) \/ MakeDeposit(u) \/ DepositError(u)
          PROVE t \in seen'
      <4>1. prog[u] # "none" /\ (t # u => prog'[t] = prog[t])
        BY <3>4, FieldNames DEF StartTrade, MakeDeposit, DepositError, LedgerInv, TypeOK
      <4> QED BY <1>0, <2>0, <2>2, <4>1 DEF Visited
    <3> QED BY <3>1, <3>2, <3>3, <3>4
  <2>3. cbatch' \subseteq seen'
    <3>1. \/ cbatch' = cbatch \/ cbatch' = {}
          \/ \E b \in SUBSET Trades : cbatch' = b /\ seen' = seen \cup b
      <4>1. ASSUME NEW b \in SUBSET Trades, CronSelect(b)
            PROVE cbatch' = {} \/ (cbatch' = b /\ seen' = seen \cup b)
        BY <4>1 DEF CronSelect, CronRest
      <4>2. ASSUME NEW t \in Trades, CronDeposit(t)
            PROVE cbatch' = {} \/ cbatch' = cbatch
        BY <4>2 DEF CronDeposit, CronRest
      <4>3. CronSave \/ CronFails => cbatch' = {}
        BY DEF CronSave, CronFails, CronRest
      <4> QED
        BY <4>1, <4>2, <4>3
        DEF vars, cron, Next, Step, DaemonStep, CronStep, StartRound, StartTrade,
            MakeDeposit, Collect, SetCursor, BulkUpdateTrades, RoundFails, RoundRaises,
            CronStart,
            CronLookup, CommitTrade, TurnHalfHour, TurnOld, ExpireTxIds, DepositError,
            LoseCache
    <3> QED BY <1>0, <2>0, <3>1 DEF Visited
  <2> QED BY <2>1, <2>2, <2>3 DEF Visited
<1>3. RoundSafe'
  <2> SUFFICES ASSUME pc' = "run"
               PROVE  /\ batch' \subseteq committed' /\ left' \subseteq batch'
                      /\ Safe(start)'
                      /\ \A b \in batch', t \in committed' :
                           t <= b /\ Dst[t] = Dst[b] => Tried(t)'
                      /\ \A c \in DstCurrencies :
                           \/ lastIds'[c] = start'
                           \/ lastIds'[c] \in batch' /\ Dst[lastIds'[c]] = c
    BY DEF RoundSafe
  <2>1. CASE StartRound
    <3> DEFINE found == First(Fetched, BatchSize)
    <3>1. /\ batch' = found /\ left' = found /\ start' = cursor
          /\ lastIds' = [c \in DstCurrencies |-> cursor]
          /\ seen' = seen \cup found
          /\ UNCHANGED <<committed, age, refs, cursor>>
      BY <2>1 DEF StartRound, store
    <3>2. found \subseteq Fetched /\ Fetched \subseteq committed
      BY DEF First, Fetched
    <3>3. Safe(start)'
      BY <1>1, <3>1 DEF Safe, Tried
    <3>4. ASSUME NEW b \in found, NEW t \in committed, t <= b PROVE Tried(t)'
      <4>1. CASE t \in Fetched
        <5>1. t \in found
          BY <1>0, <3>2, <3>4, <4>1, BoundsAssumption, FirstIsPrefix
        <5> QED BY <3>1, <5>1 DEF Tried
      <4>2. CASE t <= cursor \/ age[t] = "old"
        BY <1>0, <3>1, <4>2 DEF Safe, Tried
      <4>3. CASE Deposits \subseteq refs[t]
        <5>1. refs[t] # {}
          BY <4>3, FieldNames
        <5> QED BY <1>0, <3>1, <5>1 DEF Visited, Tried
      <4> QED BY <1>0, <4>1, <4>2, <4>3 DEF Fetched
    <3> HIDE DEF found
    <3> QED BY <3>1, <3>2, <3>3, <3>4
  <2>2. CASE ~ StartRound
    <3>1. /\ pc = "run" /\ batch' = batch /\ start' = start
          /\ left' \subseteq left
          /\ lastIds' = lastIds \/ \E t \in Trades : Collect(t)
      BY <2>2 DEF vars, round, Next, Step, DaemonStep, CronStep, StartTrade, MakeDeposit,
            Collect, SetCursor, BulkUpdateTrades, EndRound, RoundFails, RoundRaises,
            CronStart,
            CronLookup, CronSave, CronSelect, CronDeposit, CronFails, CommitTrade,
            TurnHalfHour, TurnOld, ExpireTxIds, DepositError, LoseCache
    <3>2. /\ batch \subseteq committed /\ left \subseteq batch /\ Safe(start)
          /\ \A b \in batch, t \in committed : t <= b /\ Dst[t] = Dst[b] => Tried(t)
          /\ \A c \in DstCurrencies :
               lastIds[c] = start \/ (lastIds[c] \in batch /\ Dst[lastIds[c]] = c)
      BY <1>0, <3>1 DEF RoundSafe
    <3>3. committed \subseteq committed'
      BY TriedStays DEF LedgerInv, CommitTrade
    <3>4. Safe(start)'
      <4>1. ASSUME NEW n \in Nat, n = start PROVE Safe(n)'
        BY <3>2, <4>1, SafeStays DEF LedgerInv
      <4> QED BY <1>0, <3>1, <4>1 DEF Safe, Tried
    <3>5. ASSUME NEW b \in batch, NEW t \in committed', t <= b, Dst[t] = Dst[b]
          PROVE Tried(t)'
      <4>1. t \in committed
        <5>1. ASSUME NEW u \in Trades, CommitTrade(u), u = t, t \notin committed
              PROVE FALSE
          BY <1>0, <3>2, <3>5, <5>1 DEF CommitTrade
        <5>2. ASSUME NEW u \in Trades, CommitTrade(u) PROVE committed' = committed \cup {u}
          BY <5>2 DEF CommitTrade
        <5> QED BY <3>5, <5>1, <5>2, TriedStays DEF LedgerInv
      <4> QED BY <1>0, <3>2, <3>5, <4>1, TriedStays DEF LedgerInv
    <3>6. ASSUME NEW c \in DstCurrencies
          PROVE \/ lastIds'[c] = start
                \/ lastIds'[c] \in batch /\ Dst[lastIds'[c]] = c
      <4>1. CASE lastIds' = lastIds
        BY <3>2, <4>1
      <4>2. ASSUME NEW t \in Trades, Collect(t)
            PROVE \/ lastIds'[c] = start
                  \/ lastIds'[c] \in batch /\ Dst[lastIds'[c]] = c
        <5>1. t \in batch /\ lastIds'[c] \in {lastIds[c], t}
              /\ (lastIds'[c] = t => Dst[t] = c \/ lastIds'[c] = lastIds[c])
          BY <3>2, <4>2 DEF Collect, LedgerInv, TypeOK
        <5> QED BY <3>2, <5>1
      <4> QED BY <3>1, <4>1, <4>2
    <3> QED BY <3>1, <3>2, <3>3, <3>4, <3>5, <3>6
  <2> QED BY <2>1, <2>2
<1> QED BY <1>1, <1>2, <1>3 DEF CursorInv

\* The daemon's cursor never passes a trade that was not fetched, although
\* trades commit out of the order of their ids: taking the minimum over the
\* destination currencies is enough.
THEOREM CursorSafe == Spec => []CursorOvertakesNone
<1>1. Init => CursorInv
  BY DEF Init, CursorInv, Safe, Visited, RoundSafe, NoProgress, NoObjects
<1>2. CursorInv => CursorOvertakesNone
  BY DEF CursorInv, Safe, Tried, CursorOvertakesNone
<1> QED BY <1>1, <1>2, LedgerInit, LedgerStep, CursorStep, PTL DEF Spec

-----------------------------------------------------------------------------
(* Refinement: the daemon and the cron implement Settlement *)

\* Object O[t] of a process has deposit f, or there will never be one.
Handled(O, t, f) == f \in O[t] \/ <<t, f>> \in Inactive

\* A process with progress P and objects O has handled every deposit it has
\* passed, so an object that is written back lacks nothing that can exist.
Complete(P, O) ==
  \A t \in Trades :
    /\ P[t] \in Deposits \cup {"ok"} => Withdraws \subseteq O[t]
    /\ P[t] = "buy_deposit" => Handled(O, t, "sell_deposit")
    /\ P[t] = "ok" => \A f \in Deposits : Handled(O, t, f)

InactiveUnpaid == \A t \in Trades, f \in Deposits : <<t, f>> \in Inactive => f \notin txs[t]

KeepInv == InactiveUnpaid /\ Complete(prog, obj) /\ Complete(cprog, cobj)

\* A process that works on nothing has nothing to write back.
LEMMA RestIsComplete ==
  ASSUME NEW O, NEW P, \A t \in Trades : P[t] \in {"none", "wait"}
  PROVE  Complete(P, O)
BY FieldNames DEF Complete, Deposits

\* A deposit made or refused for an inactive wallet leaves the object complete;
\* a complete object lacks no transaction.
LEMMA AfterDepositComplete ==
  ASSUME NEW P \in [Trades -> Progress], NEW O \in [Trades -> SUBSET Fields],
         NEW P1, NEW O1, Complete(P, O),
         NEW t \in Trades, P[t] \in Deposits,
         P1 = [P EXCEPT ![t] = After(P[t])],
         O1 \in [Trades -> SUBSET Fields],
         \A u \in Trades \ {t} : O1[u] = O[u],
         Handled(O1, t, P[t]), O[t] \ {P[t]} \subseteq O1[t]
  PROVE  Complete(P1, O1)
<1> SUFFICES ASSUME NEW u \in Trades
             PROVE /\ P1[u] \in Deposits \cup {"ok"} => Withdraws \subseteq O1[u]
                   /\ P1[u] = "buy_deposit" => Handled(O1, u, "sell_deposit")
                   /\ P1[u] = "ok" => \A f \in Deposits : Handled(O1, u, f)
  BY DEF Complete
<1>1. CASE u # t
  <2>1. P1[u] = P[u] /\ O1[u] = O[u]
    BY <1>1
  <2> QED BY <2>1 DEF Complete, Handled
<1>2. CASE u = t
  <2>1. Withdraws \subseteq O1[t]
    <3>1. Withdraws \subseteq O[t]
      BY DEF Complete
    <3> QED BY <3>1, FieldNames
  <2>2. CASE P[t] = "sell_deposit"
    <3>1. P1[t] = "buy_deposit"
      BY <2>2 DEF After
    <3> QED BY <1>2, <2>1, <2>2, <3>1
  <2>3. CASE P[t] = "buy_deposit"
    <3>1. P1[t] = "ok"
      BY <2>3 DEF After
    <3>2. Handled(O, t, "sell_deposit")
      BY <2>3 DEF Complete
    <3>3. Handled(O1, t, "sell_deposit")
      BY <2>3, <3>2 DEF Handled
    <3> QED BY <1>2, <2>1, <2>3, <3>1, <3>3 DEF Deposits
  <2> QED BY <2>2, <2>3 DEF Deposits
<1> QED BY <1>1, <1>2

\* What a deposit does to the object of whoever makes it.
LEMMA DepositHandled ==
  ASSUME NEW t \in Trades, NEW f \in Deposits, NEW O \in [Trades -> SUBSET Fields],
         Outcome(t, f) # "duplicate"
  PROVE  /\ f \in Referenced(O, t, f) \/ <<t, f>> \in Inactive
         /\ O[t] \ {f} \subseteq Referenced(O, t, f)
BY DEF Outcome, Referenced

\* Every step keeps the objects of daemon and cron complete.
LEMMA KeepStep == LedgerInv /\ KeepInv /\ [Next]_vars => KeepInv'
<1> SUFFICES ASSUME LedgerInv, KeepInv, [Next]_vars PROVE KeepInv'
  OBVIOUS
<1> USE FieldNames
<1>0. /\ prog \in [Trades -> Progress] /\ cprog \in [Trades -> Progress]
      /\ obj \in [Trades -> SUBSET Fields] /\ cobj \in [Trades -> SUBSET Fields]
      /\ txs \in [Trades -> SUBSET Fields]
      /\ InactiveUnpaid /\ Complete(prog, obj) /\ Complete(cprog, cobj)
      /\ TypeOK'
  BY TypeStep DEF LedgerInv, TypeOK, KeepInv
<1>1. ASSUME txs' = txs, \/ UNCHANGED <<prog, obj>>
                         \/ \A t \in Trades : prog'[t] \in {"none", "wait"}
                         \/ Complete(prog', obj'),
             \/ UNCHANGED <<cprog, cobj>>
             \/ \A t \in Trades : cprog'[t] \in {"none", "wait"}
             \/ Complete(cprog', cobj')
      PROVE KeepInv'
  <2>1. InactiveUnpaid'
    BY <1>0, <1>1 DEF InactiveUnpaid
  <2>2. Complete(prog', obj')
    BY <1>0, <1>1, RestIsComplete DEF Complete, Handled
  <2>3. Complete(cprog', cobj')
    BY <1>0, <1>1, RestIsComplete DEF Complete, Handled
  <2> QED BY <2>1, <2>2, <2>3 DEF KeepInv
<1>2. ASSUME NEW t \in Trades, NEW f \in Deposits, Deposit(t, f) PROVE InactiveUnpaid'
  <2>1. txs' = txs \/ (<<t, f>> \notin Inactive /\ txs' = [txs EXCEPT ![t] = @ \cup {f}])
    BY <1>2 DEF Deposit, Outcome
  <2> QED BY <1>0, <2>1 DEF InactiveUnpaid
<1>3. ASSUME NEW t \in Trades, CommitTrade(t) PROVE KeepInv'
  <2>1. /\ txs' = [txs EXCEPT ![t] = Withdraws]
        /\ UNCHANGED <<prog, obj, cprog, cobj>>
    BY <1>3 DEF CommitTrade, round, cron
  <2>2. InactiveUnpaid'
    BY <1>0, <2>1 DEF InactiveUnpaid
  <2> QED BY <2>1, <2>2, <1>0 DEF KeepInv, Complete, Handled
<1>4. ASSUME NEW t \in Trades,
             TurnHalfHour(t) \/ TurnOld(t) \/ ExpireTxIds(t) \/ Collect(t)
      PROVE KeepInv'
  BY <1>1, <1>4 DEF TurnHalfHour, TurnOld, ExpireTxIds, Collect, ledger, round, cron
<1>5. ASSUME LoseCache \/ SetCursor \/ CronStart PROVE KeepInv'
  BY <1>1, <1>5 DEF LoseCache, SetCursor, CronStart, ledger, round, cron
<1>6. ASSUME StartRound PROVE KeepInv'
  <2>1. /\ \A t \in Trades : prog'[t] \in {"none", "wait"}
        /\ UNCHANGED <<txs, cprog, cobj>>
    BY <1>6 DEF StartRound, ledger, cron
  <2> QED BY <1>1, <2>1
<1>7. ASSUME NEW t \in Trades, StartTrade(t) PROVE KeepInv'
  <2>1. /\ prog' = [prog EXCEPT ![t] = IF t \in ids THEN "sell_deposit" ELSE "failed"]
        /\ obj' = IF t \in ids THEN [obj EXCEPT ![t] = @ \cup Withdraws] ELSE obj
        /\ UNCHANGED <<txs, cprog, cobj>>
    BY <1>7 DEF StartTrade, ledger, cron
  <2>2. Complete(prog', obj')
    BY <1>0, <2>1 DEF Complete, Handled, Deposits
  <2> QED BY <1>1, <2>1, <2>2
<1>8. ASSUME NEW t \in Trades, NEW s \in {"failed", "duplicate"},
             prog' = [prog EXCEPT ![t] = s], obj' = obj
      PROVE Complete(prog', obj')
  BY <1>0, <1>8 DEF Complete, Handled, Deposits
<1>9. ASSUME NEW t \in Trades, DepositError(t) PROVE KeepInv'
  <2>1. prog' = [prog EXCEPT ![t] = "failed"] /\ UNCHANGED <<txs, obj, cprog, cobj>>
    BY <1>9 DEF DepositError, ledger, cron
  <2>2. Complete(prog', obj')
    BY <1>8, <2>1
  <2> QED BY <1>1, <2>1, <2>2
<1>10. ASSUME NEW t \in Trades, MakeDeposit(t) PROVE KeepInv'
  <2> DEFINE f == prog[t]
  <2>1. /\ f \in Deposits /\ Deposit(t, f)
        /\ UNCHANGED <<cprog, cobj>>
    BY <1>10 DEF MakeDeposit, cron
  <2>2. InactiveUnpaid'
    BY <1>2, <2>1
  <2>3. Complete(prog', obj')
    <3>1. CASE Outcome(t, f) = "duplicate"
      <4>1. prog' = [prog EXCEPT ![t] = "duplicate"] /\ obj' = obj
        BY <1>10, <3>1 DEF MakeDeposit
      <4> QED BY <1>8, <4>1
    <3>2. CASE Outcome(t, f) # "duplicate"
      <4>1. /\ prog' = [prog EXCEPT ![t] = After(f)]
            /\ obj' = [obj EXCEPT ![t] = Referenced(obj, t, f)]
        BY <1>10, <3>2 DEF MakeDeposit
      <4>2. /\ f \in Referenced(obj, t, f) \/ <<t, f>> \in Inactive
            /\ obj[t] \ {f} \subseteq Referenced(obj, t, f)
        BY <1>0, <2>1, <3>2, DepositHandled
      <4>3. /\ obj' \in [Trades -> SUBSET Fields]
            /\ \A u \in Trades \ {t} : obj'[u] = obj[u]
            /\ Handled(obj', t, f) /\ obj[t] \ {f} \subseteq obj'[t]
        BY <1>0, <4>1, <4>2 DEF Handled, TypeOK
      <4> QED BY <1>0, <2>1, <4>1, <4>3, AfterDepositComplete
    <3> QED BY <3>1, <3>2
  <2>4. Complete(cprog', cobj')
    BY <1>0, <2>1 DEF Complete, Handled
  <2> QED BY <2>2, <2>3, <2>4 DEF KeepInv
<1>11. ASSUME BulkUpdateTrades \/ RoundFails \/ RoundRaises PROVE KeepInv'
  <2>1. prog' = NoProgress /\ UNCHANGED <<txs, cprog, cobj>>
    BY <1>11 DEF BulkUpdateTrades, RoundFails, RoundRaises, EndRound, ledger, cron
  <2> QED BY <1>1, <2>1 DEF NoProgress
<1>12. ASSUME CronRest, UNCHANGED <<txs, prog, obj>> PROVE KeepInv'
  BY <1>1, <1>12 DEF CronRest, NoProgress
<1>13. ASSUME NEW b \in SUBSET Trades, CronSelect(b) PROVE KeepInv'
  <2>1. cprog' = NoProgress /\ UNCHANGED <<txs, prog, obj>>
    BY <1>13 DEF CronSelect, CronRest, ledger, round
  <2> QED BY <1>1, <2>1 DEF NoProgress
<1>14. ASSUME CronLookup PROVE KeepInv'
  <2>1. /\ cobj' = [t \in Trades |-> IF t \in cbatch THEN cobj[t] \cup txs[t] ELSE {}]
        /\ cprog' = [t \in Trades |-> IF t \in cbatch THEN "sell_deposit" ELSE "none"]
        /\ UNCHANGED <<txs, prog, obj>>
    BY <1>14 DEF CronLookup, ledger, round
  <2>2. \A t \in cbatch : Withdraws \subseteq txs[t]
    BY DEF LedgerInv, Settling
  <2>3. Complete(cprog', cobj')
    BY <1>0, <2>1, <2>2 DEF Complete, Handled, Deposits
  <2> QED BY <1>1, <2>1, <2>3
<1>15. ASSUME NEW t \in Trades, CronDeposit(t) PROVE KeepInv'
  <2> DEFINE f == cprog[t]
  <2>1. f \in Deposits /\ UNCHANGED <<prog, obj>>
    BY <1>15 DEF CronDeposit, round
  <2>2. Complete(prog', obj')
    BY <1>0, <2>1 DEF Complete, Handled
  <2>3. CASE f \in cobj[t]
    <3>1. /\ cprog' = [cprog EXCEPT ![t] = After(f)] /\ UNCHANGED <<txs, cobj>>
      BY <1>15, <2>3 DEF CronDeposit, ledger
    <3>2. Handled(cobj', t, f) /\ cobj[t] \ {f} \subseteq cobj'[t]
      BY <2>3, <3>1 DEF Handled
    <3>3. Complete(cprog', cobj')
      BY <1>0, <2>1, <3>1, <3>2, AfterDepositComplete
    <3> QED BY <1>1, <2>1, <3>1, <3>3
  <2>4. CASE f \notin cobj[t] /\ Outcome(t, f) = "duplicate"
    <3>1. CronRest /\ txs' = txs
      BY <1>15, <2>4 DEF CronDeposit, Deposit
    <3> QED BY <1>12, <2>1, <3>1
  <2>5. CASE f \notin cobj[t] /\ Outcome(t, f) # "duplicate"
    <3>1. /\ Deposit(t, f)
          /\ cprog' = [cprog EXCEPT ![t] = After(f)]
          /\ cobj' = [cobj EXCEPT ![t] = Referenced(cobj, t, f)]
      BY <1>15, <2>5 DEF CronDeposit
    <3>2. /\ f \in Referenced(cobj, t, f) \/ <<t, f>> \in Inactive
          /\ cobj[t] \ {f} \subseteq Referenced(cobj, t, f)
      BY <1>0, <2>1, <2>5, DepositHandled
    <3>3. /\ cobj' \in [Trades -> SUBSET Fields]
          /\ \A u \in Trades \ {t} : cobj'[u] = cobj[u]
          /\ Handled(cobj', t, f) /\ cobj[t] \ {f} \subseteq cobj'[t]
      BY <1>0, <3>1, <3>2 DEF Handled, TypeOK
    <3>4. Complete(cprog', cobj')
      BY <1>0, <2>1, <3>1, <3>3, AfterDepositComplete
    <3>5. InactiveUnpaid'
      BY <1>2, <2>1, <3>1
    <3> QED BY <2>2, <3>4, <3>5 DEF KeepInv
  <2> QED BY <2>3, <2>4, <2>5
<1>16. ASSUME CronSave PROVE KeepInv'
  <2>1. cprog' = NoProgress /\ UNCHANGED <<txs, prog, obj>>
    BY <1>16 DEF CronSave, CronRest, ledger, round
  <2> QED BY <1>1, <2>1 DEF NoProgress
<1>17. ASSUME CronFails PROVE KeepInv'
  BY <1>12, <1>17 DEF CronFails, ledger, round
<1>18. CASE UNCHANGED vars
  BY <1>1, <1>18 DEF vars, ledger, round, cron
<1> QED
  BY <1>3, <1>4, <1>5, <1>6, <1>7, <1>9, <1>10, <1>11, <1>13, <1>14, <1>15, <1>16,
     <1>17, <1>18
  DEF Next, Step, DaemonStep, CronStep

\* An object that is complete covers everything its row can refer to.
LEMMA CompleteCovers ==
  ASSUME LedgerInv, InactiveUnpaid, NEW P, NEW O, Complete(P, O),
         NEW t \in Trades, P[t] = "ok"
  PROVE  refs[t] \cap Deposits \subseteq O[t]
<1>1. refs[t] \subseteq txs[t]
  BY DEF LedgerInv, RefsExist
<1>2. \A f \in Deposits : f \in O[t] \/ <<t, f>> \in Inactive
  BY DEF Complete, Handled
<1> QED BY <1>1, <1>2 DEF InactiveUnpaid

\* A write back of references is a Record step of Settlement or leaves what
\* Settlement sees as it is.
LEMMA WriteBackRecords ==
  ASSUME LedgerInv, LedgerInv', UNCHANGED <<committed, credit>>,
         \A t \in Trades : refs[t] \cap Deposits \subseteq refs'[t]
  PROVE  Abstract!Record
<1>1. /\ refs' \in [Trades -> SUBSET Fields]
      /\ \A t \in Trades, f \in Deposits : f \in refs'[t] => credit[t][f] = 1
  BY DEF LedgerInv, TypeOK, CreditedOnce, RefsExist
<1> QED BY <1>1 DEF Abstract!Record

\* Every step of the matcher, the daemon, the cron and the cache is a step of
\* Settlement or a stuttering step.
LEMMA RefinementStep ==
  ASSUME LedgerInv, LedgerInv', KeepInv, [Next]_vars
  PROVE  [Abstract!SettleNext]_(Abstract!settlement)
<1> DEFINE Goal == [Abstract!SettleNext]_(Abstract!settlement)
<1> USE FieldNames
<1>1. ASSUME UNCHANGED <<committed, credit, refs>> PROVE Goal
  BY <1>1 DEF Abstract!settlement
<1>2. ASSUME NEW t \in Trades, CommitTrade(t) PROVE Goal
  <2>1. Abstract!Commit(t)
    BY <1>2 DEF CommitTrade, Abstract!Commit
  <2> QED BY <2>1 DEF Abstract!SettleNext
<1>3. ASSUME NEW t \in Trades, NEW f \in Deposits, Deposit(t, f), t \in committed,
             UNCHANGED <<committed, refs>>
      PROVE Goal
  <2>1. CASE Outcome(t, f) = "made"
    <3>1. f \notin txs[t] /\ credit' = [credit EXCEPT ![t][f] = credit[t][f] + 1]
      BY <1>3, <2>1 DEF Deposit, Outcome, Exists
    <3>2. credit[t][f] = 0
      BY <3>1 DEF LedgerInv, CreditedOnce
    <3>3. credit' = [credit EXCEPT ![t][f] = 1]
      BY <3>1, <3>2
    <3>4. Abstract!Credit(t, f)
      BY <1>3, <3>2, <3>3 DEF Abstract!Credit
    <3> QED BY <3>4 DEF Abstract!SettleNext
  <2>2. CASE Outcome(t, f) # "made"
    BY <1>1, <1>3, <2>2 DEF Deposit
  <2> QED BY <2>1, <2>2
<1>4. ASSUME NEW t \in Trades, MakeDeposit(t) PROVE Goal
  <2>1. /\ prog[t] \in Deposits /\ Deposit(t, prog[t]) /\ t \in committed
        /\ UNCHANGED <<committed, refs>>
    BY <1>4 DEF MakeDeposit, LedgerInv, Settling
  <2> QED BY <1>3, <2>1
<1>5. ASSUME NEW t \in Trades, CronDeposit(t) PROVE Goal
  <2>1. /\ cprog[t] \in Deposits /\ t \in committed
        /\ UNCHANGED <<committed, refs>>
    BY <1>5 DEF CronDeposit, LedgerInv, Settling
  <2>2. UNCHANGED credit \/ Deposit(t, cprog[t])
    BY <1>5 DEF CronDeposit, ledger
  <2> QED BY <1>1, <1>3, <2>1, <2>2
<1>6. ASSUME BulkUpdateTrades PROVE Goal
  <2>1. ASSUME NEW t \in Trades PROVE refs[t] \cap Deposits \subseteq refs'[t]
    <3>1. CASE prog[t] = "ok"
      BY <1>6, <3>1, CompleteCovers DEF BulkUpdateTrades, Saved, KeepInv
    <3>2. CASE prog[t] # "ok"
      BY <1>6, <3>2 DEF BulkUpdateTrades, Saved
    <3> QED BY <3>1, <3>2
  <2>2. UNCHANGED <<committed, credit>>
    BY <1>6 DEF BulkUpdateTrades, ledger
  <2>3. Abstract!Record
    BY <2>1, <2>2, WriteBackRecords
  <2> QED BY <2>3 DEF Abstract!SettleNext
<1>7. ASSUME CronSave PROVE Goal
  <2>1. ASSUME NEW t \in Trades PROVE refs[t] \cap Deposits \subseteq refs'[t]
    <3>1. CASE t \in cbatch
      <4>1. cprog[t] = "ok" /\ refs'[t] = cobj[t]
        BY <1>7, <3>1 DEF CronSave
      <4> QED BY <4>1, CompleteCovers DEF KeepInv
    <3>2. CASE t \notin cbatch
      BY <1>7, <3>2 DEF CronSave
    <3> QED BY <3>1, <3>2
  <2>2. UNCHANGED <<committed, credit>>
    BY <1>7 DEF CronSave, ledger
  <2>3. Abstract!Record
    BY <2>1, <2>2, WriteBackRecords
  <2> QED BY <2>3 DEF Abstract!SettleNext
<1>8. ASSUME NEW t \in Trades,
             \/ TurnHalfHour(t) \/ TurnOld(t) \/ ExpireTxIds(t)
             \/ Collect(t) \/ StartTrade(t) \/ DepositError(t)
      PROVE Goal
  BY <1>1, <1>8
  DEF TurnHalfHour, TurnOld, ExpireTxIds, Collect, StartTrade, DepositError, ledger
<1>9. ASSUME \/ LoseCache \/ SetCursor \/ StartRound \/ RoundFails \/ RoundRaises
             \/ CronStart \/ CronLookup \/ CronFails \/ \E b \in SUBSET Trades : CronSelect(b)
      PROVE Goal
  BY <1>1, <1>9 DEF LoseCache, SetCursor, StartRound, RoundFails, RoundRaises,
                    CronStart, CronLookup,
                    CronFails, CronSelect, ledger
<1>10. CASE UNCHANGED vars
  BY <1>1, <1>10 DEF vars, ledger
<1>11. CASE DaemonStep
  BY <1>4, <1>6, <1>8, <1>9, <1>11 DEF DaemonStep
<1>12. CASE CronStep
  BY <1>5, <1>7, <1>9, <1>12 DEF CronStep
<1> QED
  BY <1>2, <1>8, <1>9, <1>10, <1>11, <1>12 DEF Next, Step

\* TradeProcessor implements Settlement: for any trades, batches and faults,
\* daemon and cron credit each deposit of a committed trade at most once and
\* never lose a reference that is stored.
THEOREM SettlementRefined == Spec => ImplementsSettlement
<1>1. Init => KeepInv
  BY FieldNames DEF Init, KeepInv, InactiveUnpaid, Complete, NoProgress, NoObjects,
                    Deposits
<1>2. Init => Abstract!SettleInit
  <2>1. Init => \A t \in Trades : refs[t] \cap Deposits = {}
    BY DEF Init, NoObjects
  <2> QED BY <2>1 DEF Init, Abstract!SettleInit
<1>3. LedgerInv /\ LedgerInv' /\ KeepInv /\ [Next]_vars
        => [Abstract!SettleNext]_(Abstract!settlement)
  BY RefinementStep
<1> QED
  BY <1>1, <1>2, <1>3, LedgerInit, LedgerStep, KeepStep, PTL
  DEF Spec, ImplementsSettlement, Abstract!SettleSpec
=============================================================================
