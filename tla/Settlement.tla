----------------------------- MODULE Settlement -----------------------------
(***************************************************************************)
(* What the settlement of trades promises, whoever carries it out: once a  *)
(* trade has been committed, each party's deposit is credited at most      *)
(* once, one deposit at a time; a deposit is recorded in the trade's row   *)
(* only after it was credited, and a record is never lost.  Daemon, cron,  *)
(* cache, cursor and faults do not appear here.                            *)
(***************************************************************************)
EXTENDS Naturals

CONSTANTS Trades, Parties

VARIABLES committed, \* trades of committed matching rounds
          credit,    \* credit[t][p]: how often party p of t was credited
          recorded   \* recorded[t]: the deposits the row of t refers to

settlement == <<committed, credit, recorded>>

SettleInit ==
  /\ committed = {}
  /\ credit = [t \in Trades |-> [p \in Parties |-> 0]]
  /\ recorded = [t \in Trades |-> {}]

Commit(t) ==
  /\ t \notin committed
  /\ committed' = committed \cup {t}
  /\ UNCHANGED <<credit, recorded>>

Credit(t, p) ==
  /\ t \in committed /\ credit[t][p] = 0
  /\ credit' = [credit EXCEPT ![t][p] = 1]
  /\ UNCHANGED <<committed, recorded>>

\* Several rows are written at once.
Record ==
  /\ recorded' \in [Trades -> SUBSET Parties]
  /\ \A t \in Trades :
       /\ recorded[t] \subseteq recorded'[t]
       /\ \A p \in recorded'[t] : credit[t][p] = 1
  /\ UNCHANGED <<committed, credit>>

SettleNext ==
  \/ Record
  \/ \E t \in Trades : Commit(t) \/ \E p \in Parties : Credit(t, p)

SettleSpec == SettleInit /\ [][SettleNext]_settlement
=============================================================================
