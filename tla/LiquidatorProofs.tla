-------------------------- MODULE LiquidatorProofs --------------------------
(***************************************************************************)
(* Proofs about the liquidator.                                            *)
(*                                                                         *)
(* RowsInv says what every row, order and queued task may look like and    *)
(* WorkInv what the two running tasks have counted; both hold however many *)
(* update tasks of a liquidation are queued.  SpendInv adds the amounts.   *)
(* It needs MaxQueued <= 1: a second update may bring back a liquidation   *)
(* that was shared or given up.                                            *)
(***************************************************************************)
EXTENDS Liquidator, SetSumTheorems, TLAPS

\* TypeOK without the upper bounds of rfilled and credit, which are results.
Typed ==
  /\ rstat \in [Requests -> {"pending", "in_progress", "waiting",
                            "transactions_failed", "done"}]
  /\ rfilled \in [Requests -> Nat]
  /\ liq \in [Ids -> Liquidations]
  /\ creating \subseteq Ids \X {"internal", "external"}
  /\ updates \in [Ids -> 0..MaxQueued]
  /\ order \in [Ids -> Orders] /\ broker \in [Ids -> Orders]
  /\ sla \subseteq Ids /\ share \in Jobs /\ del \in Jobs /\ overlapped \subseteq Requests
  /\ maker \in [Ids -> 0..Amount] /\ credit \in [Requests -> Nat]
  /\ faults \in 0..MaxFaults

\* An order is never filled beyond the amount of its liquidation.
OrderFits(o, l) == /\ o.fill <= liq[l].amount
                   /\ o.st = "open" => o.fill < liq[l].amount

\* One liquidation, its orders and its tasks.
RowOK(l) ==
  /\ liq[l].st = "none" => liq[l] = NoLiquidation /\ order[l] = NoOrder /\ broker[l] = NoOrder
  /\ liq[l].st # "none" => liq[l].amount >= 1
  /\ liq[l].req = None <=> liq[l].st \in {"none", "deleted"}
  /\ liq[l].st \in {"none", "new", "deleted"} =>
       ~ liq[l].ext /\ liq[l].filled = 0 /\ liq[l].paid = 0 /\ updates[l] = 0
  /\ updates[l] > 0 => liq[l].ext
  /\ liq[l].paid <= liq[l].filled
  /\ liq[l].ext => liq[l].filled <= broker[l].fill
  /\ ~ liq[l].ext => liq[l].filled <= order[l].fill
  /\ OrderFits(order[l], l) /\ OrderFits(broker[l], l)
  /\ l \in share.ids => liq[l].st = "ready_to_share"
  /\ l \in del.ids => liq[l].st = "new"

\* Ids are given in order.
Prefix == \A l \in Ids : liq[l].st # "none" => \A k \in 1..l : liq[k].st # "none"

RowsInv == Typed /\ Prefix /\ \A l \in Ids : RowOK(l)

Stuck(r) == (\E l \in Of(r) : liq[l].st = "overstock") \/ r \in overlapped

\* What the running share and delete have counted is still there.
ShareCounted ==
  \A r \in RequestsOf(share.ids) :
    \/ r \in share.pending \/ Stuck(r)
    \/ Unfilled(r) <= SharedTo(r, share.ids)
    \/ ActiveBeside(r, share.ids) # {}
DeleteCounted ==
  \A r \in RequestsOf(del.ids) :
    r \in del.pending \/ Stuck(r) \/ ActiveBeside(r, del.ids) # {}
OverlapSeen == RequestsOf(share.ids) \cap RequestsOf(del.ids) \subseteq overlapped

WorkInv == RowsInv /\ ShareCounted /\ DeleteCounted /\ OverlapSeen /\ InProgressHasWork

\* Updates are queued only for what is open; the filled amount is final once
\* the liquidation is ready, and booked once it is done.
RowBooked(l) ==
  /\ updates[l] > 0 => liq[l].st = "open"
  /\ liq[l].st \in {"ready_to_share", "done"} =>
       /\ liq[l].ext => liq[l].filled = broker[l].fill /\ broker[l].st # "open"
       /\ ~ liq[l].ext => liq[l].filled = order[l].fill /\ order[l].st # "open"
  /\ broker[l].st = "none" => broker[l].fill = 0
  /\ liq[l].st = "done" => liq[l].paid = liq[l].filled
  /\ liq[l].st # "done" => liq[l].paid = 0
  /\ liq[l].ext => maker[l] = liq[l].paid
  /\ ~ liq[l].ext => maker[l] = 0

RowsBooked == \A l \in Ids : RowBooked(l)

\* A request that is not in progress has no active liquidation; the running
\* tasks make a request pending only if it will have none.
Idle == \A r \in Requests : rstat[r] # "in_progress" => ActiveOf(r) = {}
Settled == \A r \in Requests :
  rstat[r] \in {"waiting", "transactions_failed", "done"} => rfilled[r] = Amount
PendingIdle ==
  /\ \A r \in share.pending : r \in RequestsOf(share.ids) /\ ActiveBeside(r, share.ids) = {}
  /\ \A r \in del.pending : r \in RequestsOf(del.ids) /\ ActiveBeside(r, del.ids) = {}

SpendInv ==
  /\ RowsInv /\ RowsBooked /\ Idle /\ Settled /\ PendingIdle
  /\ NeverDoubleSpent /\ FilledWasExecuted /\ BooksAgree

-----------------------------------------------------------------------------
(* Splitting an amount *)

\* Induction over the naturals, the property given as a set.
LEMMA NatSetInduction ==
  ASSUME NEW T, 0 \in T, \A k \in Nat : k \in T => k + 1 \in T
  PROVE  \A k \in Nat : k \in T
<1> DEFINE Bad == {k \in Nat : k \notin T}
<1> SUFFICES ASSUME Bad # {} PROVE FALSE
  OBVIOUS
<1>1. Bad \subseteq Nat
  OBVIOUS
<1> HIDE DEF Bad
<1>2. PICK k \in Bad : \A j \in Bad : ~ (<<j, k>> \in OpToRel(<, Nat))
  BY <1>1, NatLessThanWellFounded, WFMin
<1>3. \A j \in Bad : ~ (j < k)
  BY <1>1, <1>2 DEF OpToRel
<1>4. k \in Nat /\ k # 0
  BY <1>1 DEF Bad
<1>5. k - 1 \in Nat /\ k - 1 \notin Bad
  BY <1>3, <1>4
<1>6. k - 1 \in T /\ (k - 1) + 1 = k
  BY <1>4, <1>5 DEF Bad
<1> QED BY <1>5, <1>6 DEF Bad

\* k equal pieces
LEMMA EqualPieces ==
  ASSUME NEW u \in Nat, NEW m \in Nat, NEW f, NEW n \in Nat,
         \A l \in (u + 1)..(u + n) : f[l] = m
  PROVE  SumOf(f, (u + 1)..(u + n)) = n * m
<1> DEFINE T == {k \in Nat : k <= n => SumOf(f, (u + 1)..(u + k)) = k * m}
<1>1. 0 \in T
  <2>1. (u + 1)..(u + 0) = {} /\ 0 * m = 0
    OBVIOUS
  <2> QED BY <2>1, SumEmpty
<1>2. ASSUME NEW k \in Nat, k \in T PROVE k + 1 \in T
  <2> SUFFICES ASSUME k + 1 <= n PROVE SumOf(f, (u + 1)..(u + (k + 1))) = (k + 1) * m
    OBVIOUS
  <2>1. (u + 1)..(u + (k + 1)) = ((u + 1)..(u + k)) \cup {u + (k + 1)}
    OBVIOUS
  <2>2. IsFiniteSet((u + 1)..(u + k)) /\ u + (k + 1) \notin (u + 1)..(u + k)
    BY FS_Interval
  <2>3. \A y \in ((u + 1)..(u + k)) \cup {u + (k + 1)} : f[y] = m /\ f[y] \in Int
    OBVIOUS
  <2>4. SumOf(f, (u + 1)..(u + (k + 1))) = f[u + (k + 1)] + SumOf(f, (u + 1)..(u + k))
    BY <2>1, <2>2, <2>3, SumInsert
  <2>5. SumOf(f, (u + 1)..(u + k)) = k * m
    BY <1>2
  <2>6. SumOf(f, (u + 1)..(u + (k + 1))) = m + k * m
    BY <2>3, <2>4, <2>5
  <2> QED BY <2>6
<1> HIDE DEF T
<1>3. n \in T
  BY <1>1, <1>2, NatSetInduction
<1> QED BY <1>3 DEF T

\* The number of pieces is the smallest that is enough.
LEMMA PiecesEnough ==
  ASSUME NEW a \in Nat \ {0}, NEW m \in Nat \ {0}
  PROVE  /\ Pieces(a, m) \in Nat \ {0}
         /\ (Pieces(a, m) - 1) * m < a /\ a <= Pieces(a, m) * m
<1> DEFINE q == (a + m - 1) \div m
<1>1. q \in Int /\ q * m <= a + m - 1 /\ a + m - 1 < (q + 1) * m
  OBVIOUS
<1> HIDE DEF q
<1>2. q >= 1
  BY <1>1
<1> QED BY <1>1, <1>2 DEF Pieces, q

\* A piece is not empty and no larger than the amount.
LEMMA PieceBounds ==
  ASSUME NEW a \in Nat \ {0}, NEW m \in Nat \ {0}, NEW i \in 1..Pieces(a, m)
  PROVE  Piece(a, m, i) \in 1..a
<1>1. CASE i < Pieces(a, m)
  <2>1. Pieces(a, m) - 1 >= 1 /\ Pieces(a, m) \in Nat
    BY <1>1, PiecesEnough
  <2>2. m <= (Pieces(a, m) - 1) * m
    BY <2>1
  <2> QED BY <1>1, <2>1, <2>2, PiecesEnough DEF Piece
<1>2. CASE i = Pieces(a, m)
  <2>1. 0 <= (i - 1) * m
    BY PiecesEnough
  <2> QED BY <1>2, <2>1, PiecesEnough DEF Piece
<1> QED BY <1>1, <1>2, PiecesEnough

\* The pieces together are the amount.
LEMMA PiecesTogether ==
  ASSUME NEW a \in Nat \ {0}, NEW m \in Nat \ {0}, NEW u \in Nat, NEW f,
         \A l \in (u + 1)..(u + Pieces(a, m)) : f[l] = Piece(a, m, l - u)
  PROVE  SumOf(f, (u + 1)..(u + Pieces(a, m))) = a
<1> DEFINE n == Pieces(a, m)
<1>0. n \in Nat /\ n >= 1
  BY PiecesEnough
<1> HIDE DEF n
<1>1. PICK k \in Nat : n = k + 1
  <2>1. n - 1 \in Nat /\ n = (n - 1) + 1
    BY <1>0
  <2> QED BY <2>1
<1>2. \A l \in (u + 1)..(u + k) : f[l] = m
  <2> SUFFICES ASSUME NEW l \in (u + 1)..(u + k) PROVE f[l] = m
    OBVIOUS
  <2>1. l - u < n /\ l \in (u + 1)..(u + n)
    BY <1>1
  <2> QED BY <2>1 DEF n, Piece
<1>3. f[u + n] = a - k * m
  <2>1. u + n \in (u + 1)..(u + n) /\ (u + n) - u = n /\ ~ (n < n) /\ n - 1 = k
    BY <1>0, <1>1
  <2> QED BY <2>1 DEF n, Piece
<1>4. SumOf(f, (u + 1)..(u + k)) = k * m
  BY <1>2, EqualPieces
<1>5. (u + 1)..(u + n) = ((u + 1)..(u + k)) \cup {u + n} /\ u + n \notin (u + 1)..(u + k)
  BY <1>1
<1>6. IsFiniteSet((u + 1)..(u + k)) /\ k * m \in Int
  BY FS_Interval
<1>7. \A y \in ((u + 1)..(u + k)) \cup {u + n} : f[y] \in Int
  BY <1>2, <1>3, <1>6
<1>8. SumOf(f, (u + 1)..(u + n)) = f[u + n] + SumOf(f, (u + 1)..(u + k))
  BY <1>5, <1>6, <1>7, SumInsert
<1>9. SumOf(f, (u + 1)..(u + n)) = a
  BY <1>3, <1>4, <1>6, <1>8
<1> QED BY <1>9 DEF n

-----------------------------------------------------------------------------
(* Rows, orders and queues *)

LEMMA IdsFinite ==
  /\ Ids \subseteq Nat /\ IsFiniteSet(Ids)
  /\ \A S \in SUBSET Ids : IsFiniteSet(S)
<1>1. IsFiniteSet(Ids)
  BY FS_Interval, LiquidatorBounds DEF Ids
<1>2. Ids \subseteq Nat
  BY LiquidatorBounds DEF Ids
<1> QED BY <1>1, <1>2, FS_Subset

\* The ids that are given next are not in use.
LEMMA FreshIds ==
  ASSUME RowsInv
  PROVE  LET used == Cardinality({l \in Ids : liq[l].st # "none"})
         IN /\ used \in Nat
            /\ \A l \in Ids : l > used => liq[l].st = "none"
            /\ \A l \in Ids : l <= used => liq[l].st # "none"
<1> DEFINE U == {l \in Ids : liq[l].st # "none"}
           used == Cardinality(U)
<1>0. IsFiniteSet(U) /\ used \in Nat
  BY IdsFinite, FS_CardinalityType
<1>1. ASSUME NEW l \in Ids, l > used, liq[l].st # "none" PROVE FALSE
  <2>1. 1..l \subseteq U
    <3>1. \A k \in 1..l : k \in Ids
      BY <1>1, LiquidatorBounds DEF Ids
    <3> QED BY <1>1, <3>1 DEF RowsInv, Prefix
  <2>2. Cardinality(1..l) = l
    BY IdsFinite, FS_Interval DEF Ids
  <2>3. Cardinality(1..l) <= used
    BY <1>0, <2>1, FS_Subset
  <2> QED BY <1>0, <1>1, <2>2, <2>3, IdsFinite
<1>2. ASSUME NEW l \in Ids, l <= used, liq[l].st = "none" PROVE FALSE
  <2>1. U \subseteq 1..(l - 1)
    <3> SUFFICES ASSUME NEW k \in U, ~ (k < l) PROVE FALSE
      BY DEF Ids
    <3>1. l \in 1..k
      BY DEF Ids
    <3> QED BY <1>2, <3>1 DEF RowsInv, Prefix
  <2>2. l - 1 \in Nat /\ IsFiniteSet(1..(l - 1)) /\ Cardinality(1..(l - 1)) = l - 1
    BY FS_Interval DEF Ids
  <2>3. used <= Cardinality(1..(l - 1))
    BY <2>1, <2>2, FS_Subset
  <2> QED BY <1>0, <1>2, <2>2, <2>3, IdsFinite
<1> QED BY <1>0, <1>1, <1>2

\* What CreateLiquidations writes: the pieces of an amount, after the first u ids.
New(u, amount, max) == (u + 1)..(u + Pieces(amount, max))
Born(r, u, amount, max) ==
  /\ New(u, amount, max) \subseteq Ids /\ u + 1 \in New(u, amount, max)
  /\ amount \in Nat \ {0} /\ amount <= Unfilled(r) /\ max \in Nat \ {0}
  /\ \A l \in Ids : l <= u => liq[l].st # "none"
  /\ \A l \in New(u, amount, max) :
       /\ liq[l] = NoLiquidation /\ liq'[l] \in Liquidations
       /\ liq'[l].st = "new" /\ liq'[l].req = r /\ liq'[l].ext = FALSE
       /\ liq'[l].filled = 0 /\ liq'[l].paid = 0
       /\ liq'[l].amount = Piece(amount, max, l - u) /\ liq'[l].amount >= 1
  /\ \A l \in Ids \ New(u, amount, max) : liq'[l] = liq[l]
  /\ liq' = [l \in Ids |-> liq'[l]]
  /\ creating' \subseteq creating \cup (Ids \X {"internal", "external"})

LEMMA CreateEffect ==
  ASSUME RowsInv, NEW r \in Requests, CreateLiquidations(r)
  PROVE  /\ \E u \in Nat, amount \in Nat, max \in Nat : Born(r, u, amount, max)
         /\ faults' \in 0..MaxFaults /\ rstat' = [rstat EXCEPT ![r] = "in_progress"]
         /\ UNCHANGED <<rfilled, updates, orders, sla, running, ledger>>
<1> DEFINE used == Cardinality({l \in Ids : liq[l].st # "none"})
<1>0. /\ used \in Nat /\ \A l \in Ids : l > used => liq[l].st = "none"
      /\ \A l \in Ids : l <= used => liq[l].st # "none"
  BY FreshIds
<1>1. PICK amount \in 1..Unfilled(r), max \in 1..Amount :
        /\ used + Pieces(amount, max) <= MaxLiq
        /\ liq' = [l \in Ids |-> IF l \in New(used, amount, max)
                                 THEN [NoLiquidation EXCEPT !.st = "new", !.req = r,
                                         !.amount = Piece(amount, max, l - used)]
                                 ELSE liq[l]]
        /\ \/ \E type \in {"internal", "external"} :
                creating' = creating \cup (New(used, amount, max) \X {type})
           \/ creating' = creating
  BY DEF CreateLiquidations, New
<1> HIDE DEF used
<1>2. Unfilled(r) \in Int /\ Unfilled(r) <= Amount /\ Amount \in Nat
  BY LiquidatorBounds DEF RowsInv, Typed, Unfilled
<1>3. amount \in Nat \ {0} /\ amount <= Amount /\ max \in Nat \ {0}
  BY <1>2
<1>4. Pieces(amount, max) \in Nat \ {0}
  BY <1>3, PiecesEnough
<1>5. New(used, amount, max) \subseteq Ids /\ used + 1 \in New(used, amount, max)
  <2>1. PICK n : n = Pieces(amount, max) /\ n \in Nat \ {0} /\ used + n <= MaxLiq
    BY <1>1, <1>4
  <2>2. (used + 1)..(used + n) \subseteq Ids /\ used + 1 \in (used + 1)..(used + n)
    BY <1>0, <2>1, LiquidatorBounds DEF Ids
  <2> QED BY <2>1, <2>2 DEF New
<1>6. ASSUME NEW l \in New(used, amount, max)
      PROVE  /\ liq[l] = NoLiquidation /\ liq'[l] \in Liquidations
             /\ liq'[l].st = "new" /\ liq'[l].req = r /\ liq'[l].ext = FALSE
             /\ liq'[l].filled = 0 /\ liq'[l].paid = 0
             /\ liq'[l].amount = Piece(amount, max, l - used) /\ liq'[l].amount >= 1
  <2>1. l \in Ids /\ l > used /\ l - used \in 1..Pieces(amount, max)
    <3>1. PICK n \in Nat : n = Pieces(amount, max)
      BY <1>4
    <3>2. l \in (used + 1)..(used + n)
      BY <3>1 DEF New
    <3>3. l \in Ids /\ l > used /\ l - used \in 1..n
      BY <1>0, <1>5, <3>2
    <3> QED BY <3>1, <3>3
  <2>2. liq[l] = NoLiquidation
    BY <1>0, <2>1 DEF RowsInv, RowOK
  <2>3. Piece(amount, max, l - used) \in 1..amount
    BY <1>3, <2>1, PieceBounds
  <2>4. liq'[l] = [NoLiquidation EXCEPT !.st = "new", !.req = r,
                     !.amount = Piece(amount, max, l - used)]
    BY <1>1, <2>1
  <2>5. liq'[l] = [st |-> "new", req |-> r, amount |-> Piece(amount, max, l - used),
                   ext |-> FALSE, filled |-> 0, paid |-> 0]
    BY <2>4 DEF NoLiquidation
  <2>6. Piece(amount, max, l - used) \in 0..Amount /\ Piece(amount, max, l - used) >= 1
    BY <1>2, <1>3, <2>3
  <2> QED BY <1>2, <2>2, <2>5, <2>6 DEF Liquidations
<1>7. \A l \in Ids \ New(used, amount, max) : liq'[l] = liq[l]
  BY <1>1
<1>8. liq' = [l \in Ids |-> liq'[l]]
  BY <1>1
<1>9. creating' \subseteq creating \cup (Ids \X {"internal", "external"})
  BY <1>1, <1>5
<1>10. amount <= Unfilled(r)
  BY <1>2
<1>11. Born(r, used, amount, max)
  BY <1>0, <1>3, <1>5, <1>6, <1>7, <1>8, <1>9, <1>10 DEF Born
<1>12. faults' \in 0..MaxFaults
  <2>1. faults' = faults \/ (faults < MaxFaults /\ faults' = faults + 1)
    BY DEF CreateLiquidations
  <2> QED BY <2>1, LiquidatorBounds DEF RowsInv, Typed
<1>13. /\ rstat' = [rstat EXCEPT ![r] = "in_progress"]
       /\ UNCHANGED <<rfilled, updates, orders, sla, running, ledger>>
  BY DEF CreateLiquidations
<1> QED BY <1>0, <1>11, <1>12, <1>13

\* What a task that creates an order writes.
LEMMA OrderTaskEffect ==
  ASSUME Typed, NEW l \in Ids, OrderTask(l)
  PROVE  /\ creating' \subseteq creating /\ faults' \in 0..MaxFaults
         /\ UNCHANGED <<requests, updates, sla, running, ledger>>
         /\ liq' \in [Ids -> Liquidations]
         /\ order' \in [Ids -> Orders] /\ broker' \in [Ids -> Orders]
         /\ \A k \in Ids : k # l => /\ liq'[k] = liq[k] /\ order'[k] = order[k]
                                    /\ broker'[k] = broker[k]
         /\ \/ UNCHANGED <<liq, orders>>
            \/ /\ liq[l].st = "new" /\ l \notin del.ids
               /\ \/ liq' = liq /\ order' = order /\ broker'[l] = NewOrder
                  \/ /\ liq'[l].st = "open" /\ liq'[l].req = liq[l].req
                     /\ liq'[l].amount = liq[l].amount /\ liq'[l].filled = liq[l].filled
                     /\ liq'[l].paid = liq[l].paid
                     /\ \/ liq'[l].ext = FALSE /\ order'[l] = NewOrder /\ broker' = broker
                        \/ /\ liq'[l].ext = TRUE /\ order' = order
                           /\ broker'[l] \in {broker[l], NewOrder}
<1> USE DEF requests, orders, running, ledger, TakesTask
<1>0. NewOrder \in Orders /\ liq[l] \in Liquidations
  BY LiquidatorBounds DEF NewOrder, Orders, Typed
<1>1. CASE \E type \in {"internal", "external"} : TaskFindsNothing(l, type)
  BY <1>1 DEF TaskFindsNothing, Typed
<1>2. CASE \E type \in {"internal", "external"} : CreateInternalOrder(l, type)
  <2>1. /\ liq[l].st = "new" /\ l \notin del.ids /\ creating' \subseteq creating
        /\ order' = [order EXCEPT ![l] = NewOrder] /\ broker' = broker
        /\ liq' = [liq EXCEPT ![l].st = "open", ![l].ext = FALSE]
        /\ UNCHANGED <<requests, updates, sla, running, ledger, faults>>
    BY <1>2 DEF CreateInternalOrder, Creates
  <2>2. liq'[l] = [liq[l] EXCEPT !.st = "open", !.ext = FALSE]
    BY <2>1 DEF Typed
  <2>3. liq'[l] \in Liquidations
    BY <1>0, <2>2 DEF Liquidations
  <2>4. /\ liq'[l].st = "open" /\ liq'[l].ext = FALSE /\ liq'[l].req = liq[l].req
        /\ liq'[l].amount = liq[l].amount /\ liq'[l].filled = liq[l].filled
        /\ liq'[l].paid = liq[l].paid
    BY <1>0, <2>2 DEF Liquidations
  <2> QED BY <1>0, <2>1, <2>3, <2>4 DEF Typed
<1>3. CASE \E type \in {"internal", "external"} : OrderNotCreated(l, type)
  <2>1. CASE UNCHANGED <<orders, faults>>
    BY <1>3, <2>1 DEF OrderNotCreated, Creates, Typed
  <2>2. CASE faults < MaxFaults /\ faults' = faults + 1 /\ AcceptedByBroker(l)
    BY <1>0, <1>3, <2>2, LiquidatorBounds
       DEF OrderNotCreated, Creates, AcceptedByBroker, Typed
  <2> QED BY <1>3, <2>1, <2>2 DEF OrderNotCreated
<1>4. CASE CreateExternalOrder(l)
  <2>1. /\ liq[l].st = "new" /\ l \notin del.ids /\ creating' \subseteq creating
        /\ liq' = [liq EXCEPT ![l].st = "open", ![l].ext = TRUE]
        /\ UNCHANGED <<requests, updates, sla, running, ledger, faults>>
        /\ order' = order
        /\ broker' \in {broker, [broker EXCEPT ![l] = NewOrder]}
    BY <1>4 DEF CreateExternalOrder, Creates, AcceptedByBroker
  <2>2. liq'[l] = [liq[l] EXCEPT !.st = "open", !.ext = TRUE]
    BY <2>1 DEF Typed
  <2>3. liq'[l] \in Liquidations
    BY <1>0, <2>2 DEF Liquidations
  <2>4. /\ liq'[l].st = "open" /\ liq'[l].ext = TRUE /\ liq'[l].req = liq[l].req
        /\ liq'[l].amount = liq[l].amount /\ liq'[l].filled = liq[l].filled
        /\ liq'[l].paid = liq[l].paid
    BY <1>0, <2>2 DEF Liquidations
  <2>5. /\ broker' \in [Ids -> Orders] /\ broker'[l] \in {broker[l], NewOrder}
        /\ \A k \in Ids : k # l => broker'[k] = broker[k]
    BY <1>0, <2>1 DEF Typed
  <2> QED BY <2>1, <2>3, <2>4, <2>5 DEF Typed
<1> QED BY <1>1, <1>2, <1>3, <1>4 DEF OrderTask

\* What an update task writes.
LEMMA UpdateTaskEffect ==
  ASSUME Typed, NEW l \in Ids, UpdateTask(l)
  PROVE  /\ updates[l] > 0 /\ l \notin share.ids /\ updates' = [updates EXCEPT ![l] = @ - 1]
         /\ UNCHANGED <<requests, creating, orders, sla, running, ledger, faults>>
         /\ liq' \in [Ids -> Liquidations]
         /\ \A k \in Ids : k # l => liq'[k] = liq[k]
         /\ liq'[l].req = liq[l].req /\ liq'[l].amount = liq[l].amount
         /\ liq'[l].ext = liq[l].ext /\ liq'[l].paid = liq[l].paid
         /\ liq'[l].filled \in {liq[l].filled, broker[l].fill}
         /\ \/ liq'[l].st = liq[l].st
            \/ liq'[l].st = "overstock"
            \/ /\ liq'[l].st = "ready_to_share"
               /\ \/ broker[l].st = "closed" /\ liq'[l].filled = broker[l].fill
                  \/ broker[l].st = "none" /\ liq'[l].filled = liq[l].filled
<1>0. liq[l] \in Liquidations /\ broker[l] \in Orders
  BY DEF Typed
<1>1. TakesUpdate(l)
  BY DEF UpdateTask, UpdateStatus, SettlementNotFound, UpdateFails
<1>2. CASE UpdateStatus(l)
  <2>1. PICK st : st = StatusAfter(l)
    OBVIOUS
  <2>2. \/ st = liq[l].st \/ st = "overstock"
        \/ st = "ready_to_share" /\ broker[l].st = "closed"
    BY <2>1 DEF StatusAfter
  <2>3. liq' = [liq EXCEPT ![l] = [liq[l] EXCEPT !.st = st, !.filled = broker[l].fill]]
    BY <1>2, <2>1 DEF UpdateStatus, Typed
  <2>4. liq'[l] = [liq[l] EXCEPT !.st = st, !.filled = broker[l].fill]
    BY <2>3 DEF Typed
  <2>5. liq'[l] \in Liquidations
    BY <1>0, <2>2, <2>4 DEF Liquidations, Orders
  <2>6. /\ liq'[l].st = st /\ liq'[l].filled = broker[l].fill
        /\ liq'[l].req = liq[l].req /\ liq'[l].amount = liq[l].amount
        /\ liq'[l].ext = liq[l].ext /\ liq'[l].paid = liq[l].paid
    BY <1>0, <2>4 DEF Liquidations
  <2> QED BY <1>1, <2>2, <2>3, <2>5, <2>6 DEF TakesUpdate, Typed
<1>3. CASE SettlementNotFound(l) \/ UpdateFails(l)
  <2>1. CASE liq' = liq
    BY <1>1, <2>1 DEF TakesUpdate, Typed
  <2>2. CASE liq' # liq
    <3>0. PICK st : /\ st = "overstock" \/ (st = "ready_to_share" /\ broker[l].st = "none")
                    /\ liq' = [liq EXCEPT ![l].st = st]
      <4>1. CASE SettlementNotFound(l)
        BY <4>1 DEF SettlementNotFound
      <4>2. CASE UpdateFails(l)
        <5>1. liq' = [liq EXCEPT ![l].st = "overstock"]
          BY <2>2, <4>2 DEF UpdateFails
        <5> WITNESS "overstock"
        <5> QED BY <5>1
      <4> QED BY <1>3, <4>1, <4>2
    <3>1. liq'[l] = [liq[l] EXCEPT !.st = st]
      BY <3>0 DEF Typed
    <3>2. liq'[l] \in Liquidations
      BY <1>0, <3>0, <3>1 DEF Liquidations
    <3>3. /\ liq'[l].st = st /\ liq'[l].filled = liq[l].filled
          /\ liq'[l].req = liq[l].req /\ liq'[l].amount = liq[l].amount
          /\ liq'[l].ext = liq[l].ext /\ liq'[l].paid = liq[l].paid
      BY <1>0, <3>1 DEF Liquidations
    <3> QED BY <1>1, <3>0, <3>2, <3>3 DEF TakesUpdate, Typed
  <2> QED BY <2>1, <2>2
<1> QED BY <1>2, <1>3 DEF UpdateTask

\* A market fills an order by one unit and closes it at the end.
LEMMA FillEffect ==
  ASSUME NEW o \in Orders, NEW a \in 0..Amount, o.st = "open", o.fill < a
  PROVE  /\ Fill(o, a) \in Orders /\ Fill(o, a).fill = o.fill + 1 /\ Fill(o, a).fill <= a
         /\ Fill(o, a).st \in {"open", "closed"}
         /\ Fill(o, a).st = "open" => Fill(o, a).fill < a
<1>1. o.fill + 1 \in 0..Amount /\ o.fill \in 0..Amount
  BY LiquidatorBounds DEF Orders
<1> QED BY <1>1, LiquidatorBounds DEF Fill, Orders

\* What the markets and the time change.
LEMMA MarketEffect ==
  ASSUME RowsInv, NEW l \in Ids, OrderMatched(l) \/ BrokerWorks(l) \/ SlaPasses(l)
  PROVE  /\ UNCHANGED <<requests, liq, queues, running, ledger, faults>>
         /\ sla' \subseteq Ids
         /\ order' \in [Ids -> Orders] /\ broker' \in [Ids -> Orders]
         /\ \A k \in Ids :
              /\ order[k].st # "open" => order'[k] = order[k]
              /\ broker[k].st # "open" => broker'[k] = broker[k]
              /\ order'[k].fill >= order[k].fill /\ broker'[k].fill >= broker[k].fill
              /\ broker[k].st # "none" => broker'[k].st # "none"
              /\ OrderFits(order'[k], k) /\ OrderFits(broker'[k], k)
<1>0. /\ Typed /\ order[l] \in Orders /\ broker[l] \in Orders /\ liq[l] \in Liquidations
      /\ \A k \in Ids : order[k].fill \in Int /\ broker[k].fill \in Int
      /\ \A k \in Ids : OrderFits(order[k], k) /\ OrderFits(broker[k], k)
  BY LiquidatorBounds DEF RowsInv, Typed, RowOK, Orders
<1>1. CASE OrderMatched(l)
  <2>1. /\ order[l].st = "open" /\ order' = [order EXCEPT ![l] = Fill(order[l], liq[l].amount)]
        /\ UNCHANGED <<requests, liq, queues, broker, sla, running, ledger, faults>>
    BY <1>1 DEF OrderMatched
  <2>2. liq[l].amount \in 0..Amount /\ order[l].fill < liq[l].amount
    BY <1>0, <2>1 DEF OrderFits, Liquidations
  <2>3. PICK o : /\ o = Fill(order[l], liq[l].amount) /\ o \in Orders /\ o.fill = order[l].fill + 1
                 /\ o.fill <= liq[l].amount /\ o.st \in {"open", "closed"}
                 /\ o.st = "open" => o.fill < liq[l].amount
    BY <1>0, <2>1, <2>2, FillEffect
  <2>4. order' = [order EXCEPT ![l] = o]
    BY <2>1, <2>3
  <2>5. order' \in [Ids -> Orders] /\ order'[l] = o /\ \A k \in Ids : k # l => order'[k] = order[k]
    BY <1>0, <2>3, <2>4 DEF Typed
  <2>6. \A k \in Ids : order'[k].fill >= order[k].fill /\ OrderFits(order'[k], k)
    BY <1>0, <2>3, <2>5 DEF OrderFits
  <2> QED BY <1>0, <2>1, <2>3, <2>5, <2>6 DEF Typed
<1>2. CASE BrokerWorks(l)
  <2>1. /\ broker[l].st = "open"
        /\ UNCHANGED <<requests, liq, queues, order, sla, running, ledger, faults>>
        /\ \/ broker' = [broker EXCEPT ![l] = Fill(broker[l], liq[l].amount)]
           \/ broker' = [broker EXCEPT ![l] = [broker[l] EXCEPT !.st = "closed"]]
    BY <1>0, <1>2 DEF BrokerWorks, Typed
  <2>2. liq[l].amount \in 0..Amount /\ broker[l].fill < liq[l].amount
    BY <1>0, <2>1 DEF OrderFits, Liquidations
  <2>3. PICK o : /\ broker' = [broker EXCEPT ![l] = o] /\ o \in Orders /\ o.fill >= broker[l].fill
                 /\ o.fill <= liq[l].amount /\ o.st # "none"
                 /\ o.st = "open" => o.fill < liq[l].amount
    <3>1. CASE broker' = [broker EXCEPT ![l] = Fill(broker[l], liq[l].amount)]
      <4>1. PICK o : /\ o = Fill(broker[l], liq[l].amount) /\ o \in Orders
                     /\ o.fill = broker[l].fill + 1 /\ o.fill <= liq[l].amount /\ o.st # "none"
                     /\ o.st = "open" => o.fill < liq[l].amount
        BY <1>0, <2>1, <2>2, FillEffect
      <4>2. broker' = [broker EXCEPT ![l] = o] /\ o.fill >= broker[l].fill
        BY <1>0, <3>1, <4>1
      <4> WITNESS o
      <4> QED BY <4>1, <4>2
    <3>2. CASE broker' = [broker EXCEPT ![l] = [broker[l] EXCEPT !.st = "closed"]]
      <4>1. PICK o : o = [broker[l] EXCEPT !.st = "closed"]
        OBVIOUS
      <4>2. o \in Orders /\ o.st = "closed" /\ o.fill = broker[l].fill
        BY <1>0, <4>1 DEF Orders
      <4>3. broker' = [broker EXCEPT ![l] = o] /\ o.fill >= broker[l].fill /\ o.fill <= liq[l].amount
        BY <1>0, <2>2, <3>2, <4>1, <4>2, LiquidatorBounds
      <4> WITNESS o
      <4> QED BY <4>2, <4>3
    <3> QED BY <2>1, <3>1, <3>2
  <2>5. broker' \in [Ids -> Orders] /\ broker'[l] = o /\ \A k \in Ids : k # l => broker'[k] = broker[k]
    BY <1>0, <2>3 DEF Typed
  <2>6. \A k \in Ids : broker'[k].fill >= broker[k].fill /\ OrderFits(broker'[k], k)
    BY <1>0, <2>3, <2>5 DEF OrderFits
  <2> QED BY <1>0, <2>1, <2>3, <2>5, <2>6 DEF Typed
<1>3. CASE SlaPasses(l)
  BY <1>0, <1>3 DEF SlaPasses, Typed, orders
<1> QED BY <1>1, <1>2, <1>3

\* What the check of the internal orders writes.
LEMMA ProcessEffect ==
  ASSUME Typed, ProcessLiquidationOrders
  PROVE  /\ UNCHANGED <<requests, queues, broker, sla, running, ledger, faults>>
         /\ liq' \in [Ids -> Liquidations] /\ order' \in [Ids -> Orders]
         /\ \A l \in Ids :
              /\ order'[l].fill = order[l].fill
              /\ order'[l].st \in {order[l].st, "closed"}
              /\ \/ liq'[l] = liq[l] /\ order'[l] = order[l]
                 \/ /\ liq[l].st = "open" /\ ~ liq[l].ext /\ order'[l].st = "closed"
                    /\ liq'[l].st = "ready_to_share" /\ liq'[l].filled = order[l].fill
                    /\ liq'[l].req = liq[l].req /\ liq'[l].amount = liq[l].amount
                    /\ liq'[l].ext = liq[l].ext /\ liq'[l].paid = liq[l].paid
<1>1. PICK ids :
        /\ ids \in SUBSET Ids /\ \A l \in ids : liq[l].st = "open" /\ ~ liq[l].ext
        /\ order' = [l \in Ids |-> IF l \in ids THEN [order[l] EXCEPT !.st = "closed"]
                                   ELSE order[l]]
        /\ liq' = [l \in Ids |-> IF l \in ids
                                 THEN [liq[l] EXCEPT !.st = "ready_to_share",
                                                     !.filled = order[l].fill]
                                 ELSE liq[l]]
        /\ UNCHANGED <<requests, queues, broker, sla, running, ledger, faults>>
  <2>1. PICK old \in SUBSET {l \in Ids : order[l].st = "open"} :
          LET ids == {l \in Ids : /\ liq[l].st = "open" /\ ~ liq[l].ext
                                  /\ order[l].st = "closed" \/ l \in old}
          IN /\ order' = [l \in Ids |-> IF l \in ids THEN [order[l] EXCEPT !.st = "closed"]
                                        ELSE order[l]]
             /\ liq' = [l \in Ids |-> IF l \in ids
                                      THEN [liq[l] EXCEPT !.st = "ready_to_share",
                                                          !.filled = order[l].fill]
                                      ELSE liq[l]]
             /\ UNCHANGED <<requests, queues, broker, sla, running, ledger, faults>>
    BY DEF ProcessLiquidationOrders
  <2>2. PICK ids : ids = {l \in Ids : /\ liq[l].st = "open" /\ ~ liq[l].ext
                                      /\ order[l].st = "closed" \/ l \in old}
    OBVIOUS
  <2>3. ids \in SUBSET Ids /\ \A l \in ids : liq[l].st = "open" /\ ~ liq[l].ext
    BY <2>2
  <2> WITNESS ids
  <2> QED BY <2>1, <2>2, <2>3
<1>2. ASSUME NEW l \in Ids
      PROVE  /\ order'[l].fill = order[l].fill /\ order'[l] \in Orders /\ liq'[l] \in Liquidations
             /\ order'[l].st \in {order[l].st, "closed"}
             /\ \/ liq'[l] = liq[l] /\ order'[l] = order[l]
                \/ /\ liq[l].st = "open" /\ ~ liq[l].ext /\ order'[l].st = "closed"
                   /\ liq'[l].st = "ready_to_share" /\ liq'[l].filled = order[l].fill
                   /\ liq'[l].req = liq[l].req /\ liq'[l].amount = liq[l].amount
                   /\ liq'[l].ext = liq[l].ext /\ liq'[l].paid = liq[l].paid
  <2>1. liq[l] \in Liquidations /\ order[l] \in Orders
    BY DEF Typed
  <2>2. CASE l \notin ids
    BY <1>1, <2>1, <2>2
  <2>3. CASE l \in ids
    <3>1. /\ order'[l] = [order[l] EXCEPT !.st = "closed"]
          /\ liq'[l] = [liq[l] EXCEPT !.st = "ready_to_share", !.filled = order[l].fill]
      BY <1>1, <2>3
    <3>2. order'[l] \in Orders /\ order'[l].st = "closed" /\ order'[l].fill = order[l].fill
      BY <2>1, <3>1 DEF Orders
    <3>3. liq'[l] \in Liquidations
      BY <2>1, <3>1 DEF Liquidations, Orders
    <3>4. /\ liq'[l].st = "ready_to_share" /\ liq'[l].filled = order[l].fill
          /\ liq'[l].req = liq[l].req /\ liq'[l].amount = liq[l].amount
          /\ liq'[l].ext = liq[l].ext /\ liq'[l].paid = liq[l].paid
      BY <2>1, <3>1 DEF Liquidations
    <3> QED BY <1>1, <2>3, <3>2, <3>3, <3>4
  <2> QED BY <2>2, <2>3
<1>3. liq' \in [Ids -> Liquidations] /\ order' \in [Ids -> Orders]
  BY <1>1, <1>2
<1> QED BY <1>1, <1>2, <1>3

\* What the two commits write to the liquidations.
LEMMA ShareEffect ==
  ASSUME Typed, ShareCommit
  PROVE  /\ liq' \in [Ids -> Liquidations]
         /\ \A l \in Ids :
              /\ l \notin share.ids => liq'[l] = liq[l] /\ maker'[l] = maker[l]
              /\ l \in share.ids =>
                   /\ liq'[l].st = "done" /\ liq'[l].paid = liq[l].filled
                   /\ liq'[l].req = liq[l].req /\ liq'[l].amount = liq[l].amount
                   /\ liq'[l].ext = liq[l].ext /\ liq'[l].filled = liq[l].filled
                   /\ liq[l].ext => maker'[l] = liq[l].filled
                   /\ ~ liq[l].ext => maker'[l] = maker[l]
<1>1. ASSUME NEW l \in Ids
      PROVE  /\ liq'[l] \in Liquidations
             /\ l \notin share.ids => liq'[l] = liq[l] /\ maker'[l] = maker[l]
             /\ l \in share.ids =>
                  /\ liq'[l].st = "done" /\ liq'[l].paid = liq[l].filled
                  /\ liq'[l].req = liq[l].req /\ liq'[l].amount = liq[l].amount
                  /\ liq'[l].ext = liq[l].ext /\ liq'[l].filled = liq[l].filled
                  /\ liq[l].ext => maker'[l] = liq[l].filled
                  /\ ~ liq[l].ext => maker'[l] = maker[l]
  <2>1. liq[l] \in Liquidations
    BY DEF Typed
  <2>2. CASE l \notin share.ids
    BY <2>1, <2>2 DEF ShareCommit
  <2>3. CASE l \in share.ids
    <3>1. liq'[l] = [liq[l] EXCEPT !.st = "done", !.paid = liq[l].filled]
      BY <2>3 DEF ShareCommit
    <3>2. liq'[l] \in Liquidations
      BY <2>1, <3>1 DEF Liquidations
    <3>3. /\ liq'[l].st = "done" /\ liq'[l].paid = liq[l].filled
          /\ liq'[l].req = liq[l].req /\ liq'[l].amount = liq[l].amount
          /\ liq'[l].ext = liq[l].ext /\ liq'[l].filled = liq[l].filled
      BY <2>1, <3>1 DEF Liquidations
    <3>4. /\ liq[l].ext => maker'[l] = liq[l].filled
          /\ ~ liq[l].ext => maker'[l] = maker[l]
      BY <2>3 DEF ShareCommit
    <3> QED BY <2>3, <3>2, <3>3, <3>4
  <2> QED BY <2>2, <2>3
<1>2. liq' = [l \in Ids |-> IF l \in share.ids
                           THEN [liq[l] EXCEPT !.st = "done", !.paid = liq[l].filled]
                           ELSE liq[l]]
  BY DEF ShareCommit
<1>3. DOMAIN liq' = Ids /\ liq' = [l \in Ids |-> liq'[l]]
  BY <1>2
<1> QED BY <1>1, <1>3

LEMMA DeleteEffect ==
  ASSUME Typed, DeleteCommit
  PROVE  /\ liq' \in [Ids -> Liquidations]
         /\ \A l \in Ids :
              /\ l \notin del.ids => liq'[l] = liq[l]
              /\ l \in del.ids =>
                   /\ liq'[l].st = "deleted" /\ liq'[l].req = None
                   /\ liq'[l].paid = liq[l].paid /\ liq'[l].amount = liq[l].amount
                   /\ liq'[l].ext = liq[l].ext /\ liq'[l].filled = liq[l].filled
<1>1. ASSUME NEW l \in Ids
      PROVE  /\ liq'[l] \in Liquidations
             /\ l \notin del.ids => liq'[l] = liq[l]
             /\ l \in del.ids =>
                  /\ liq'[l].st = "deleted" /\ liq'[l].req = None
                  /\ liq'[l].paid = liq[l].paid /\ liq'[l].amount = liq[l].amount
                  /\ liq'[l].ext = liq[l].ext /\ liq'[l].filled = liq[l].filled
  <2>1. liq[l] \in Liquidations
    BY DEF Typed
  <2>2. CASE l \notin del.ids
    BY <2>1, <2>2 DEF DeleteCommit
  <2>3. CASE l \in del.ids
    <3>1. liq'[l] = [liq[l] EXCEPT !.st = "deleted", !.req = None]
      BY <2>3 DEF DeleteCommit
    <3> QED BY <2>1, <2>3, <3>1 DEF Liquidations
  <2> QED BY <2>2, <2>3
<1>2. liq' = [l \in Ids |-> IF l \in del.ids
                           THEN [liq[l] EXCEPT !.st = "deleted", !.req = None]
                           ELSE liq[l]]
  BY DEF DeleteCommit
<1>3. liq' = [l \in Ids |-> liq'[l]]
  BY <1>2
<1> QED BY <1>1, <1>3

\* The sums that are booked are naturals.
LEMMA SharedNat ==
  ASSUME RowsInv, NEW r, NEW ids \in SUBSET Ids
  PROVE  SharedTo(r, ids) \in Nat
<1> DEFINE S == {l \in ids : liq[l].req = r}
           f == [l \in Ids |-> Unshared(l)]
<1>1. IsFiniteSet(S) /\ S \subseteq S
  BY IdsFinite
<1>2. \A l \in S : f[l] \in Nat
  BY DEF RowsInv, Typed, RowOK, Liquidations, Unshared
<1> HIDE DEF S, f
<1>3. SumOf(f, S) \in Nat
  BY <1>1, <1>2, SumPart
<1> QED BY <1>3 DEF S, f, SharedTo

LEMMA ExternalNat ==
  ASSUME RowsInv, NEW r PROVE External(r) \in Nat
<1> DEFINE S == {l \in Of(r) : liq[l].ext}
           f == [l \in Ids |-> liq[l].paid]
<1>1. IsFiniteSet(S) /\ S \subseteq S
  BY IdsFinite DEF Of
<1>2. \A l \in S : f[l] \in Nat
  BY DEF RowsInv, Typed, Liquidations, Of
<1> HIDE DEF S, f
<1>3. SumOf(f, S) \in Nat
  BY <1>1, <1>2, SumPart
<1> QED BY <1>3 DEF S, f, External

\* The requests of live rows are requests.
LEMMA RequestsOfRows ==
  ASSUME RowsInv, NEW ids \in SUBSET Ids,
         \A l \in ids : liq[l].st \notin {"none", "deleted"}
  PROVE  RequestsOf(ids) \subseteq Requests
  BY DEF RowsInv, RowOK, Typed, Liquidations, RequestsOf

LEMMA TypedStep ==
  ASSUME RowsInv, [Next]_vars PROVE Typed'
<1> USE DEF requests, orders, queues, running, ledger
<1>0. Typed /\ RowsInv /\ Nothing \in Jobs
  BY DEF RowsInv, Nothing, Jobs
<1>1. CASE UNCHANGED vars
  BY <1>0, <1>1 DEF vars, Typed
<1>2. ASSUME NEW r \in Requests, CreateLiquidations(r) PROVE Typed'
  <2>1. PICK u \in Nat, amount \in Nat, max \in Nat : Born(r, u, amount, max)
    BY <1>0, <1>2, CreateEffect
  <2>2. \A l \in Ids : liq'[l] \in Liquidations
    BY <1>0, <2>1 DEF Typed, Born
  <2>3. liq' \in [Ids -> Liquidations] /\ creating' \subseteq Ids \X {"internal", "external"}
    BY <1>0, <2>1, <2>2 DEF Typed, Born
  <2>4. /\ faults' \in 0..MaxFaults /\ rstat' = [rstat EXCEPT ![r] = "in_progress"]
        /\ UNCHANGED <<rfilled, updates, orders, sla, running, ledger>>
    BY <1>0, <1>2, CreateEffect
  <2> QED BY <1>0, <2>3, <2>4 DEF Typed
<1>3. ASSUME NEW r \in Requests, SubmitTransactions(r) \/ SubmitFails(r) PROVE Typed'
  <2>1. CASE SubmitTransactions(r)
    <3>1. credit' \in [Requests -> Nat]
      BY <1>0, <2>1, ExternalNat DEF SubmitTransactions, Typed
    <3> QED BY <1>0, <2>1, <3>1 DEF SubmitTransactions, Typed
  <2>2. CASE SubmitFails(r)
    BY <1>0, <2>2 DEF SubmitFails, Typed
  <2> QED BY <1>3, <2>1, <2>2
<1>4. ASSUME NEW l \in Ids, OrderTask(l) PROVE Typed'
  BY ZenonT(30), <1>0, <1>4, OrderTaskEffect DEF Typed
<1>5. ASSUME NEW l \in Ids, UpdateTask(l) PROVE Typed'
  <2>1. /\ updates[l] > 0 /\ updates' = [updates EXCEPT ![l] = @ - 1]
        /\ UNCHANGED <<requests, creating, orders, sla, running, ledger, faults>>
        /\ liq' \in [Ids -> Liquidations]
    BY <1>0, <1>5, UpdateTaskEffect
  <2>2. updates' \in [Ids -> 0..MaxQueued]
    BY <1>0, <2>1, LiquidatorBounds DEF Typed
  <2> QED BY <1>0, <2>1, <2>2 DEF Typed
<1>6. ASSUME NEW l \in Ids, OrderMatched(l) \/ BrokerWorks(l) \/ SlaPasses(l) PROVE Typed'
  BY <1>0, <1>6, MarketEffect DEF Typed
<1>7. CASE ProcessLiquidationOrders
  BY <1>0, <1>7, ProcessEffect DEF Typed
<1>8. CASE CheckExternal
  <2>1. updates' \in [Ids -> 0..MaxQueued]
    BY <1>0, <1>8, LiquidatorBounds DEF CheckExternal, Typed
  <2> QED BY <1>0, <1>8, <2>1 DEF CheckExternal, Typed
<1>9. CASE ShareDecide
  <2>1. Ready \subseteq Ids /\ RequestsOf(Ready) \subseteq Requests
    BY <1>0, RequestsOfRows DEF Ready
  <2>2. share' \in Jobs /\ overlapped' \subseteq Requests
    BY <1>0, <1>9, <2>1 DEF ShareDecide, Jobs, Typed
  <2> QED BY <1>0, <1>9, <2>2 DEF ShareDecide, Typed
<1>10. CASE ShareCommit
  <2>1. rfilled' \in [Requests -> Nat]
    <3>1. share.ids \in SUBSET Ids
      BY <1>0 DEF Typed, Jobs
    <3>2. \A r \in Requests : SharedTo(r, share.ids) \in Nat /\ rfilled[r] \in Nat
      BY <1>0, <3>1, SharedNat DEF Typed
    <3>3. \A r \in Requests : rfilled[r] + SharedTo(r, share.ids) \in Nat
      BY <3>2
    <3> QED BY <1>10, <3>3 DEF ShareCommit
  <2>2. rstat' \in [Requests -> {"pending", "in_progress", "waiting",
                                 "transactions_failed", "done"}]
    BY <1>0, <1>10 DEF ShareCommit, Typed
  <2>3. maker' \in [Ids -> 0..Amount]
    <3>1. \A l \in Ids : liq[l].filled \in 0..Amount /\ maker[l] \in 0..Amount
      BY <1>0 DEF Typed, Liquidations
    <3> QED BY <1>10, <3>1 DEF ShareCommit
  <2>4. liq' \in [Ids -> Liquidations]
    BY <1>0, <1>10, ShareEffect
  <2> QED BY <1>0, <1>10, <2>1, <2>2, <2>3, <2>4 DEF ShareCommit, Typed
<1>11. CASE DeleteDecide
  <2>1. PICK ids \in SUBSET {l \in Ids : liq[l].st = "new"} :
          /\ del' = [ids |-> ids, pending |-> {r \in RequestsOf(ids) : ActiveBeside(r, ids) = {}}]
          /\ overlapped' = overlapped \cup (RequestsOf(ids) \cap RequestsOf(share.ids))
          /\ UNCHANGED <<requests, liq, queues, orders, sla, share, ledger, faults>>
    BY <1>11 DEF DeleteDecide
  <2>2. ids \subseteq Ids /\ RequestsOf(ids) \subseteq Requests
    BY <1>0, RequestsOfRows
  <2>3. del' \in Jobs /\ overlapped' \subseteq Requests
    BY <1>0, <2>1, <2>2 DEF Jobs, Typed
  <2> QED BY <1>0, <2>1, <2>3 DEF Typed
<1>12. CASE DeleteCommit
  <2>1. liq' \in [Ids -> Liquidations]
    BY <1>0, <1>12, DeleteEffect
  <2>2. rstat' \in [Requests -> {"pending", "in_progress", "waiting",
                                 "transactions_failed", "done"}]
    BY <1>0, <1>12 DEF DeleteCommit, Typed
  <2> QED BY <1>0, <1>12, <2>1, <2>2 DEF DeleteCommit, Typed
<1> QED BY <1>1, <1>2, <1>3, <1>4, <1>5, <1>6, <1>7, <1>8, <1>9, <1>10, <1>11, <1>12 DEF Next

LEMMA PrefixStep ==
  ASSUME RowsInv, [Next]_vars PROVE Prefix'
<1> USE DEF requests, orders, queues, running, ledger
<1>0. Typed /\ RowsInv /\ Prefix /\ \A j \in Ids : \A i \in 1..j : i \in Ids
  BY LiquidatorBounds DEF RowsInv, Ids
<1> SUFFICES ASSUME NEW l \in Ids, liq'[l].st # "none", NEW k \in 1..l PROVE liq'[k].st # "none"
  BY DEF Prefix
<1>1. ASSUME \A j \in Ids : liq'[j].st = "none" <=> liq[j].st = "none" PROVE liq'[k].st # "none"
  BY <1>0, <1>1 DEF Prefix
<1>2. ASSUME NEW r \in Requests, CreateLiquidations(r) PROVE liq'[k].st # "none"
  <2>1. PICK u \in Nat, amount \in Nat, max \in Nat : Born(r, u, amount, max)
    BY <1>0, <1>2, CreateEffect
  <2>2. Pieces(amount, max) \in Nat
    BY <2>1, PiecesEnough DEF Born
  <2>3. k \in Ids
    BY <1>0
  <2>4. CASE k \in New(u, amount, max)
    BY <2>1, <2>4 DEF Born
  <2>5. CASE k \notin New(u, amount, max) /\ k <= u
    BY <2>1, <2>3, <2>5 DEF Born
  <2>6. CASE k \notin New(u, amount, max) /\ k > u
    <3>1. l \notin New(u, amount, max)
      BY <2>2, <2>6, IdsFinite DEF New
    <3> QED BY <1>0, <2>1, <2>3, <2>6, <3>1 DEF Born, Prefix
  <2> QED BY <2>3, <2>4, <2>5, <2>6, IdsFinite
<1>3. CASE UNCHANGED liq
  BY <1>1, <1>3
<1>4. ASSUME NEW j \in Ids, OrderTask(j) PROVE liq'[k].st # "none"
  BY <1>0, <1>1, <1>4, OrderTaskEffect
<1>5. ASSUME NEW j \in Ids, UpdateTask(j) PROVE liq'[k].st # "none"
  <2>1. liq[j].st # "none"
    BY <1>0, <1>5, UpdateTaskEffect DEF RowsInv, RowOK
  <2> QED BY <1>0, <1>1, <1>5, <2>1, UpdateTaskEffect
<1>6. CASE ProcessLiquidationOrders
  BY <1>0, <1>1, <1>6, ProcessEffect
<1>7. CASE ShareCommit
  BY <1>0, <1>1, <1>7, ShareEffect DEF RowsInv, RowOK
<1>8. CASE DeleteCommit
  BY <1>0, <1>1, <1>8, DeleteEffect DEF RowsInv, RowOK
<1>9. CASE \/ \E r \in Requests : SubmitTransactions(r) \/ SubmitFails(r)
           \/ \E j \in Ids : OrderMatched(j) \/ BrokerWorks(j) \/ SlaPasses(j)
           \/ CheckExternal \/ ShareDecide \/ DeleteDecide \/ UNCHANGED vars
  BY <1>3, <1>9 DEF SubmitTransactions, SubmitFails, OrderMatched, BrokerWorks, SlaPasses,
     CheckExternal, ShareDecide, DeleteDecide, vars
<1> QED BY <1>2, <1>4, <1>5, <1>6, <1>7, <1>8, <1>9 DEF Next

LEMMA RowStep ==
  ASSUME RowsInv, [Next]_vars, NEW l \in Ids PROVE RowOK(l)'
<1> USE DEF requests, orders, queues, running, ledger
<1>0. Typed /\ RowsInv /\ RowOK(l) /\ liq[l] \in Liquidations /\ order[l] \in Orders
      /\ broker[l] \in Orders /\ updates[l] \in Nat
  BY LiquidatorBounds DEF RowsInv, Typed
<1>a. ASSUME liq'[l] = liq[l], order'[l] = order[l], broker'[l] = broker[l],
             updates'[l] = updates[l], l \in share'.ids => l \in share.ids,
             l \in del'.ids => l \in del.ids
      PROVE  RowOK(l)'
  BY <1>0, <1>a DEF RowOK, OrderFits
<1>1. ASSUME NEW r \in Requests, CreateLiquidations(r) PROVE RowOK(l)'
  <2>1. PICK u \in Nat, amount \in Nat, max \in Nat : Born(r, u, amount, max)
    BY <1>0, <1>1, CreateEffect
  <2>2. UNCHANGED <<updates, orders, running>>
    BY <1>0, <1>1, CreateEffect
  <2>3. CASE l \notin New(u, amount, max)
    BY <1>a, <2>1, <2>2, <2>3 DEF Born
  <2>4. CASE l \in New(u, amount, max)
    <3>1. /\ liq[l] = NoLiquidation /\ liq'[l] \in Liquidations
          /\ liq'[l].st = "new" /\ liq'[l].req = r /\ liq'[l].ext = FALSE
          /\ liq'[l].filled = 0 /\ liq'[l].paid = 0 /\ liq'[l].amount >= 1
      BY <2>1, <2>4 DEF Born
    <3>2. liq[l].st = "none" /\ order[l] = NoOrder /\ broker[l] = NoOrder /\ updates[l] = 0
      BY <1>0, <3>1 DEF NoLiquidation, RowOK
    <3>3. l \notin share.ids /\ l \notin del.ids
      BY <1>0, <3>2 DEF RowOK
    <3>4. liq'[l].amount \in Int /\ r # None /\ NoOrder.fill = 0 /\ NoOrder.st = "none"
      BY <3>1, LiquidatorBounds DEF Liquidations, NoOrder
    <3> QED BY <2>2, <3>1, <3>2, <3>3, <3>4 DEF RowOK, OrderFits
  <2> QED BY <2>3, <2>4
<1>2. ASSUME NEW j \in Ids, OrderTask(j) PROVE RowOK(l)'
  <2>1. CASE j # l \/ UNCHANGED <<liq, orders>>
    BY <1>0, <1>2, <1>a, <2>1, OrderTaskEffect
  <2>2. CASE j = l /\ ~ UNCHANGED <<liq, orders>>
    <3>1. /\ UNCHANGED <<updates, running>> /\ liq[l].st = "new" /\ l \notin del.ids
          /\ liq' \in [Ids -> Liquidations]
          /\ \/ liq' = liq /\ order' = order /\ broker'[l] = NewOrder
             \/ /\ liq'[l].st = "open" /\ liq'[l].req = liq[l].req
                /\ liq'[l].amount = liq[l].amount /\ liq'[l].filled = liq[l].filled
                /\ liq'[l].paid = liq[l].paid
                /\ \/ liq'[l].ext = FALSE /\ order'[l] = NewOrder /\ broker' = broker
                   \/ /\ liq'[l].ext = TRUE /\ order' = order
                      /\ broker'[l] \in {broker[l], NewOrder}
      BY <1>0, <1>2, <2>2, OrderTaskEffect
    <3>2. NewOrder.st = "open" /\ NewOrder.fill = 0
      BY DEF NewOrder
    <3>3. broker[l].fill \in Nat /\ liq[l].amount \in Nat
      BY <1>0 DEF Orders, Liquidations
    <3> QED BY <1>0, <3>1, <3>2, <3>3 DEF RowOK, OrderFits
  <2> QED BY <2>1, <2>2
<1>3. ASSUME NEW j \in Ids, UpdateTask(j) PROVE RowOK(l)'
  <2>1. CASE j # l
    BY <1>0, <1>3, <1>a, <2>1, UpdateTaskEffect DEF Typed
  <2>2. CASE j = l
    <3>1. /\ updates[l] > 0 /\ l \notin share.ids /\ updates'[l] = updates[l] - 1
          /\ UNCHANGED <<orders, running>> /\ liq' \in [Ids -> Liquidations]
          /\ liq'[l].req = liq[l].req /\ liq'[l].amount = liq[l].amount
          /\ liq'[l].ext = liq[l].ext /\ liq'[l].paid = liq[l].paid
          /\ liq'[l].filled \in {liq[l].filled, broker[l].fill}
          /\ liq'[l].st \in {liq[l].st, "overstock", "ready_to_share"}
      BY <1>0, <1>3, <2>2, UpdateTaskEffect DEF Typed
    <3>2. /\ liq[l].paid \in Nat /\ liq[l].filled \in Nat /\ broker[l].fill \in Nat
          /\ liq[l].ext /\ liq[l].st \notin {"none", "new", "deleted"}
      BY <1>0, <3>1 DEF RowOK, Orders, Liquidations
    <3>3. /\ liq'[l].paid <= liq'[l].filled /\ liq'[l].filled <= broker[l].fill
      BY <1>0, <3>1, <3>2 DEF RowOK
    <3> QED BY <1>0, <3>1, <3>2, <3>3 DEF RowOK, OrderFits
  <2> QED BY <2>1, <2>2
<1>4. ASSUME NEW j \in Ids, OrderMatched(j) \/ BrokerWorks(j) \/ SlaPasses(j) PROVE RowOK(l)'
  <2>1. /\ UNCHANGED <<liq, queues, running>>
        /\ order' \in [Ids -> Orders] /\ broker' \in [Ids -> Orders]
        /\ order[l].st # "open" => order'[l] = order[l]
        /\ broker[l].st # "open" => broker'[l] = broker[l]
        /\ order'[l].fill >= order[l].fill /\ broker'[l].fill >= broker[l].fill
        /\ OrderFits(order'[l], l) /\ OrderFits(broker'[l], l)
    BY <1>0, <1>4, MarketEffect
  <2>2. /\ order'[l].fill \in Int /\ broker'[l].fill \in Int /\ order[l].fill \in Int
        /\ broker[l].fill \in Int /\ liq[l].filled \in Int
    BY <1>0, <2>1 DEF Orders, Liquidations
  <2>3. NoOrder.st # "open"
    BY DEF NoOrder
  <2> QED BY <1>0, <2>1, <2>2, <2>3 DEF RowOK, OrderFits
<1>5. CASE ProcessLiquidationOrders
  <2>1. /\ UNCHANGED <<queues, broker, running>>
        /\ order'[l].fill = order[l].fill
        /\ order'[l].st \in {order[l].st, "closed"}
        /\ \/ liq'[l] = liq[l] /\ order'[l] = order[l]
           \/ /\ liq[l].st = "open" /\ ~ liq[l].ext /\ order'[l].st = "closed"
              /\ liq'[l].st = "ready_to_share" /\ liq'[l].filled = order[l].fill
              /\ liq'[l].req = liq[l].req /\ liq'[l].amount = liq[l].amount
              /\ liq'[l].ext = liq[l].ext /\ liq'[l].paid = liq[l].paid
    BY <1>0, <1>5, ProcessEffect
  <2>2. CASE liq'[l] = liq[l] /\ order'[l] = order[l]
    BY <1>a, <2>1, <2>2
  <2>3. CASE ~ (liq'[l] = liq[l] /\ order'[l] = order[l])
    <3>1. liq[l].paid \in Nat /\ liq[l].filled \in Nat /\ order[l].fill \in Nat
      BY <1>0 DEF Orders, Liquidations
    <3> QED BY <1>0, <2>1, <2>3, <3>1 DEF RowOK, OrderFits
  <2> QED BY <2>2, <2>3
<1>6. CASE CheckExternal
  <2>1. /\ UNCHANGED <<liq, orders, running>>
        /\ updates'[l] # updates[l] => liq[l].st = "open" /\ liq[l].ext
    BY <1>6 DEF CheckExternal
  <2> QED BY <1>0, <2>1 DEF RowOK, OrderFits
<1>7. CASE ShareDecide
  <2>1. UNCHANGED <<liq, queues, orders, del>> /\ share'.ids = Ready
    BY <1>7 DEF ShareDecide
  <2> QED BY <1>0, <2>1 DEF RowOK, OrderFits, Ready
<1>8. CASE ShareCommit
  <2>1. /\ UNCHANGED <<queues, orders, del>> /\ share'.ids = {}
        /\ l \notin share.ids => liq'[l] = liq[l]
        /\ l \in share.ids =>
             /\ liq'[l].st = "done" /\ liq'[l].paid = liq[l].filled
             /\ liq'[l].req = liq[l].req /\ liq'[l].amount = liq[l].amount
             /\ liq'[l].ext = liq[l].ext /\ liq'[l].filled = liq[l].filled
    BY <1>0, <1>8, ShareEffect DEF ShareCommit, Nothing
  <2>2. liq[l].filled \in Int
    BY <1>0 DEF Liquidations
  <2> QED BY <1>0, <1>a, <2>1, <2>2 DEF RowOK, OrderFits
<1>9. CASE DeleteDecide
  <2>1. /\ UNCHANGED <<liq, queues, orders, share>>
        /\ l \in del'.ids => liq[l].st = "new"
    BY <1>9 DEF DeleteDecide
  <2> QED BY <1>0, <2>1 DEF RowOK, OrderFits
<1>10. CASE DeleteCommit
  <2>1. /\ UNCHANGED <<queues, orders, share>> /\ del'.ids = {}
        /\ l \notin del.ids => liq'[l] = liq[l]
        /\ l \in del.ids =>
             /\ liq'[l].st = "deleted" /\ liq'[l].req = None
             /\ liq'[l].paid = liq[l].paid /\ liq'[l].amount = liq[l].amount
             /\ liq'[l].ext = liq[l].ext /\ liq'[l].filled = liq[l].filled
    BY <1>0, <1>10, DeleteEffect DEF DeleteCommit, Nothing
  <2> QED BY <1>0, <1>a, <2>1 DEF RowOK, OrderFits
<1>11. CASE \/ \E r \in Requests : SubmitTransactions(r) \/ SubmitFails(r)
            \/ UNCHANGED vars
  BY <1>a, <1>11 DEF SubmitTransactions, SubmitFails, vars
<1> QED BY <1>1, <1>2, <1>3, <1>4, <1>5, <1>6, <1>7, <1>8, <1>9, <1>10, <1>11 DEF Next

LEMMA RowsInit ==
  ASSUME Init PROVE RowsInv
<1>1. /\ NoLiquidation \in Liquidations /\ NoOrder \in Orders /\ Nothing \in Jobs
  BY LiquidatorBounds DEF NoLiquidation, Liquidations, NoOrder, Orders, Nothing, Jobs
<1>2. Typed
  BY <1>1, LiquidatorBounds DEF Init, Typed
<1>3. ASSUME NEW l \in Ids PROVE RowOK(l) /\ liq[l].st = "none"
  BY <1>3, LiquidatorBounds DEF Init, RowOK, OrderFits, NoLiquidation, NoOrder, Nothing
<1> QED BY <1>2, <1>3 DEF RowsInv, Prefix

LEMMA RowsStep ==
  ASSUME RowsInv, [Next]_vars PROVE RowsInv'
  BY TypedStep, PrefixStep, RowStep DEF RowsInv

-----------------------------------------------------------------------------
(* Requests in progress *)

\* Where an active liquidation, and one that was given up, may go.
LEMMA RowMoves ==
  ASSUME RowsInv, [Next]_vars, NEW l \in Ids, liq[l].st \in ActiveStatuses \cup {"overstock"}
  PROVE  \/ /\ liq'[l].req = liq[l].req
            /\ \/ liq'[l].st \in ActiveStatuses
               \/ liq'[l].st = "overstock"
         \/ ShareCommit /\ l \in share.ids
         \/ DeleteCommit /\ l \in del.ids
<1> USE DEF requests, orders, queues, running, ledger, ActiveStatuses
<1>0. Typed /\ RowsInv /\ RowOK(l)
  BY DEF RowsInv
<1>1. ASSUME NEW r \in Requests, CreateLiquidations(r) PROVE liq'[l] = liq[l]
  <2>1. PICK u \in Nat, amount \in Nat, max \in Nat : Born(r, u, amount, max)
    BY <1>0, <1>1, CreateEffect
  <2>2. l \notin New(u, amount, max)
    BY <2>1 DEF Born, NoLiquidation
  <2> QED BY <2>1, <2>2 DEF Born
<1>2. CASE \E j \in Ids : OrderTask(j)
  BY <1>0, <1>2, OrderTaskEffect
<1>3. CASE \E j \in Ids : UpdateTask(j)
  BY <1>0, <1>3, UpdateTaskEffect
<1>4. CASE ProcessLiquidationOrders
  BY <1>0, <1>4, ProcessEffect
<1>5. CASE ShareCommit
  BY <1>0, <1>5, ShareEffect
<1>6. CASE DeleteCommit
  BY <1>0, <1>6, DeleteEffect
<1>7. CASE \/ \E r \in Requests : SubmitTransactions(r) \/ SubmitFails(r)
           \/ \E j \in Ids : OrderMatched(j) \/ BrokerWorks(j) \/ SlaPasses(j)
           \/ CheckExternal \/ ShareDecide \/ DeleteDecide \/ UNCHANGED vars
  BY <1>7 DEF SubmitTransactions, SubmitFails, OrderMatched, BrokerWorks, SlaPasses,
     CheckExternal, ShareDecide, DeleteDecide, vars
<1> QED BY <1>1, <1>2, <1>3, <1>4, <1>5, <1>6, <1>7 DEF Next

\* The rows that a running task has locked stay as they are until it commits.
LEMMA LockedRows ==
  ASSUME RowsInv, [Next]_vars
  PROVE  /\ ShareDecide \/ ShareCommit \/ (share' = share /\ \A l \in share.ids : liq'[l] = liq[l])
         /\ DeleteDecide \/ DeleteCommit \/ (del' = del /\ \A l \in del.ids : liq'[l] = liq[l])
         /\ ~ ShareCommit => rfilled' = rfilled
         /\ overlapped \subseteq overlapped'
<1> USE DEF requests, orders, queues, running, ledger
<1>0. /\ Typed /\ RowsInv /\ share.ids \subseteq Ids /\ del.ids \subseteq Ids
      /\ \A l \in share.ids : liq[l].st = "ready_to_share"
      /\ \A l \in del.ids : liq[l].st = "new"
  BY DEF RowsInv, Typed, Jobs, RowOK
<1>1. ASSUME NEW r \in Requests, CreateLiquidations(r)
      PROVE  /\ UNCHANGED <<running, rfilled>>
             /\ \A l \in share.ids \cup del.ids : liq'[l] = liq[l]
  <2>1. PICK u \in Nat, amount \in Nat, max \in Nat : Born(r, u, amount, max)
    BY <1>0, <1>1, CreateEffect
  <2>2. \A l \in share.ids \cup del.ids : l \notin New(u, amount, max)
    BY <1>0, <2>1 DEF Born, NoLiquidation
  <2> QED BY <1>0, <1>1, <2>1, <2>2, CreateEffect DEF Born
<1>2. CASE \E j \in Ids : OrderTask(j)
  BY <1>0, <1>2, OrderTaskEffect
<1>3. CASE \E j \in Ids : UpdateTask(j)
  <2>1. PICK j \in Ids : UpdateTask(j)
    BY <1>3
  <2>2. j \notin share.ids /\ j \notin del.ids /\ UNCHANGED <<running, rfilled>>
    BY <1>0, <2>1, UpdateTaskEffect DEF RowsInv, RowOK
  <2> QED BY <1>0, <2>1, <2>2, UpdateTaskEffect
<1>4. CASE ProcessLiquidationOrders
  BY <1>0, <1>4, ProcessEffect
<1>5. CASE ShareCommit
  <2>1. del' = del /\ overlapped' = overlapped
    BY <1>5 DEF ShareCommit
  <2>2. \A l \in del.ids : liq'[l] = liq[l]
    BY <1>0, <1>5, ShareEffect
  <2> QED BY <1>5, <2>1, <2>2
<1>6. CASE DeleteCommit
  <2>1. share' = share /\ overlapped' = overlapped /\ rfilled' = rfilled
    BY <1>6 DEF DeleteCommit
  <2>2. \A l \in share.ids : liq'[l] = liq[l]
    BY <1>0, <1>6, DeleteEffect
  <2> QED BY <1>6, <2>1, <2>2
<1>7. CASE \/ \E r \in Requests : SubmitTransactions(r) \/ SubmitFails(r)
           \/ \E j \in Ids : OrderMatched(j) \/ BrokerWorks(j) \/ SlaPasses(j)
           \/ CheckExternal \/ UNCHANGED vars
  BY <1>7 DEF SubmitTransactions, SubmitFails, OrderMatched, BrokerWorks, SlaPasses,
     CheckExternal, vars
<1>8. CASE ShareDecide
  BY <1>8 DEF ShareDecide
<1>9. CASE DeleteDecide
  BY <1>9 DEF DeleteDecide
<1> QED BY <1>1, <1>2, <1>3, <1>4, <1>5, <1>6, <1>7, <1>8, <1>9 DEF Next

\* A request that has work of some kind keeps it, unless a commit takes its rows.
LEMMA WorkKept ==
  ASSUME RowsInv, OverlapSeen, [Next]_vars, NEW r \in Requests, NEW l \in Ids,
         liq[l].req = r, liq[l].st \in ActiveStatuses \cup {"overstock"},
         ~ (ShareCommit /\ l \in share.ids), ~ (DeleteCommit /\ l \in del.ids)
  PROVE  \/ liq'[l].req = r /\ liq'[l].st \in ActiveStatuses
         \/ Stuck(r)'
<1>1. \/ liq'[l].req = r /\ liq'[l].st \in ActiveStatuses
      \/ liq'[l].req = r /\ liq'[l].st = "overstock"
  BY RowMoves
<1>2. CASE liq'[l].req = r /\ liq'[l].st = "overstock"
  BY <1>2 DEF Stuck, Of
<1> QED BY <1>1, <1>2

LEMMA StuckKept ==
  ASSUME RowsInv, [Next]_vars, NEW r \in Requests, Stuck(r)
  PROVE  \/ Stuck(r)'
         \/ \E l \in Ids : /\ liq'[l].req = r /\ liq'[l].st \in ActiveStatuses
                           /\ l \notin share.ids /\ l \notin del.ids
<1>1. CASE r \in overlapped
  BY <1>1, LockedRows DEF Stuck
<1>2. CASE \E l \in Of(r) : liq[l].st = "overstock"
  <2>1. PICK l \in Ids : liq[l].req = r /\ liq[l].st = "overstock"
    BY <1>2 DEF Of
  <2>2. l \notin share.ids /\ l \notin del.ids
    BY <2>1 DEF RowsInv, RowOK
  <2>3. \/ liq'[l].req = r /\ liq'[l].st \in ActiveStatuses
        \/ liq'[l].req = r /\ liq'[l].st = "overstock"
    BY <2>1, <2>2, RowMoves
  <2>4. CASE liq'[l].req = r /\ liq'[l].st = "overstock"
    BY <2>4 DEF Stuck, Of
  <2> QED BY <2>2, <2>3, <2>4
<1> QED BY <1>1, <1>2 DEF Stuck

\* The amount a running share books does not change until it commits.
LEMMA SharedSame ==
  ASSUME RowsInv, share' = share, \A l \in share.ids : liq'[l] = liq[l], NEW r
  PROVE  SharedTo(r, share.ids)' = SharedTo(r, share.ids)
<1> DEFINE S == {l \in share.ids : liq[l].req = r}
           f == [l \in Ids |-> Unshared(l)]
           g == [l \in Ids |-> Unshared(l)']
<1>0. share.ids \subseteq Ids
  BY DEF RowsInv, Typed, Jobs
<1>1. {l \in share.ids : liq'[l].req = r} = S
  OBVIOUS
<1>2. IsFiniteSet(S) /\ \A l \in S : f[l] = g[l]
  BY <1>0, IdsFinite DEF Unshared
<1>3. SharedTo(r, share.ids)' = SumOf(g, S)
  BY <1>1 DEF SharedTo
<1> HIDE DEF S, f, g
<1>4. SumOf(f, S) = SumOf(g, S)
  BY <1>2, SumSame
<1> QED BY <1>3, <1>4 DEF SharedTo, S, f

LEMMA OverlapSeenStep ==
  ASSUME WorkInv, [Next]_vars PROVE OverlapSeen'
<1> USE DEF requests, orders, queues, running, ledger
<1>0. RowsInv /\ OverlapSeen
  BY DEF WorkInv
<1>1. CASE ShareDecide
  BY <1>1 DEF ShareDecide, OverlapSeen, RequestsOf
<1>2. CASE DeleteDecide
  BY <1>2 DEF DeleteDecide, OverlapSeen, RequestsOf
<1>3. CASE ShareCommit
  BY <1>3 DEF ShareCommit, Nothing, OverlapSeen, RequestsOf
<1>4. CASE DeleteCommit
  BY <1>4 DEF DeleteCommit, Nothing, OverlapSeen, RequestsOf
<1>5. CASE ~ ShareDecide /\ ~ DeleteDecide /\ ~ ShareCommit /\ ~ DeleteCommit
  <2>1. /\ share' = share /\ del' = del /\ overlapped \subseteq overlapped'
        /\ \A l \in share.ids : liq'[l] = liq[l]
        /\ \A l \in del.ids : liq'[l] = liq[l]
    BY <1>0, <1>5, LockedRows
  <2>2. RequestsOf(share.ids)' = RequestsOf(share.ids) /\ RequestsOf(del.ids)' = RequestsOf(del.ids)
    BY <2>1 DEF RequestsOf
  <2> QED BY <1>0, <2>1, <2>2 DEF OverlapSeen
<1> QED BY <1>1, <1>2, <1>3, <1>4, <1>5

LEMMA ShareCountedStep ==
  ASSUME WorkInv, [Next]_vars PROVE ShareCounted'
<1> USE DEF requests, orders, queues, running, ledger
<1>0. RowsInv /\ OverlapSeen /\ ShareCounted /\ share.ids \in SUBSET Ids /\ Ready \in SUBSET Ids
  BY DEF WorkInv, RowsInv, Typed, Jobs, Ready
<1>1. CASE ShareDecide
  <2>1. /\ share'.ids = Ready
        /\ share'.pending = {r \in RequestsOf(Ready) : Unfilled(r) > SharedTo(r, Ready)
                                                       /\ ActiveBeside(r, Ready) = {}}
        /\ UNCHANGED <<liq, rfilled>>
    BY <1>1 DEF ShareDecide
  <2>2. /\ RequestsOf(share.ids)' = RequestsOf(Ready)
        /\ \A r : /\ Unfilled(r)' = Unfilled(r)
                  /\ SharedTo(r, share.ids)' = SharedTo(r, Ready)
                  /\ ActiveBeside(r, share.ids)' = ActiveBeside(r, Ready)
    BY <2>1 DEF RequestsOf, Unfilled, SharedTo, Unshared, ActiveBeside, ActiveOf, Of
  <2>3. \A r \in RequestsOf(Ready) : Unfilled(r) \in Int /\ SharedTo(r, Ready) \in Int
    <3>1. RequestsOf(Ready) \subseteq Requests
      BY <1>0, RequestsOfRows DEF Ready
    <3> QED BY <1>0, <3>1, SharedNat, LiquidatorBounds DEF RowsInv, Typed, Unfilled
  <2>4. \A r \in RequestsOf(Ready) : Unfilled(r) > SharedTo(r, Ready) \/ Unfilled(r) <= SharedTo(r, Ready)
    BY <2>3
  <2> QED BY <2>1, <2>2, <2>4 DEF ShareCounted
<1>2. CASE ShareCommit
  BY <1>2 DEF ShareCommit, Nothing, ShareCounted, RequestsOf
<1>3. CASE ~ ShareDecide /\ ~ ShareCommit
  <2>1. /\ share' = share /\ rfilled' = rfilled /\ overlapped \subseteq overlapped'
        /\ \A l \in share.ids : liq'[l] = liq[l]
    BY <1>0, <1>3, LockedRows
  <2>2. RequestsOf(share.ids)' = RequestsOf(share.ids)
    BY <2>1 DEF RequestsOf
  <2> SUFFICES ASSUME NEW r \in RequestsOf(share.ids)
               PROVE  \/ r \in share'.pending \/ Stuck(r)'
                      \/ Unfilled(r)' <= SharedTo(r, share.ids)'
                      \/ ActiveBeside(r, share.ids)' # {}
    BY <2>2 DEF ShareCounted
  <2>3. r \in Requests
    <3>1. RequestsOf(share.ids) \subseteq Requests
      BY <1>0, RequestsOfRows DEF RowsInv, RowOK
    <3> QED BY <3>1
  <2>4. CASE r \in share.pending
    BY <2>1, <2>4
  <2>5. CASE Unfilled(r) <= SharedTo(r, share.ids)
    BY <1>0, <2>1, <2>5, SharedSame DEF Unfilled
  <2>6. ASSUME NEW l \in Ids, liq'[l].req = r, liq'[l].st \in ActiveStatuses, l \notin share.ids
        PROVE  ActiveBeside(r, share.ids)' # {}
    BY <2>1, <2>6 DEF ActiveBeside, ActiveOf, Of
  <2>7. CASE Stuck(r)
    BY <1>0, <2>3, <2>6, <2>7, StuckKept
  <2>8. CASE ActiveBeside(r, share.ids) # {}
    <3>1. PICK l \in Ids : liq[l].req = r /\ liq[l].st \in ActiveStatuses /\ l \notin share.ids
      BY <2>8 DEF ActiveBeside, ActiveOf, Of
    <3>2. CASE DeleteCommit /\ l \in del.ids
      <4>1. r \in RequestsOf(del.ids)
        BY <3>1, <3>2 DEF RequestsOf
      <4>2. r \in overlapped'
        BY <1>0, <2>1, <4>1 DEF OverlapSeen
      <4> QED BY <4>2 DEF Stuck
    <3>3. CASE ~ (DeleteCommit /\ l \in del.ids)
      BY <1>0, <2>3, <2>6, <3>1, <3>3, WorkKept
    <3> QED BY <3>2, <3>3
  <2> QED BY <1>0, <2>4, <2>5, <2>7, <2>8 DEF ShareCounted
<1> QED BY <1>1, <1>2, <1>3

LEMMA DeleteCountedStep ==
  ASSUME WorkInv, [Next]_vars PROVE DeleteCounted'
<1> USE DEF requests, orders, queues, running, ledger
<1>0. RowsInv /\ OverlapSeen /\ DeleteCounted /\ del.ids \in SUBSET Ids
  BY DEF WorkInv, RowsInv, Typed, Jobs
<1>1. CASE DeleteDecide
  <2>1. PICK ids : /\ del'.ids = ids
                   /\ del'.pending = {r \in RequestsOf(ids) : ActiveBeside(r, ids) = {}}
                   /\ UNCHANGED liq
    BY <1>1 DEF DeleteDecide
  <2>2. /\ RequestsOf(del.ids)' = RequestsOf(ids)
        /\ \A r : ActiveBeside(r, del.ids)' = ActiveBeside(r, ids)
    BY <2>1 DEF RequestsOf, ActiveBeside, ActiveOf, Of
  <2> QED BY <2>1, <2>2 DEF DeleteCounted
<1>2. CASE DeleteCommit
  BY <1>2 DEF DeleteCommit, Nothing, DeleteCounted, RequestsOf
<1>3. CASE ~ DeleteDecide /\ ~ DeleteCommit
  <2>1. /\ del' = del /\ overlapped \subseteq overlapped'
        /\ \A l \in del.ids : liq'[l] = liq[l]
    BY <1>0, <1>3, LockedRows
  <2>2. RequestsOf(del.ids)' = RequestsOf(del.ids)
    BY <2>1 DEF RequestsOf
  <2> SUFFICES ASSUME NEW r \in RequestsOf(del.ids)
               PROVE  r \in del'.pending \/ Stuck(r)' \/ ActiveBeside(r, del.ids)' # {}
    BY <2>2 DEF DeleteCounted
  <2>3. r \in Requests
    <3>1. RequestsOf(del.ids) \subseteq Requests
      BY <1>0, RequestsOfRows DEF RowsInv, RowOK
    <3> QED BY <3>1
  <2>4. CASE r \in del.pending
    BY <2>1, <2>4
  <2>6. ASSUME NEW l \in Ids, liq'[l].req = r, liq'[l].st \in ActiveStatuses, l \notin del.ids
        PROVE  ActiveBeside(r, del.ids)' # {}
    BY <2>1, <2>6 DEF ActiveBeside, ActiveOf, Of
  <2>7. CASE Stuck(r)
    BY <1>0, <2>3, <2>6, <2>7, StuckKept
  <2>8. CASE ActiveBeside(r, del.ids) # {}
    <3>1. PICK l \in Ids : liq[l].req = r /\ liq[l].st \in ActiveStatuses /\ l \notin del.ids
      BY <2>8 DEF ActiveBeside, ActiveOf, Of
    <3>2. CASE ShareCommit /\ l \in share.ids
      <4>1. r \in RequestsOf(share.ids)
        BY <3>1, <3>2 DEF RequestsOf
      <4>2. r \in overlapped'
        BY <1>0, <2>1, <4>1 DEF OverlapSeen
      <4> QED BY <4>2 DEF Stuck
    <3>3. CASE ~ (ShareCommit /\ l \in share.ids)
      BY <1>0, <2>3, <2>6, <3>1, <3>3, WorkKept
    <3> QED BY <3>2, <3>3
  <2> QED BY <1>0, <2>4, <2>7, <2>8 DEF DeleteCounted
<1> QED BY <1>1, <1>2, <1>3

LEMMA InProgressStep ==
  ASSUME WorkInv, [Next]_vars PROVE InProgressHasWork'
<1> USE DEF requests, orders, queues, running, ledger
<1>0. /\ RowsInv /\ Typed /\ OverlapSeen /\ ShareCounted /\ DeleteCounted /\ InProgressHasWork
      /\ share.ids \in SUBSET Ids
  BY DEF WorkInv, RowsInv, Typed, Jobs
<1> SUFFICES ASSUME NEW r \in Requests, rstat'[r] = "in_progress"
             PROVE  ActiveOf(r)' # {} \/ Stuck(r)'
  BY DEF InProgressHasWork, Stuck
<1>a. ASSUME NEW l \in Ids, liq'[l].req = r, liq'[l].st \in ActiveStatuses
      PROVE  ActiveOf(r)' # {}
  BY <1>a DEF ActiveOf, Of
<1>1. CASE CreateLiquidations(r)
  <2>1. PICK u \in Nat, amount \in Nat, max \in Nat : Born(r, u, amount, max)
    BY <1>0, <1>1, CreateEffect
  <2>2. u + 1 \in Ids /\ liq'[u + 1].req = r /\ liq'[u + 1].st = "new"
    BY <2>1 DEF Born
  <2> QED BY <1>a, <2>2 DEF ActiveStatuses
<1>2. CASE ~ CreateLiquidations(r)
  <2>1. rstat[r] = "in_progress"
    <3>1. ASSUME NEW q \in Requests, CreateLiquidations(q) PROVE rstat[r] = "in_progress"
      BY <1>0, <1>2, <3>1, CreateEffect DEF Typed
    <3>2. CASE \E q \in Requests : SubmitTransactions(q) \/ SubmitFails(q)
      BY <1>0, <3>2 DEF SubmitTransactions, SubmitFails, Typed
    <3>3. CASE \E j \in Ids : OrderTask(j) \/ UpdateTask(j)
      BY <1>0, <3>3, OrderTaskEffect, UpdateTaskEffect
    <3>4. CASE ShareCommit
      BY <3>4 DEF ShareCommit
    <3>5. CASE DeleteCommit
      BY <3>5 DEF DeleteCommit
    <3>6. CASE \/ \E j \in Ids : OrderMatched(j) \/ BrokerWorks(j) \/ SlaPasses(j)
               \/ CheckExternal \/ ShareDecide \/ DeleteDecide \/ ProcessLiquidationOrders
               \/ UNCHANGED vars
      BY <3>6 DEF OrderMatched, BrokerWorks, SlaPasses, ProcessLiquidationOrders,
         CheckExternal, ShareDecide, DeleteDecide, vars
    <3> QED BY <3>1, <3>2, <3>3, <3>4, <3>5, <3>6 DEF Next
  <2>2. CASE Stuck(r)
    BY <1>0, <1>a, <2>2, StuckKept
  <2>3. CASE ActiveOf(r) # {}
    <3>1. PICK l \in Ids : liq[l].req = r /\ liq[l].st \in ActiveStatuses
      BY <2>3 DEF ActiveOf, Of
    <3>2. CASE ShareCommit /\ l \in share.ids
      <4>1. r \in RequestsOf(share.ids)
        BY <3>1, <3>2 DEF RequestsOf
      <4>2. /\ r \notin share.pending /\ ~ (rfilled'[r] >= Amount)
            /\ rfilled'[r] = rfilled[r] + SharedTo(r, share.ids)
        BY <3>2, <4>1 DEF ShareCommit
      <4>3. ~ (Unfilled(r) <= SharedTo(r, share.ids))
        <5>1. SharedTo(r, share.ids) \in Nat /\ rfilled[r] \in Nat /\ Amount \in Nat
          BY <1>0, SharedNat, LiquidatorBounds DEF Typed
        <5> QED BY <4>2, <5>1 DEF Unfilled
      <4>4. CASE ActiveBeside(r, share.ids) # {}
        <5>1. PICK k \in Ids : liq[k].req = r /\ liq[k].st \in ActiveStatuses /\ k \notin share.ids
          BY <4>4 DEF ActiveBeside, ActiveOf, Of
        <5>2. liq'[k] = liq[k]
          BY <1>0, <3>2, <5>1, ShareEffect
        <5> QED BY <1>a, <5>1, <5>2
      <4> QED BY <1>0, <2>2, <4>1, <4>2, <4>3, <4>4 DEF ShareCounted
    <3>3. CASE DeleteCommit /\ l \in del.ids
      <4>1. r \in RequestsOf(del.ids)
        BY <3>1, <3>3 DEF RequestsOf
      <4>2. r \notin del.pending
        BY <3>3 DEF DeleteCommit
      <4>3. CASE ActiveBeside(r, del.ids) # {}
        <5>1. PICK k \in Ids : liq[k].req = r /\ liq[k].st \in ActiveStatuses /\ k \notin del.ids
          BY <4>3 DEF ActiveBeside, ActiveOf, Of
        <5>2. liq'[k] = liq[k]
          BY <1>0, <3>3, <5>1, DeleteEffect
        <5> QED BY <1>a, <5>1, <5>2
      <4> QED BY <1>0, <2>2, <4>1, <4>2, <4>3 DEF DeleteCounted
    <3>4. CASE ~ (ShareCommit /\ l \in share.ids) /\ ~ (DeleteCommit /\ l \in del.ids)
      BY <1>0, <1>a, <3>1, <3>4, WorkKept
    <3> QED BY <3>2, <3>3, <3>4
  <2> QED BY <1>0, <2>1, <2>2, <2>3 DEF InProgressHasWork, Stuck
<1> QED BY <1>1, <1>2

\* InProgressHasWork holds for any number of requests, liquidations, queued
\* updates and faults: the subqueries of update_in_progress_liquidation_request
\* and DeleteEmptyLiquidation leave no request without work behind, unless the
\* two overlap on the request or one of its liquidations is given up.
THEOREM WorkCorrect == Spec => []InProgressHasWork
<1>1. Init => WorkInv
  <2> SUFFICES ASSUME Init PROVE ShareCounted /\ DeleteCounted /\ OverlapSeen /\ InProgressHasWork
    BY RowsInit DEF WorkInv
  <2> QED BY DEF Init, Nothing, RequestsOf, ShareCounted, DeleteCounted, OverlapSeen,
          InProgressHasWork
<1>2. WorkInv /\ [Next]_vars => WorkInv'
  BY RowsStep, ShareCountedStep, DeleteCountedStep, OverlapSeenStep, InProgressStep DEF WorkInv
<1>3. WorkInv => InProgressHasWork
  BY DEF WorkInv
<1> QED BY <1>1, <1>2, <1>3, PTL DEF Spec

-----------------------------------------------------------------------------
(* Amounts *)

LEMMA RowBookedStep ==
  ASSUME MaxQueued <= 1, RowsInv, RowsBooked, [Next]_vars, NEW l \in Ids
  PROVE  RowBooked(l)'
<1> USE DEF requests, orders, queues, running, ledger
<1>0. /\ Typed /\ RowOK(l) /\ RowBooked(l) /\ liq[l] \in Liquidations /\ order[l] \in Orders
      /\ broker[l] \in Orders /\ updates[l] \in 0..MaxQueued
  BY DEF RowsInv, Typed, RowsBooked
<1>a. ASSUME liq'[l] = liq[l], order'[l] = order[l], broker'[l] = broker[l],
             updates'[l] = updates[l], maker'[l] = maker[l]
      PROVE  RowBooked(l)'
  BY <1>0, <1>a DEF RowBooked
<1>1. ASSUME NEW r \in Requests, CreateLiquidations(r) PROVE RowBooked(l)'
  <2>1. PICK u \in Nat, amount \in Nat, max \in Nat : Born(r, u, amount, max)
    BY <1>1, CreateEffect
  <2>2. UNCHANGED <<updates, orders, maker>>
    BY <1>1, CreateEffect
  <2>3. CASE l \notin New(u, amount, max)
    BY <1>a, <2>1, <2>2, <2>3 DEF Born
  <2>4. CASE l \in New(u, amount, max)
    <3>1. /\ liq[l] = NoLiquidation
          /\ liq'[l].st = "new" /\ liq'[l].ext = FALSE
          /\ liq'[l].filled = 0 /\ liq'[l].paid = 0
      BY <2>1, <2>4 DEF Born
    <3>2. liq[l].st = "none" /\ updates[l] = 0 /\ maker[l] = 0
      BY <1>0, <3>1 DEF NoLiquidation, RowOK, RowBooked
    <3> QED BY <1>0, <2>2, <3>1, <3>2 DEF RowBooked
  <2> QED BY <2>3, <2>4
<1>2. ASSUME NEW j \in Ids, OrderTask(j) PROVE RowBooked(l)'
  <2>1. CASE j # l \/ UNCHANGED <<liq, orders>>
    BY <1>0, <1>2, <1>a, <2>1, OrderTaskEffect
  <2>2. CASE j = l /\ ~ UNCHANGED <<liq, orders>>
    <3>1. /\ UNCHANGED <<updates, maker>> /\ liq[l].st = "new"
          /\ \/ liq' = liq /\ order' = order /\ broker'[l] = NewOrder
             \/ /\ liq'[l].st = "open" /\ liq'[l].req = liq[l].req
                /\ liq'[l].amount = liq[l].amount /\ liq'[l].filled = liq[l].filled
                /\ liq'[l].paid = liq[l].paid
                /\ \/ liq'[l].ext = FALSE /\ order'[l] = NewOrder /\ broker' = broker
                   \/ /\ liq'[l].ext = TRUE /\ order' = order
                      /\ broker'[l] \in {broker[l], NewOrder}
      BY <1>0, <1>2, <2>2, OrderTaskEffect
    <3>2. NewOrder.st = "open" /\ liq[l].ext = FALSE /\ liq[l].paid = 0
      BY <1>0, <3>1 DEF NewOrder, RowOK, Liquidations
    <3> QED BY <1>0, <3>1, <3>2 DEF RowBooked, RowOK
  <2> QED BY <2>1, <2>2
<1>3. ASSUME NEW j \in Ids, UpdateTask(j) PROVE RowBooked(l)'
  <2>1. CASE j # l
    BY <1>0, <1>3, <1>a, <2>1, UpdateTaskEffect DEF Typed
  <2>2. CASE j = l
    <3>1. /\ updates[l] > 0 /\ updates'[l] = updates[l] - 1
          /\ UNCHANGED <<orders, maker>>
          /\ liq'[l].ext = liq[l].ext /\ liq'[l].paid = liq[l].paid
          /\ \/ liq'[l].st = liq[l].st
             \/ liq'[l].st = "overstock"
             \/ /\ liq'[l].st = "ready_to_share"
                /\ \/ broker[l].st = "closed" /\ liq'[l].filled = broker[l].fill
                   \/ broker[l].st = "none" /\ liq'[l].filled = liq[l].filled
      BY <1>0, <1>3, <2>2, UpdateTaskEffect DEF Typed
    <3>2. liq[l].st = "open" /\ liq[l].ext /\ liq[l].paid = 0 /\ ~ (updates'[l] > 0)
      BY <1>0, <3>1, LiquidatorBounds DEF RowOK, RowBooked
    <3>3. broker[l].st = "none" => liq[l].filled = broker[l].fill
      BY <1>0, <3>2 DEF RowOK, RowBooked, Liquidations, Orders
    <3> QED BY <1>0, <3>1, <3>2, <3>3 DEF RowBooked
  <2> QED BY <2>1, <2>2
<1>4. ASSUME NEW j \in Ids, OrderMatched(j) \/ BrokerWorks(j) \/ SlaPasses(j) PROVE RowBooked(l)'
  <2>1. /\ UNCHANGED <<liq, queues, maker>>
        /\ order[l].st # "open" => order'[l] = order[l]
        /\ broker[l].st # "open" => broker'[l] = broker[l]
        /\ broker[l].st # "none" => broker'[l].st # "none"
    BY <1>4, MarketEffect
  <2> QED BY <1>0, <2>1 DEF RowBooked
<1>5. CASE ProcessLiquidationOrders
  <2>1. /\ UNCHANGED <<queues, broker, maker>>
        /\ order'[l].fill = order[l].fill
        /\ \/ liq'[l] = liq[l] /\ order'[l] = order[l]
           \/ /\ liq[l].st = "open" /\ ~ liq[l].ext /\ order'[l].st = "closed"
              /\ liq'[l].st = "ready_to_share" /\ liq'[l].filled = order[l].fill
              /\ liq'[l].ext = liq[l].ext /\ liq'[l].paid = liq[l].paid
    BY <1>0, <1>5, ProcessEffect
  <2>2. CASE liq'[l] = liq[l] /\ order'[l] = order[l]
    BY <1>a, <2>1, <2>2
  <2>3. CASE ~ (liq'[l] = liq[l] /\ order'[l] = order[l])
    BY <1>0, <2>1, <2>3 DEF RowBooked, RowOK
  <2> QED BY <2>2, <2>3
<1>6. CASE CheckExternal
  <2>1. /\ UNCHANGED <<liq, orders, maker>>
        /\ updates'[l] # updates[l] => liq[l].st = "open"
    BY <1>6 DEF CheckExternal
  <2> QED BY <1>0, <2>1 DEF RowBooked
<1>7. CASE ShareCommit
  <2>1. /\ UNCHANGED <<queues, orders>>
        /\ l \notin share.ids => liq'[l] = liq[l] /\ maker'[l] = maker[l]
        /\ l \in share.ids =>
             /\ liq'[l].st = "done" /\ liq'[l].paid = liq[l].filled
             /\ liq'[l].ext = liq[l].ext /\ liq'[l].filled = liq[l].filled
             /\ liq[l].ext => maker'[l] = liq[l].filled
             /\ ~ liq[l].ext => maker'[l] = maker[l]
    BY <1>0, <1>7, ShareEffect DEF ShareCommit
  <2> QED BY <1>0, <1>a, <2>1 DEF RowBooked, RowOK
<1>8. CASE DeleteCommit
  <2>1. /\ UNCHANGED <<queues, orders, maker>>
        /\ l \notin del.ids => liq'[l] = liq[l]
        /\ l \in del.ids =>
             /\ liq'[l].st = "deleted" /\ liq'[l].paid = liq[l].paid
             /\ liq'[l].ext = liq[l].ext /\ liq'[l].filled = liq[l].filled
    BY <1>0, <1>8, DeleteEffect DEF DeleteCommit
  <2> QED BY <1>0, <1>a, <2>1 DEF RowBooked, RowOK
<1>9. CASE \/ \E r \in Requests : SubmitTransactions(r) \/ SubmitFails(r)
           \/ ShareDecide \/ DeleteDecide \/ UNCHANGED vars
  BY <1>a, <1>9 DEF SubmitTransactions, SubmitFails, ShareDecide, DeleteDecide, vars
<1> QED BY <1>1, <1>2, <1>3, <1>4, <1>5, <1>6, <1>7, <1>8, <1>9 DEF Next

\* With one update at a time, no row becomes active again, and what is done
\* stays as it is.
LEMMA RowBack ==
  ASSUME SpendInv, [Next]_vars, NEW l \in Ids, NEW r \in Requests, liq'[l].req = r
  PROVE  /\ liq'[l].st \in ActiveStatuses /\ ~ CreateLiquidations(r) =>
              /\ liq[l].st \in ActiveStatuses /\ liq[l].req = r
              /\ liq'[l].amount = liq[l].amount /\ liq'[l].paid = liq[l].paid
         /\ liq'[l].st = "done" /\ ~ (ShareCommit /\ l \in share.ids) =>
              /\ liq[l].st = "done" /\ liq'[l] = liq[l]
         /\ ~ CreateLiquidations(r) => liq[l].req = r
<1> USE DEF requests, orders, queues, running, ledger, ActiveStatuses
<1>0. /\ Typed /\ RowsInv /\ RowOK(l) /\ RowBooked(l) /\ r # None
  BY LiquidatorBounds DEF SpendInv, RowsInv, RowsBooked
<1>1. ASSUME NEW q \in Requests, CreateLiquidations(q)
      PROVE  liq'[l] = liq[l] \/ (q = r /\ liq'[l].st = "new")
  <2>1. PICK u \in Nat, amount \in Nat, max \in Nat : Born(q, u, amount, max)
    BY <1>0, <1>1, CreateEffect
  <2> QED BY <2>1 DEF Born
<1>2. CASE \E j \in Ids : OrderTask(j)
  BY <1>0, <1>2, OrderTaskEffect
<1>3. ASSUME NEW j \in Ids, UpdateTask(j)
      PROVE  \/ liq'[l] = liq[l]
             \/ /\ liq[l].st = "open" /\ liq'[l].st \in {"open", "overstock", "ready_to_share"}
                /\ liq'[l].req = liq[l].req /\ liq'[l].amount = liq[l].amount
                /\ liq'[l].paid = liq[l].paid
  <2>1. CASE j # l
    BY <1>0, <1>3, <2>1, UpdateTaskEffect
  <2>2. CASE j = l
    BY <1>0, <1>3, <2>2, UpdateTaskEffect DEF RowBooked
  <2> QED BY <2>1, <2>2
<1>4. CASE ProcessLiquidationOrders
  BY <1>0, <1>4, ProcessEffect
<1>5. CASE ShareCommit
  BY <1>0, <1>5, ShareEffect
<1>6. CASE DeleteCommit
  BY <1>0, <1>6, DeleteEffect
<1>7. CASE \/ \E q \in Requests : SubmitTransactions(q) \/ SubmitFails(q)
           \/ \E j \in Ids : OrderMatched(j) \/ BrokerWorks(j) \/ SlaPasses(j)
           \/ CheckExternal \/ ShareDecide \/ DeleteDecide \/ UNCHANGED vars
  BY <1>7 DEF SubmitTransactions, SubmitFails, OrderMatched, BrokerWorks, SlaPasses,
     CheckExternal, ShareDecide, DeleteDecide, vars
<1> QED BY <1>1, <1>2, <1>3, <1>4, <1>5, <1>6, <1>7 DEF Next

\* What a liquidation may still execute
Rest == [l \in Ids |-> liq[l].amount - liq[l].paid]

LEMMA RestNat ==
  ASSUME RowsInv
  PROVE  /\ \A l \in Ids : Rest[l] \in Nat
         /\ \A l \in Ids : Unshared(l) \in Nat /\ Unshared(l) <= Rest[l]
         /\ \A r : IsFiniteSet(ActiveOf(r)) /\ ActiveOf(r) \subseteq Ids
                   /\ SumOf(Rest, ActiveOf(r)) \in Nat
<1>1. ASSUME NEW l \in Ids
      PROVE  Rest[l] \in Nat /\ Unshared(l) \in Nat /\ Unshared(l) <= Rest[l]
  <2>1. /\ liq[l].amount \in Nat /\ liq[l].paid \in Nat /\ liq[l].filled \in Nat
        /\ order[l].fill \in Nat /\ broker[l].fill \in Nat
    BY DEF RowsInv, Typed, Liquidations, Orders
  <2>2. liq[l].paid <= liq[l].filled /\ liq[l].filled <= liq[l].amount
    BY <2>1 DEF RowsInv, RowOK, OrderFits
  <2> QED BY <2>1, <2>2 DEF Rest, Unshared
<1>2. ASSUME NEW r PROVE IsFiniteSet(ActiveOf(r)) /\ ActiveOf(r) \subseteq Ids
                         /\ SumOf(Rest, ActiveOf(r)) \in Nat
  <2>1. ActiveOf(r) \subseteq Ids /\ IsFiniteSet(ActiveOf(r))
    BY IdsFinite DEF ActiveOf, Of
  <2>2. \A l \in ActiveOf(r) : Rest[l] \in Nat
    BY <1>1, <2>1
  <2> QED BY <2>1, <2>2, SumPart
<1> QED BY <1>1, <1>2

LEMMA SpentIs ==
  NeverDoubleSpent <=> \A r \in Requests : rfilled[r] + SumOf(Rest, ActiveOf(r)) <= Amount
  BY DEF NeverDoubleSpent, Rest

\* Fewer active liquidations may execute less.
LEMMA SpendShrinks ==
  ASSUME NEW f, NEW g, NEW A, NEW B, IsFiniteSet(A), B \subseteq A,
         \A l \in A : f[l] \in Nat, \A l \in B : g[l] = f[l]
  PROVE  SumOf(g, B) <= SumOf(f, A) /\ SumOf(g, B) \in Nat
<1>1. IsFiniteSet(B)
  BY FS_Subset
<1>2. SumOf(g, B) = SumOf(f, B)
  BY <1>1, SumSame
<1>3. SumOf(f, B) \in Nat /\ SumOf(f, B) <= SumOf(f, A)
  BY SumPart
<1> QED BY <1>2, <1>3

\* A member counts for no more than the sum.
LEMMA SumMember ==
  ASSUME NEW f, NEW S, IsFiniteSet(S), \A x \in S : f[x] \in Nat, NEW x \in S
  PROVE  f[x] <= SumOf(f, S)
<1>1. SumOf(f, S) = f[x] + SumOf(f, S \ {x})
  BY SumRemove
<1>2. SumOf(f, S \ {x}) \in Nat /\ f[x] \in Nat
  BY SumPart
<1> QED BY <1>1, <1>2

\* The rows of one request that a running share books
Booked(r) == {l \in share.ids : liq[l].req = r}

LEMMA BookedRows ==
  ASSUME SpendInv, NEW r \in Requests
  PROVE  /\ Booked(r) \subseteq ActiveOf(r) /\ Booked(r) \subseteq Ids /\ IsFiniteSet(Booked(r))
         /\ SharedTo(r, share.ids) = SumOf([l \in Ids |-> Unshared(l)], Booked(r))
         /\ SharedTo(r, share.ids) \in Nat
         /\ r \notin RequestsOf(share.ids) => Booked(r) = {} /\ SharedTo(r, share.ids) = 0
<1>0. RowsInv /\ share.ids \in SUBSET Ids
  BY DEF SpendInv, RowsInv, Typed, Jobs
<1>1. Booked(r) \subseteq Ids /\ IsFiniteSet(Booked(r))
  BY <1>0, IdsFinite DEF Booked
<1>2. Booked(r) \subseteq ActiveOf(r)
  BY <1>0 DEF Booked, ActiveOf, Of, RowsInv, RowOK, ActiveStatuses
<1>3. SharedTo(r, share.ids) = SumOf([l \in Ids |-> Unshared(l)], Booked(r))
  BY DEF SharedTo, Booked
<1>4. SharedTo(r, share.ids) \in Nat
  BY <1>0, SharedNat
<1>5. r \notin RequestsOf(share.ids) => Booked(r) = {}
  BY DEF RequestsOf, Booked
<1> QED BY <1>1, <1>2, <1>3, <1>4, <1>5, SumEmpty

\* No step but a split adds an active liquidation.
LEMMA ActiveShrinks ==
  ASSUME SpendInv, [Next]_vars, NEW r \in Requests, ~ CreateLiquidations(r)
  PROVE  ActiveOf(r)' \subseteq ActiveOf(r) /\ \A l \in ActiveOf(r)' : Rest'[l] = Rest[l]
<1> SUFFICES ASSUME NEW l \in ActiveOf(r)' PROVE l \in ActiveOf(r) /\ Rest'[l] = Rest[l]
  OBVIOUS
<1>1. l \in Ids /\ liq'[l].req = r /\ liq'[l].st \in ActiveStatuses
  BY DEF ActiveOf, Of
<1>2. liq[l].st \in ActiveStatuses /\ liq[l].req = r
      /\ liq'[l].amount = liq[l].amount /\ liq'[l].paid = liq[l].paid
  BY <1>1, RowBack
<1> QED BY <1>1, <1>2 DEF ActiveOf, Of, Rest

LEMMA NeverDoubleSpentStep ==
  ASSUME SpendInv, [Next]_vars PROVE NeverDoubleSpent'
<1> USE DEF requests, orders, queues, running, ledger
<1>0. /\ RowsInv /\ Typed /\ \A r \in Requests : rfilled[r] + SumOf(Rest, ActiveOf(r)) <= Amount
      /\ Amount \in Nat
  BY SpentIs, LiquidatorBounds DEF SpendInv, RowsInv
<1> SUFFICES ASSUME NEW r \in Requests PROVE rfilled'[r] + SumOf(Rest', ActiveOf(r)') <= Amount
  BY DEF NeverDoubleSpent, Rest
<1>1. rfilled[r] \in Nat /\ SumOf(Rest, ActiveOf(r)) \in Nat /\ IsFiniteSet(ActiveOf(r))
      /\ ActiveOf(r) \subseteq Ids /\ \A l \in ActiveOf(r) : Rest[l] \in Nat
  BY <1>0, RestNat DEF Typed
<1>2. CASE CreateLiquidations(r)
  <2>1. PICK u \in Nat, amount \in Nat, max \in Nat : Born(r, u, amount, max)
    BY <1>0, <1>2, CreateEffect
  <2>2. ActiveOf(r) = {} /\ rfilled' = rfilled
    BY <1>2 DEF CreateLiquidations, SpendInv, Idle
  <2>3. ActiveOf(r)' = New(u, amount, max)
    <3>1. ASSUME NEW l \in Ids, l \notin New(u, amount, max) PROVE l \notin ActiveOf(r)'
      BY <2>1, <2>2, <3>1 DEF Born, ActiveOf, Of
    <3>2. ASSUME NEW l \in New(u, amount, max) PROVE l \in ActiveOf(r)'
      BY <2>1, <3>2 DEF Born, ActiveOf, Of, ActiveStatuses
    <3>3. ActiveOf(r)' \subseteq Ids /\ New(u, amount, max) \subseteq Ids
      BY <2>1 DEF ActiveOf, Of, Born
    <3> QED BY <3>1, <3>2, <3>3
  <2>4. \A l \in New(u, amount, max) : Rest'[l] = Piece(amount, max, l - u)
    <3>1. \A l \in New(u, amount, max) : /\ l \in Ids /\ liq'[l].paid = 0
                                         /\ liq'[l].amount \in Int
                                         /\ liq'[l].amount = Piece(amount, max, l - u)
      BY <2>1 DEF Born, Liquidations
    <3>2. \A l \in New(u, amount, max) : Rest'[l] = liq'[l].amount - liq'[l].paid
      BY <3>1 DEF Rest
    <3> QED BY <3>1, <3>2
  <2>5. SumOf(Rest', New(u, amount, max)) = amount
    <3>1. amount \in Nat \ {0} /\ max \in Nat \ {0}
      BY <2>1 DEF Born
    <3>2. PICK f : f = Rest'
      OBVIOUS
    <3>3. SumOf(f, (u + 1)..(u + Pieces(amount, max))) = amount
      BY <2>4, <3>1, <3>2, PiecesTogether DEF New
    <3> QED BY <3>2, <3>3 DEF New
  <2>6. amount \in Nat /\ amount <= Amount - rfilled[r]
    BY <2>1 DEF Born, Unfilled
  <2> QED BY <1>0, <1>1, <2>2, <2>3, <2>5, <2>6
<1>3. CASE ~ CreateLiquidations(r) /\ ~ ShareCommit
  <2>1. rfilled' = rfilled
    BY <1>0, <1>3, LockedRows
  <2>2. ActiveOf(r)' \subseteq ActiveOf(r) /\ \A l \in ActiveOf(r)' : Rest'[l] = Rest[l]
    BY <1>3, ActiveShrinks
  <2>3. /\ SumOf(Rest', ActiveOf(r)') <= SumOf(Rest, ActiveOf(r))
        /\ SumOf(Rest', ActiveOf(r)') \in Nat
    BY <1>1, <2>2, SpendShrinks
  <2> QED BY <1>0, <1>1, <2>1, <2>3
<1>4. CASE ~ CreateLiquidations(r) /\ ShareCommit
  <2> DEFINE B == Booked(r)
             A == ActiveOf(r)
             un == [l \in Ids |-> Unshared(l)]
  <2>1. /\ B \subseteq A /\ B \subseteq Ids /\ IsFiniteSet(B)
        /\ SharedTo(r, share.ids) = SumOf(un, B) /\ SharedTo(r, share.ids) \in Nat
    BY BookedRows
  <2>2. ActiveOf(r)' \subseteq A \ B
    <3>1. ASSUME NEW l \in B PROVE l \notin ActiveOf(r)'
      BY <1>0, <1>4, <2>1, <3>1, ShareEffect DEF Booked, ActiveOf, Of, ActiveStatuses
    <3> QED BY <1>4, <3>1, ActiveShrinks
  <2>3. \A l \in ActiveOf(r)' : Rest'[l] = Rest[l]
    BY <1>4, ActiveShrinks
  <2>4. \A l \in B : un[l] \in Int /\ Rest[l] \in Int /\ un[l] <= Rest[l]
    BY <1>0, <2>1, RestNat
  <2>5. rfilled'[r] = rfilled[r] + SharedTo(r, share.ids)
    BY <1>4 DEF ShareCommit
  <2> HIDE DEF A, B, un
  <2>6. SumOf(un, B) <= SumOf(Rest, B)
    BY <2>1, <2>4, SumMonotonic
  <2>7. IsFiniteSet(A \ B) /\ B \cap (A \ B) = {} /\ B \cup (A \ B) = A
        /\ \A l \in A : Rest[l] \in Int
    BY <1>1, <2>1, FS_Subset DEF A
  <2>8. SumOf(Rest, A) = SumOf(Rest, B) + SumOf(Rest, A \ B)
    <3>1. \A l \in B \cup (A \ B) : Rest[l] \in Int
      BY <2>7
    <3>2. SumOf(Rest, B \cup (A \ B)) = SumOf(Rest, B) + SumOf(Rest, A \ B)
      BY <2>1, <2>7, <3>1, SumUnion
    <3> QED BY <2>7, <3>2
  <2>9. \A l \in A \ B : Rest[l] \in Nat
    BY <1>1 DEF A
  <2>10. SumOf(Rest', ActiveOf(r)') <= SumOf(Rest, A \ B) /\ SumOf(Rest', ActiveOf(r)') \in Nat
    BY <2>2, <2>3, <2>7, <2>9, SpendShrinks
  <2>11. SumOf(Rest, A \ B) \in Int /\ SumOf(Rest, B) \in Int /\ SumOf(un, B) \in Int
    BY <2>1, <2>4, <2>7, <2>9, SumInt
  <2>12. rfilled[r] + SumOf(Rest, A) <= Amount
    BY <1>0 DEF A
  <2> QED BY <1>0, <1>1, <2>1, <2>5, <2>6, <2>8, <2>10, <2>11, <2>12
<1> QED BY <1>2, <1>3, <1>4

\* A request that is filled has no active liquidation.
LEMMA FilledIdle ==
  ASSUME RowsInv, RowsBooked, NeverDoubleSpent,
         NEW r \in Requests, rfilled[r] >= Amount
  PROVE  rfilled[r] = Amount /\ ActiveOf(r) = {}
<1>1. /\ SumOf(Rest, ActiveOf(r)) \in Nat /\ IsFiniteSet(ActiveOf(r)) /\ ActiveOf(r) \subseteq Ids
      /\ \A l \in ActiveOf(r) : Rest[l] \in Nat
  BY RestNat
<1>2. rfilled[r] + SumOf(Rest, ActiveOf(r)) <= Amount /\ rfilled[r] \in Nat /\ Amount \in Nat
  BY SpentIs, LiquidatorBounds DEF RowsInv, Typed
<1>3. rfilled[r] = Amount /\ SumOf(Rest, ActiveOf(r)) = 0
  BY <1>1, <1>2
<1>4. ASSUME NEW l \in ActiveOf(r) PROVE FALSE
  <2>1. l \in Ids /\ liq[l].st \in ActiveStatuses
    BY DEF ActiveOf, Of
  <2>2. liq[l].paid = 0 /\ liq[l].amount >= 1 /\ liq[l].amount \in Int
    BY <2>1 DEF RowsInv, Typed, Liquidations, RowOK, RowsBooked, RowBooked, ActiveStatuses
  <2>3. Rest[l] >= 1
    BY <2>1, <2>2 DEF Rest
  <2>4. Rest[l] <= SumOf(Rest, ActiveOf(r))
    BY <1>1, SumMember
  <2> QED BY <1>1, <1>3, <2>3, <2>4
<1> QED BY <1>3, <1>4

FilledAreIdle ==
  \A r \in Requests : rfilled[r] >= Amount => rfilled[r] = Amount /\ ActiveOf(r) = {}

LEMMA FilledIdleAll == RowsInv /\ RowsBooked /\ NeverDoubleSpent => FilledAreIdle
  BY FilledIdle DEF FilledAreIdle

\* How the status of a request changes.
LEMMA StatusStep ==
  ASSUME SpendInv, [Next]_vars, NEW r \in Requests
  PROVE  \/ CreateLiquidations(r) /\ rstat'[r] = "in_progress"
         \/ /\ SubmitTransactions(r) /\ rstat[r] \in {"waiting", "transactions_failed"}
            /\ rstat'[r] = "done"
         \/ /\ ~ CreateLiquidations(r) /\ ~ SubmitTransactions(r) /\ credit'[r] = credit[r]
            /\ \/ rstat'[r] = rstat[r]
               \/ rstat[r] = "waiting" /\ rstat'[r] = "transactions_failed"
               \/ /\ ShareCommit /\ r \in RequestsOf(share.ids)
                  /\ \/ rstat'[r] = "waiting" /\ rfilled'[r] >= Amount
                     \/ rstat'[r] = "pending" /\ r \in share.pending
               \/ DeleteCommit /\ r \in del.pending /\ rstat'[r] = "pending"
<1> USE DEF requests, orders, queues, running, ledger
<1>0. RowsInv /\ Typed
  BY DEF SpendInv, RowsInv
<1>1. CASE CreateLiquidations(r)
  BY <1>0, <1>1, CreateEffect DEF Typed
<1>2. CASE SubmitTransactions(r)
  BY <1>0, <1>2 DEF SubmitTransactions, Typed
<1>3. CASE ~ CreateLiquidations(r) /\ ~ SubmitTransactions(r)
  <2>1. ASSUME NEW q \in Requests, CreateLiquidations(q)
        PROVE  rstat'[r] = rstat[r] /\ credit'[r] = credit[r]
    BY <1>0, <1>3, <2>1, CreateEffect DEF Typed
  <2>2. ASSUME NEW q \in Requests, SubmitTransactions(q)
        PROVE  rstat'[r] = rstat[r] /\ credit'[r] = credit[r]
    BY <1>0, <1>3, <2>2 DEF SubmitTransactions, Typed
  <2>3. ASSUME NEW q \in Requests, SubmitFails(q)
        PROVE  /\ credit'[r] = credit[r]
               /\ \/ rstat'[r] = rstat[r]
                  \/ rstat[r] = "waiting" /\ rstat'[r] = "transactions_failed"
    BY <1>0, <2>3 DEF SubmitFails, Typed
  <2>4. CASE \E j \in Ids : OrderTask(j) \/ UpdateTask(j)
    BY <1>0, <1>3, <2>4, OrderTaskEffect, UpdateTaskEffect
  <2>5. CASE ShareCommit
    BY <1>3, <2>5 DEF ShareCommit
  <2>6. CASE DeleteCommit
    BY <1>3, <2>6 DEF DeleteCommit
  <2>7. CASE \/ \E j \in Ids : OrderMatched(j) \/ BrokerWorks(j) \/ SlaPasses(j)
             \/ CheckExternal \/ ShareDecide \/ DeleteDecide \/ ProcessLiquidationOrders
             \/ UNCHANGED vars
    BY <1>3, <2>7 DEF OrderMatched, BrokerWorks, SlaPasses, ProcessLiquidationOrders,
       CheckExternal, ShareDecide, DeleteDecide, vars
  <2> QED BY <1>3, <2>1, <2>2, <2>3, <2>4, <2>5, <2>6, <2>7 DEF Next
<1> QED BY <1>1, <1>2, <1>3

\* A request that a task works on is in progress.
LEMMA WorkedOn ==
  ASSUME SpendInv, NEW r \in Requests, r \in RequestsOf(share.ids) \/ r \in RequestsOf(del.ids)
  PROVE  rstat[r] = "in_progress" /\ ~ CreateLiquidations(r)
<1>1. PICK l \in share.ids \cup del.ids : liq[l].req = r
  BY DEF RequestsOf
<1>2. l \in Ids /\ liq[l].st \in ActiveStatuses
  BY <1>1 DEF SpendInv, RowsInv, Typed, Jobs, RowOK, ActiveStatuses
<1>3. l \in ActiveOf(r)
  BY <1>1, <1>2 DEF ActiveOf, Of
<1>4. rstat[r] = "in_progress"
  BY <1>3 DEF SpendInv, Idle
<1> QED BY <1>4 DEF CreateLiquidations

LEMMA IdleStep ==
  ASSUME SpendInv, [Next]_vars, RowsInv', RowsBooked', NeverDoubleSpent'
  PROVE  Idle' /\ Settled'
<1> SUFFICES ASSUME NEW r \in Requests
             PROVE  /\ rstat'[r] # "in_progress" => ActiveOf(r)' = {}
                    /\ rstat'[r] \in {"waiting", "transactions_failed", "done"} => rfilled'[r] = Amount
  BY DEF Idle, Settled
<1>0. /\ RowsInv /\ Typed /\ Idle /\ Settled /\ PendingIdle
      /\ rfilled'[r] >= Amount => rfilled'[r] = Amount /\ ActiveOf(r)' = {}
  <2>1. FilledAreIdle'
    BY FilledIdleAll, PTL
  <2> QED BY <2>1 DEF FilledAreIdle, SpendInv, RowsInv
<1>1. CASE CreateLiquidations(r) /\ rstat'[r] = "in_progress"
  BY <1>1
<1>2. ASSUME ~ CreateLiquidations(r), rstat[r] # "in_progress"
      PROVE  ActiveOf(r)' = {} /\ rfilled'[r] = rfilled[r]
  <2>1. ActiveOf(r)' \subseteq ActiveOf(r)
    BY <1>2, ActiveShrinks
  <2>2. CASE ShareCommit
    <3>1. r \notin RequestsOf(share.ids)
      BY <1>2, WorkedOn
    <3>2. SharedTo(r, share.ids) = 0 /\ rfilled[r] \in Nat
      BY <1>0, <3>1, BookedRows DEF Typed
    <3>3. rfilled'[r] = rfilled[r] + SharedTo(r, share.ids)
      BY <2>2 DEF ShareCommit
    <3> QED BY <1>0, <1>2, <2>1, <3>2, <3>3 DEF Idle
  <2>3. CASE ~ ShareCommit
    BY <1>0, <1>2, <2>1, <2>3, LockedRows DEF Idle
  <2> QED BY <2>2, <2>3
<1>3. CASE SubmitTransactions(r) /\ rstat[r] \in {"waiting", "transactions_failed"}
           /\ rstat'[r] = "done"
  <2>1. ~ CreateLiquidations(r)
    BY <1>3 DEF CreateLiquidations
  <2> QED BY <1>0, <1>2, <1>3, <2>1 DEF Settled
<1>4. CASE ~ CreateLiquidations(r) /\ rstat'[r] = rstat[r]
  BY <1>0, <1>2, <1>4 DEF Settled
<1>5. CASE ~ CreateLiquidations(r) /\ rstat[r] = "waiting" /\ rstat'[r] = "transactions_failed"
  BY <1>0, <1>2, <1>5 DEF Settled
<1>6. CASE ShareCommit /\ r \in RequestsOf(share.ids) /\ rstat'[r] = "waiting" /\ rfilled'[r] >= Amount
  BY <1>0, <1>6
<1>7. CASE ~ CreateLiquidations(r) /\ ShareCommit /\ rstat'[r] = "pending" /\ r \in share.pending
  <2>1. ActiveBeside(r, share.ids) = {} /\ ActiveOf(r)' \subseteq ActiveOf(r)
    BY <1>0, <1>7, ActiveShrinks DEF PendingIdle
  <2>2. ASSUME NEW l \in Ids, l \in share.ids PROVE l \notin ActiveOf(r)'
    BY <1>0, <1>7, <2>2, ShareEffect DEF ActiveOf, Of, ActiveStatuses
  <2>3. ActiveOf(r)' = {}
    BY <2>1, <2>2 DEF ActiveBeside, ActiveOf, Of
  <2> QED BY <1>7, <2>3
<1>8. CASE ~ CreateLiquidations(r) /\ DeleteCommit /\ r \in del.pending /\ rstat'[r] = "pending"
  <2>1. ActiveBeside(r, del.ids) = {} /\ ActiveOf(r)' \subseteq ActiveOf(r)
    BY <1>0, <1>8, ActiveShrinks DEF PendingIdle
  <2>2. ASSUME NEW l \in Ids, l \in del.ids PROVE l \notin ActiveOf(r)'
    BY <1>0, <1>8, <2>2, DeleteEffect DEF ActiveOf, Of, ActiveStatuses
  <2>3. ActiveOf(r)' = {}
    BY <2>1, <2>2 DEF ActiveBeside, ActiveOf, Of
  <2> QED BY <1>8, <2>3
<1> QED BY <1>1, <1>3, <1>4, <1>5, <1>6, <1>7, <1>8, StatusStep

LEMMA PendingIdleStep ==
  ASSUME SpendInv, [Next]_vars PROVE PendingIdle'
<1> USE DEF requests, orders, queues, running, ledger
<1>0. /\ RowsInv /\ Typed /\ PendingIdle /\ share.ids \in SUBSET Ids /\ del.ids \in SUBSET Ids
      /\ share.pending \in SUBSET Requests /\ del.pending \in SUBSET Requests
  BY DEF SpendInv, RowsInv, Typed, Jobs
<1>1. \A r \in share'.pending : r \in RequestsOf(share.ids)' /\ ActiveBeside(r, share.ids)' = {}
  <2>1. CASE ShareDecide
    <3>1. /\ share'.ids = Ready /\ liq' = liq
          /\ share'.pending = {r \in RequestsOf(Ready) : Unfilled(r) > SharedTo(r, Ready)
                                                         /\ ActiveBeside(r, Ready) = {}}
      BY <2>1 DEF ShareDecide
    <3> QED BY <3>1 DEF RequestsOf, ActiveBeside, ActiveOf, Of
  <2>2. CASE ShareCommit
    BY <2>2 DEF ShareCommit, Nothing
  <2>3. CASE ~ ShareDecide /\ ~ ShareCommit
    <3>1. share' = share /\ \A l \in share.ids : liq'[l] = liq[l]
      BY <1>0, <2>3, LockedRows
    <3> SUFFICES ASSUME NEW r \in share.pending
                 PROVE  r \in RequestsOf(share.ids)' /\ ActiveBeside(r, share.ids)' = {}
      BY <3>1
    <3>2. /\ r \in Requests /\ r \in RequestsOf(share.ids) /\ ActiveBeside(r, share.ids) = {}
          /\ ~ CreateLiquidations(r)
      BY <1>0, WorkedOn DEF PendingIdle
    <3>3. ActiveOf(r)' \subseteq ActiveOf(r)
      BY <3>2, ActiveShrinks
    <3>4. r \in RequestsOf(share.ids)'
      BY <3>1, <3>2 DEF RequestsOf
    <3> QED BY <3>1, <3>2, <3>3, <3>4 DEF ActiveBeside
  <2> QED BY <2>1, <2>2, <2>3
<1>2. \A r \in del'.pending : r \in RequestsOf(del.ids)' /\ ActiveBeside(r, del.ids)' = {}
  <2>1. CASE DeleteDecide
    <3>1. PICK ids : /\ del'.ids = ids /\ liq' = liq
                     /\ del'.pending = {r \in RequestsOf(ids) : ActiveBeside(r, ids) = {}}
      BY <2>1 DEF DeleteDecide
    <3> QED BY <3>1 DEF RequestsOf, ActiveBeside, ActiveOf, Of
  <2>2. CASE DeleteCommit
    BY <2>2 DEF DeleteCommit, Nothing
  <2>3. CASE ~ DeleteDecide /\ ~ DeleteCommit
    <3>1. del' = del /\ \A l \in del.ids : liq'[l] = liq[l]
      BY <1>0, <2>3, LockedRows
    <3> SUFFICES ASSUME NEW r \in del.pending
                 PROVE  r \in RequestsOf(del.ids)' /\ ActiveBeside(r, del.ids)' = {}
      BY <3>1
    <3>2. /\ r \in Requests /\ r \in RequestsOf(del.ids) /\ ActiveBeside(r, del.ids) = {}
          /\ ~ CreateLiquidations(r)
      BY <1>0, WorkedOn DEF PendingIdle
    <3>3. ActiveOf(r)' \subseteq ActiveOf(r)
      BY <3>2, ActiveShrinks
    <3>4. r \in RequestsOf(del.ids)'
      BY <3>1, <3>2 DEF RequestsOf
    <3> QED BY <3>1, <3>2, <3>3, <3>4 DEF ActiveBeside
  <2> QED BY <2>1, <2>2, <2>3
<1> QED BY <1>1, <1>2 DEF PendingIdle

Finished(r) == {l \in Of(r) : liq[l].st = "done"}
Exec == [l \in Ids |-> Executed(l)]

LEMMA ExecNat ==
  ASSUME RowsInv, NEW r
  PROVE  /\ \A l \in Ids : Exec[l] \in Nat
         /\ Finished(r) \subseteq Ids /\ IsFiniteSet(Finished(r))
<1>1. \A l \in Ids : order[l].fill \in Nat /\ broker[l].fill \in Nat
  BY DEF RowsInv, Typed, Orders
<1>2. \A l \in Ids : Exec[l] \in Nat
  BY <1>1 DEF Exec, Executed
<1>3. Finished(r) \subseteq Ids
  BY DEF Finished, Of
<1> QED BY <1>2, <1>3, IdsFinite

\* What is final for a row that is done or being shared stays so.
LEMMA ExecutedStays ==
  ASSUME SpendInv, [Next]_vars, NEW l \in Ids, liq[l].st \in {"ready_to_share", "done"}
  PROVE  Executed(l)' = Executed(l)
<1> USE DEF requests, orders, queues, running, ledger
<1>0. /\ RowsInv /\ Typed /\ RowOK(l) /\ RowBooked(l)
      /\ liq[l].ext => broker[l].st # "open"
      /\ ~ liq[l].ext => order[l].st # "open"
  BY DEF SpendInv, RowsInv, RowsBooked, RowBooked
<1>a. ASSUME liq'[l].ext = liq[l].ext,
             liq[l].ext => broker'[l].fill = broker[l].fill,
             ~ liq[l].ext => order'[l].fill = order[l].fill
      PROVE  Executed(l)' = Executed(l)
  BY <1>a DEF Executed
<1>1. ASSUME NEW q \in Requests, CreateLiquidations(q) PROVE Executed(l)' = Executed(l)
  <2>1. PICK u \in Nat, amount \in Nat, max \in Nat : Born(q, u, amount, max)
    BY <1>0, <1>1, CreateEffect
  <2>2. l \notin New(u, amount, max)
    BY <2>1 DEF Born, NoLiquidation
  <2> QED BY <1>0, <1>1, <1>a, <2>1, <2>2, CreateEffect DEF Born
<1>2. CASE \E j \in Ids : OrderTask(j)
  BY <1>0, <1>2, <1>a, OrderTaskEffect
<1>3. CASE \E j \in Ids : UpdateTask(j)
  BY <1>0, <1>3, <1>a, UpdateTaskEffect
<1>4. CASE \E j \in Ids : OrderMatched(j) \/ BrokerWorks(j) \/ SlaPasses(j)
  BY <1>0, <1>4, <1>a, MarketEffect
<1>5. CASE ProcessLiquidationOrders
  BY <1>0, <1>5, <1>a, ProcessEffect
<1>6. CASE ShareCommit
  <2>1. UNCHANGED orders
    BY <1>6 DEF ShareCommit
  <2> QED BY <1>0, <1>6, <1>a, <2>1, ShareEffect
<1>7. CASE DeleteCommit
  <2>1. UNCHANGED orders
    BY <1>7 DEF DeleteCommit
  <2> QED BY <1>0, <1>7, <1>a, <2>1, DeleteEffect
<1>8. CASE \/ \E q \in Requests : SubmitTransactions(q) \/ SubmitFails(q)
           \/ CheckExternal \/ ShareDecide \/ DeleteDecide \/ UNCHANGED vars
  BY <1>8, <1>a DEF SubmitTransactions, SubmitFails, CheckExternal, ShareDecide, DeleteDecide, vars
<1> QED BY <1>1, <1>2, <1>3, <1>4, <1>5, <1>6, <1>7, <1>8 DEF Next

\* A row that is done stays done.
LEMMA DoneStays ==
  ASSUME SpendInv, [Next]_vars, NEW l \in Ids, liq[l].st = "done"
  PROVE  liq'[l].st = "done" /\ liq'[l].req = liq[l].req
<1> USE DEF requests, orders, queues, running, ledger
<1>0. RowsInv /\ Typed /\ RowOK(l) /\ RowBooked(l)
  BY DEF SpendInv, RowsInv, RowsBooked
<1>1. ASSUME NEW q \in Requests, CreateLiquidations(q) PROVE liq'[l] = liq[l]
  <2>1. PICK u \in Nat, amount \in Nat, max \in Nat : Born(q, u, amount, max)
    BY <1>0, <1>1, CreateEffect
  <2>2. l \notin New(u, amount, max)
    BY <2>1 DEF Born, NoLiquidation
  <2> QED BY <2>1, <2>2 DEF Born
<1>2. CASE \E j \in Ids : OrderTask(j)
  BY <1>0, <1>2, OrderTaskEffect
<1>3. ASSUME NEW j \in Ids, UpdateTask(j) PROVE liq'[l] = liq[l]
  <2>1. j # l
    BY <1>0, <1>3, UpdateTaskEffect DEF RowBooked
  <2> QED BY <1>0, <1>3, <2>1, UpdateTaskEffect
<1>4. CASE ProcessLiquidationOrders
  BY <1>0, <1>4, ProcessEffect
<1>5. CASE ShareCommit
  BY <1>0, <1>5, ShareEffect
<1>6. CASE DeleteCommit
  BY <1>0, <1>6, DeleteEffect DEF RowOK
<1>7. CASE \/ \E q \in Requests : SubmitTransactions(q) \/ SubmitFails(q)
           \/ \E j \in Ids : OrderMatched(j) \/ BrokerWorks(j) \/ SlaPasses(j)
           \/ CheckExternal \/ ShareDecide \/ DeleteDecide \/ UNCHANGED vars
  BY <1>7 DEF SubmitTransactions, SubmitFails, OrderMatched, BrokerWorks, SlaPasses,
     CheckExternal, ShareDecide, DeleteDecide, vars
<1> QED BY <1>1, <1>2, <1>3, <1>4, <1>5, <1>6, <1>7 DEF Next

LEMMA FilledIs ==
  FilledWasExecuted <=> \A r \in Requests : rfilled[r] = SumOf(Exec, Finished(r))
  BY DEF FilledWasExecuted, Exec, Finished

LEMMA FilledWasExecutedStep ==
  ASSUME SpendInv, [Next]_vars PROVE FilledWasExecuted'
<1> USE DEF requests, orders, queues, running, ledger
<1>0. /\ RowsInv /\ Typed /\ RowsBooked
      /\ \A r \in Requests : rfilled[r] = SumOf(Exec, Finished(r))
  BY FilledIs DEF SpendInv, RowsInv
<1> SUFFICES ASSUME NEW r \in Requests PROVE rfilled'[r] = SumOf(Exec', Finished(r)')
  BY DEF FilledWasExecuted, Exec, Finished
<1>1. /\ \A l \in Ids : Exec[l] \in Nat
      /\ Finished(r) \subseteq Ids /\ IsFiniteSet(Finished(r))
  BY <1>0, ExecNat
<1>2. \A l \in Finished(r) : Exec'[l] = Exec[l] /\ l \in Finished(r)'
  <2> SUFFICES ASSUME NEW l \in Finished(r) PROVE Exec'[l] = Exec[l] /\ l \in Finished(r)'
    OBVIOUS
  <2>1. l \in Ids /\ liq[l].st = "done" /\ liq[l].req = r
    BY DEF Finished, Of
  <2>2. Executed(l)' = Executed(l)
    BY <2>1, ExecutedStays
  <2>3. liq'[l].st = "done" /\ liq'[l].req = liq[l].req
    BY <2>1, DoneStays
  <2> QED BY <2>1, <2>2, <2>3 DEF Exec, Finished, Of
<1>3. ASSUME NEW l \in Finished(r)', ~ (ShareCommit /\ l \in share.ids) PROVE l \in Finished(r)
  <2>1. l \in Ids /\ liq'[l].st = "done" /\ liq'[l].req = r
    BY DEF Finished, Of
  <2>2. liq[l].st = "done" /\ liq'[l] = liq[l]
    BY <1>3, <2>1, RowBack
  <2> QED BY <2>1, <2>2 DEF Finished, Of
<1>4. CASE ~ ShareCommit
  <2>1. Finished(r)' = Finished(r) /\ rfilled' = rfilled
    BY <1>0, <1>2, <1>3, <1>4, LockedRows
  <2>2. SumOf(Exec', Finished(r)) = SumOf(Exec, Finished(r))
    BY <1>1, <1>2, SumSame
  <2> QED BY <1>0, <2>1, <2>2
<1>5. CASE ShareCommit
  <2> DEFINE B == Booked(r)
             D == Finished(r)
             un == [l \in Ids |-> Unshared(l)]
  <2>1. /\ B \subseteq Ids /\ IsFiniteSet(B)
        /\ SharedTo(r, share.ids) = SumOf(un, B)
    BY BookedRows
  <2>2. \A l \in B : /\ l \in share.ids /\ liq[l].req = r /\ liq[l].st = "ready_to_share"
                     /\ un[l] = Exec[l]
    <3> SUFFICES ASSUME NEW l \in B
                 PROVE  /\ l \in share.ids /\ liq[l].req = r /\ liq[l].st = "ready_to_share"
                        /\ un[l] = Exec[l]
      OBVIOUS
    <3>1. l \in Ids /\ l \in share.ids /\ liq[l].req = r
      BY <2>1 DEF Booked
    <3>2. liq[l].st = "ready_to_share"
      BY <1>0, <3>1 DEF RowsInv, RowOK
    <3>3. liq[l].paid = 0 /\ liq[l].filled = Executed(l) /\ liq[l].filled \in Int
      BY <1>0, <3>1, <3>2 DEF RowsBooked, RowBooked, Executed, Typed, Liquidations
    <3> QED BY <3>1, <3>2, <3>3 DEF Unshared, Exec
  <2>3. Finished(r)' = D \cup B /\ D \cap B = {}
    <3>1. ASSUME NEW l \in B PROVE l \in Finished(r)' /\ l \notin D
      BY <1>0, <1>5, <2>1, <2>2, <3>1, ShareEffect DEF Finished, Of
    <3>2. ASSUME NEW l \in Finished(r)', l \notin D PROVE l \in B
      <4>1. l \in share.ids /\ l \in Ids /\ liq'[l].req = r
        BY <1>3, <3>2 DEF Finished, Of
      <4> QED BY <1>0, <1>5, <4>1, ShareEffect DEF Booked
    <3> QED BY <1>2, <3>1, <3>2
  <2>4. \A l \in D \cup B : Exec'[l] = Exec[l] /\ Exec[l] \in Int
    <3>1. ASSUME NEW l \in B PROVE Exec'[l] = Exec[l]
      <4>1. Executed(l)' = Executed(l) /\ l \in Ids
        BY <2>1, <2>2, <3>1, ExecutedStays
      <4> QED BY <4>1 DEF Exec
    <3> QED BY <1>1, <1>2, <2>1, <3>1
  <2>5. rfilled'[r] = rfilled[r] + SharedTo(r, share.ids)
    BY <1>5 DEF ShareCommit
  <2>6. rfilled[r] = SumOf(Exec, D) /\ IsFiniteSet(D)
    BY <1>0, <1>1
  <2> HIDE DEF B, D, un
  <2>7. SumOf(un, B) = SumOf(Exec, B)
    BY <2>1, <2>2, SumSame
  <2>8. IsFiniteSet(D \cup B)
    BY <2>1, <2>6, FS_Union
  <2>9. SumOf(Exec', D \cup B) = SumOf(Exec, D \cup B)
    BY <2>4, <2>8, SumSame
  <2>10. SumOf(Exec, D \cup B) = SumOf(Exec, D) + SumOf(Exec, B)
    BY <2>1, <2>3, <2>4, <2>6, SumUnion
  <2> QED BY <2>1, <2>3, <2>5, <2>6, <2>7, <2>9, <2>10
<1> QED BY <1>4, <1>5

\* What the market maker was charged for a request is what External adds up.
LEMMA ChargedIsExternal ==
  ASSUME SpendInv, NEW r PROVE SumOf(maker, Of(r)) = External(r)
<1> DEFINE E == {l \in Of(r) : liq[l].ext}
           I == {l \in Of(r) : ~ liq[l].ext}
           f == [l \in Ids |-> liq[l].paid]
<1>0. RowsInv /\ RowsBooked /\ Typed
  BY DEF SpendInv, RowsInv
<1>1. E \subseteq Ids /\ I \subseteq Ids /\ E \cap I = {} /\ E \cup I = Of(r)
  BY DEF Of
<1>2. IsFiniteSet(E) /\ IsFiniteSet(I)
  BY <1>1, IdsFinite
<1>3. \A l \in E : maker[l] = f[l]
  BY <1>0 DEF RowsBooked, RowBooked, Of
<1>4. \A l \in I : maker[l] = 0
  BY <1>0 DEF RowsBooked, RowBooked, Of
<1>5. \A l \in E \cup I : maker[l] \in Int
  BY <1>0, <1>1 DEF Typed
<1>6. External(r) = SumOf(f, E)
  BY DEF External
<1> HIDE DEF E, I, f
<1>7. SumOf(maker, E \cup I) = SumOf(maker, E) + SumOf(maker, I)
  BY <1>1, <1>2, <1>5, SumUnion
<1>8. SumOf(maker, I) = 0 /\ SumOf(maker, E) = SumOf(f, E)
  BY <1>2, <1>3, <1>4, SumZero, SumSame
<1>9. SumOf(maker, E) \in Int
  BY <1>2, <1>5, SumInt
<1>10. SumOf(maker, E \cup I) = SumOf(f, E)
  BY <1>7, <1>8, <1>9
<1> QED BY <1>1, <1>6, <1>10

\* Rows keep their request until they are deleted, and only a share charges the
\* market maker.
LEMMA RequestStays ==
  ASSUME SpendInv, [Next]_vars, NEW l \in Ids, NEW r \in Requests, liq[l].req = r
  PROVE  /\ liq'[l].req = r \/ (DeleteCommit /\ l \in del.ids)
         /\ maker'[l] = maker[l] \/ (ShareCommit /\ l \in share.ids)
<1> USE DEF requests, orders, queues, running, ledger
<1>0. RowsInv /\ Typed /\ RowOK(l) /\ r # None
  BY LiquidatorBounds DEF SpendInv, RowsInv
<1>1. ASSUME NEW q \in Requests, CreateLiquidations(q) PROVE liq'[l] = liq[l] /\ maker' = maker
  <2>1. PICK u \in Nat, amount \in Nat, max \in Nat : Born(q, u, amount, max)
    BY <1>0, <1>1, CreateEffect
  <2>2. l \notin New(u, amount, max)
    BY <1>0, <2>1 DEF Born, NoLiquidation
  <2> QED BY <1>0, <1>1, <2>1, <2>2, CreateEffect DEF Born
<1>2. CASE \E j \in Ids : OrderTask(j)
  BY <1>0, <1>2, OrderTaskEffect
<1>3. CASE \E j \in Ids : UpdateTask(j)
  BY <1>0, <1>3, UpdateTaskEffect
<1>4. CASE ProcessLiquidationOrders
  BY <1>0, <1>4, ProcessEffect
<1>5. CASE ShareCommit
  BY <1>0, <1>5, ShareEffect
<1>6. CASE DeleteCommit
  <2>1. maker' = maker
    BY <1>6 DEF DeleteCommit
  <2> QED BY <1>0, <1>6, <2>1, DeleteEffect
<1>7. CASE \/ \E q \in Requests : SubmitTransactions(q) \/ SubmitFails(q)
           \/ \E j \in Ids : OrderMatched(j) \/ BrokerWorks(j) \/ SlaPasses(j)
           \/ CheckExternal \/ ShareDecide \/ DeleteDecide \/ UNCHANGED vars
  BY <1>7 DEF SubmitTransactions, SubmitFails, OrderMatched, BrokerWorks, SlaPasses,
     CheckExternal, ShareDecide, DeleteDecide, vars
<1> QED BY <1>1, <1>2, <1>3, <1>4, <1>5, <1>6, <1>7 DEF Next

\* BooksAgree without its conditional
LEMMA BooksAre ==
  BooksAgree <=> \A r \in Requests : /\ rstat[r] = "done" => credit[r] = SumOf(maker, Of(r))
                                     /\ rstat[r] # "done" => credit[r] = 0
  BY DEF BooksAgree

LEMMA BooksAgreeStep ==
  ASSUME SpendInv, [Next]_vars PROVE BooksAgree'
<1> USE DEF requests, orders, queues, running, ledger
<1>0. /\ RowsInv /\ Typed /\ PendingIdle
      /\ \A r \in Requests : /\ rstat[r] = "done" => credit[r] = SumOf(maker, Of(r))
                             /\ rstat[r] # "done" => credit[r] = 0
  BY BooksAre DEF SpendInv, RowsInv
<1> SUFFICES ASSUME NEW r \in Requests
             PROVE  /\ rstat'[r] = "done" => credit'[r] = SumOf(maker', Of(r)')
                    /\ rstat'[r] # "done" => credit'[r] = 0
  BY DEF BooksAgree
<1>1. CASE CreateLiquidations(r)
  <2>1. rstat[r] = "pending" /\ rstat'[r] = "in_progress" /\ credit' = credit
    BY <1>0, <1>1, CreateEffect DEF CreateLiquidations, Typed
  <2> QED BY <1>0, <2>1
<1>2. CASE SubmitTransactions(r)
  <2>1. /\ rstat[r] # "done" /\ rstat'[r] = "done" /\ credit'[r] = credit[r] + External(r)
        /\ UNCHANGED <<maker, liq>>
    BY <1>0, <1>2 DEF SubmitTransactions, Typed
  <2>2. credit[r] = 0 /\ External(r) \in Nat
    BY <1>0, <2>1, ExternalNat
  <2>3. Of(r)' = Of(r)
    BY <2>1 DEF Of
  <2> QED BY <2>1, <2>2, <2>3, ChargedIsExternal
<1>3. CASE ~ CreateLiquidations(r) /\ ~ SubmitTransactions(r)
  <2>1. credit'[r] = credit[r] /\ (rstat'[r] = "done" => rstat[r] = "done")
    BY <1>3, StatusStep
  <2>2. CASE rstat[r] # "done"
    BY <1>0, <2>1, <2>2
  <2>3. CASE rstat[r] = "done"
    <3>1. r \notin RequestsOf(share.ids) /\ r \notin RequestsOf(del.ids)
      BY <2>3, WorkedOn
    <3>2. r \notin share.pending /\ r \notin del.pending
      BY <1>0, <3>1 DEF PendingIdle
    <3>3. rstat'[r] = "done"
      BY <1>3, <2>3, <3>1, <3>2, StatusStep
    <3>4. \A l \in Of(r) : l \in Of(r)' /\ maker'[l] = maker[l]
      <4> SUFFICES ASSUME NEW l \in Of(r) PROVE l \in Of(r)' /\ maker'[l] = maker[l]
        OBVIOUS
      <4>1. l \in Ids /\ liq[l].req = r
        BY DEF Of
      <4>2. l \notin share.ids /\ l \notin del.ids
        BY <3>1, <4>1 DEF RequestsOf
      <4>3. liq'[l].req = r /\ maker'[l] = maker[l]
        BY <4>1, <4>2, RequestStays
      <4> QED BY <4>1, <4>3 DEF Of
    <3>5. \A l \in Of(r)' : l \in Of(r)
      BY <1>3, RowBack DEF Of
    <3>6. Of(r)' = Of(r)
      BY <3>4, <3>5
    <3>7. IsFiniteSet(Of(r))
      BY IdsFinite DEF Of
    <3>8. SumOf(maker', Of(r)) = SumOf(maker, Of(r))
      BY <3>4, <3>7, SumSame
    <3> QED BY <1>0, <2>1, <2>3, <3>3, <3>6, <3>8
  <2> QED BY <2>2, <2>3
<1> QED BY <1>1, <1>2, <1>3

LEMMA SpendInit ==
  ASSUME Init PROVE SpendInv
<1>0. RowsInv /\ Amount \in Nat
  BY RowsInit, LiquidatorBounds
<1>1. \A l \in Ids : liq[l] = NoLiquidation /\ order[l] = NoOrder /\ broker[l] = NoOrder
                     /\ updates[l] = 0 /\ maker[l] = 0
  BY DEF Init
<1>2. RowsBooked
  BY <1>1 DEF RowsBooked, RowBooked, NoLiquidation, NoOrder
<1>3. \A r \in Requests : /\ Of(r) = {} /\ ActiveOf(r) = {} /\ Finished(r) = {}
                          /\ rstat[r] = "pending" /\ rfilled[r] = 0 /\ credit[r] = 0
  BY <1>1, LiquidatorBounds DEF Init, Of, ActiveOf, Finished, NoLiquidation
<1>4. Idle /\ Settled /\ PendingIdle
  BY <1>3 DEF Init, Idle, Settled, PendingIdle, Nothing
<1>5. NeverDoubleSpent
  BY <1>0, <1>3, SumEmpty, SpentIs
<1>6. FilledWasExecuted
  BY <1>3, SumEmpty, FilledIs
<1>7. BooksAgree
  BY <1>3, BooksAre
<1> QED BY <1>0, <1>2, <1>4, <1>5, <1>6, <1>7 DEF SpendInv

LEMMA SpendStep ==
  ASSUME MaxQueued <= 1, SpendInv, [Next]_vars PROVE SpendInv'
<1>1. RowsInv'
  BY RowsStep DEF SpendInv
<1>2. RowsBooked'
  <2>1. RowsInv /\ RowsBooked
    BY DEF SpendInv
  <2>2. \A l \in Ids : RowBooked(l)'
    BY <2>1, RowBookedStep
  <2> QED BY <2>2 DEF RowsBooked
<1>3. NeverDoubleSpent'
  BY NeverDoubleSpentStep
<1>4. Idle' /\ Settled'
  BY <1>1, <1>2, <1>3, IdleStep
<1> QED BY <1>1, <1>2, <1>3, <1>4, PendingIdleStep, FilledWasExecutedStep, BooksAgreeStep DEF SpendInv

LEMMA SpendCorrect ==
  ASSUME MaxQueued <= 1 PROVE Spec => []SpendInv
<1>1. Init => SpendInv
  BY SpendInit
<1>2. SpendInv /\ [Next]_vars => SpendInv'
  BY SpendStep
<1> QED BY <1>1, <1>2, PTL DEF Spec

\* NeverDoubleSpent, as long as the updates of a liquidation do not overtake each
\* other: however LiquidationCreator splits a request again and whatever is
\* deleted, refused or killed, its liquidations never execute more than it has.
THEOREM NoDoubleSpend ==
  ASSUME MaxQueued <= 1 PROVE Spec => []NeverDoubleSpent
<1>1. SpendInv => NeverDoubleSpent
  BY DEF SpendInv
<1> QED BY <1>1, SpendCorrect, PTL

\* FilledWasExecuted under the same condition: filled_amount of a request is
\* exactly what the markets executed for its finished liquidations.
THEOREM FilledCorrect ==
  ASSUME MaxQueued <= 1 PROVE Spec => []FilledWasExecuted
<1>1. SpendInv => FilledWasExecuted
  BY DEF SpendInv
<1> QED BY <1>1, SpendCorrect, PTL

\* BooksAgree under the same condition: the requester is paid once, and what the
\* market maker was charged, though the wallet transactions may fail and be retried.
THEOREM BooksCorrect ==
  ASSUME MaxQueued <= 1 PROVE Spec => []BooksAgree
<1>1. SpendInv => BooksAgree
  BY DEF SpendInv
<1> QED BY <1>1, SpendCorrect, PTL

\* TypeOK under the same condition; its upper bounds on filled_amount and on what
\* is paid follow from the amounts.
THEOREM TypeCorrect ==
  ASSUME MaxQueued <= 1 PROVE Spec => []TypeOK
<1>1. SpendInv => TypeOK
  <2> SUFFICES ASSUME SpendInv PROVE TypeOK
    OBVIOUS
  <2>0. RowsInv /\ Typed /\ RowsBooked /\ Amount \in Nat
    BY LiquidatorBounds DEF SpendInv, RowsInv
  <2>1. \A r \in Requests : rfilled[r] \in 0..Amount
    <3>1. \A r \in Requests : /\ rfilled[r] + SumOf(Rest, ActiveOf(r)) <= Amount
                              /\ SumOf(Rest, ActiveOf(r)) \in Nat /\ rfilled[r] \in Nat
      BY <2>0, RestNat, SpentIs DEF SpendInv, Typed
    <3> QED BY <2>0, <3>1
  <2>2. ASSUME NEW r \in Requests PROVE credit[r] \in 0..Amount
    <3> DEFINE D == Finished(r)
               R == Of(r) \ D
    <3>1. /\ D \subseteq Ids /\ R \subseteq Ids /\ D \cap R = {} /\ D \cup R = Of(r)
      BY DEF Finished, Of
    <3>2. IsFiniteSet(D) /\ IsFiniteSet(R)
      BY <3>1, IdsFinite
    <3>3. \A l \in D \cup R : maker[l] \in Int
      BY <2>0, <3>1 DEF Typed
    <3>4. \A l \in R : maker[l] = 0
      BY <2>0 DEF Finished, Of, RowsBooked, RowBooked
    <3>5. \A l \in D : maker[l] <= Exec[l] /\ Exec[l] \in Int
      <4> SUFFICES ASSUME NEW l \in D PROVE maker[l] <= Exec[l] /\ Exec[l] \in Int
        OBVIOUS
      <4>1. l \in Ids /\ liq[l].st = "done"
        BY DEF Finished, Of
      <4>2. Exec[l] \in Nat /\ Exec[l] = Executed(l)
        BY <2>0, <4>1, ExecNat DEF Exec
      <4>3. maker[l] = Executed(l) \/ maker[l] = 0
        BY <2>0, <4>1 DEF RowsBooked, RowBooked, Executed
      <4> QED BY <4>2, <4>3
    <3>6. SumOf(Exec, D) = rfilled[r]
      BY FilledIs DEF SpendInv
    <3> HIDE DEF D, R
    <3>7. SumOf(maker, D) <= SumOf(Exec, D)
      BY <3>2, <3>3, <3>5, SumMonotonic
    <3>8. SumOf(maker, R) = 0
      BY <3>2, <3>4, SumZero
    <3>9. SumOf(maker, D \cup R) = SumOf(maker, D) + SumOf(maker, R)
      BY <3>1, <3>2, <3>3, SumUnion
    <3>10. SumOf(maker, D) \in Int /\ rfilled[r] \in 0..Amount
      BY <2>1, <3>2, <3>3, SumInt
    <3>11. SumOf(maker, Of(r)) <= Amount
      <4>1. SumOf(maker, D \cup R) <= Amount
        BY <2>0, <3>6, <3>7, <3>8, <3>9, <3>10
      <4> QED BY <3>1, <4>1
    <3>12. credit[r] = 0 \/ credit[r] = SumOf(maker, Of(r))
      BY BooksAre DEF SpendInv
    <3>13. credit[r] \in Nat
      BY <2>0 DEF Typed
    <3> QED BY <2>0, <3>11, <3>12, <3>13
  <2> QED BY <2>0, <2>1, <2>2 DEF Typed, TypeOK
<1> QED BY <1>1, SpendCorrect, PTL
=============================================================================
