-------------------------- MODULE MCOrderLifecycle --------------------------
(* An OCO pair (limit sell l with stop sell s), a limit buy and a market buy *)
(* placed by the system, with cancel requests from two workers.              *)
EXTENDS OrderLifecycle, TLC

CONSTANTS l, s, b, m, c1, c2

MCOrders == {l, s, b, m}
MCSide == [o \in MCOrders |-> IF o \in {l, s} THEN "sell" ELSE "buy"]
MCExec == [o \in MCOrders |-> CASE o = s -> "stop_limit"
                                [] o = m -> "market"
                                [] OTHER -> "limit"]
MCAmount == [o \in MCOrders |-> IF o = m THEN 1 ELSE 2]
MCPair == [o \in MCOrders |-> CASE o = l -> s [] o = s -> l [] OTHER -> None]
MCSystem == {m}

\* The same orders without the market order
OcoOrders == {l, s, b}
OcoSide == [o \in OcoOrders |-> MCSide[o]]
OcoExec == [o \in OcoOrders |-> MCExec[o]]
OcoAmount == [o \in OcoOrders |-> MCAmount[o]]
OcoPair == [o \in OcoOrders |-> MCPair[o]]

OneRequest == {c1}
TwoRequests == {c1, c2}
RequestSymmetry == Permutations(TwoRequests)
=============================================================================
