-------------------------- MODULE MCTradeProcessor --------------------------
(* Trade 2 is of a tether market, the others are of rial markets; at most one *)
(* wallet is inactive, and the first trade may hold up the daemon.              *)
EXTENDS TradeProcessor

MCDst == [t \in Trades |-> IF t = 2 THEN "usdt" ELSE "rls"]
FirstOrphan == {1}
OneInactive == {<<1, "buy_deposit">>}
=============================================================================
