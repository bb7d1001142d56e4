---------------------------- MODULE MCLiquidator ----------------------------
(* One request for two units and up to three liquidations.                   *)
EXTENDS Liquidator

CONSTANTS r1

MCRequests == {r1}
=============================================================================
