----------------------------- MODULE MCWithdraw -----------------------------
(* Two coin withdraws of one wallet: to an internal target, with a batch      *)
(* method, or with a method that sends one at a time.                         *)
EXTENDS Withdraw

CONSTANTS r1, r2

MCRequests == {r1, r2}
Kinds(a, b) == [r \in MCRequests |-> IF r = r1 THEN a ELSE b]
AllSingle == {Kinds("single", "single")}
MCMixes == {Kinds("batch", "batch"), Kinds("internal", "single")}
=============================================================================
