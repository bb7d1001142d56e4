---------------------------- MODULE MCMatchRound ----------------------------
(***************************************************************************)
(* Instances of MatchRound: s1, s2 sell and b1, b2 buy; seller and buyer   *)
(* are ordinary users, bot is a system trader with one order on each side. *)
(***************************************************************************)
EXTENDS MatchRound, TLC

CONSTANTS s1, s2, b1, b2, seller, buyer, bot

MCSide == [o \in Orders |-> IF o \in {s1, s2} THEN "sell" ELSE "buy"]
MCOwner == [o \in Orders |-> IF o \in {s1, s2} THEN seller ELSE buyer]
BotOwner == [o \in Orders |-> IF o = s1 THEN seller ELSE IF o = b1 THEN buyer ELSE bot]
MCFunds == [u \in Users |-> [c \in {"src", "dst"} |->
              IF <<u, c>> \in {<<seller, "src">>, <<buyer, "dst">>,
                             <<bot, "src">>, <<bot, "dst">>} THEN 2 ELSE 0]]

\* Orders of one side with the same owner and type are interchangeable.
SellSymmetry == Permutations({s1, s2})
=============================================================================
