---------------------------- MODULE MCBulkOrders ----------------------------
(***************************************************************************)
(* A small instance of BulkOrders for TLC: three calls of one market, to   *)
(* which it is all the same which of them comes first, and one of another. *)
(***************************************************************************)
EXTENDS BulkOrders, TLC

CONSTANTS c1, c2, c3, c4, m1, m2

MCCalls == {c1, c2, c3, c4}
MCMarketOf == [c \in MCCalls |-> IF c = c4 THEN m2 ELSE m1]
CallsOfOneMarket == Permutations({c1, c2, c3})
=============================================================================
