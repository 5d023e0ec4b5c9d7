--------------------------- MODULE MCMarketMaker ---------------------------
(***************************************************************************)
(* Values of MarketMaker's constants for TLC.                              *)
(***************************************************************************)
EXTENDS MarketMaker, TLC

MCActors == {"cycle", "operator"}

Setting(auto, force, quotable, stall, faults) ==
  [auto |-> auto, force |-> force, quotable |-> quotable, stall |-> stall, faults |-> faults]

\* Escalation with a reprice every second stalled cycle, an order size the market does not
\* take and flatten orders never repriced, and no auto-flatten at all.
Faultless ==
  {Setting(TRUE, TRUE, TRUE, 2, {}), Setting(TRUE, TRUE, FALSE, 0, {}),
   Setting(FALSE, FALSE, TRUE, 0, {})}

\* Lost and abandoned answers, with flatten orders never repriced; and REST views that lag.
Faulty ==
  {Setting(TRUE, TRUE, TRUE, 0, {"timeout", "lostReply", "noId"}),
   Setting(TRUE, TRUE, TRUE, 1, {"lag"})}

Escalating == {Setting(TRUE, TRUE, TRUE, 1, {})}

OrderIds == Permutations(Ids)
=============================================================================
