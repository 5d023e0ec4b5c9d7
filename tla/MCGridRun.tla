----------------------------- MODULE MCGridRun -----------------------------
(***************************************************************************)
(* Small instances of GridRun for TLC.                                     *)
(***************************************************************************)
EXTENDS GridRun

Setting(kind, extend, policy, stop, faults) ==
  [kind |-> kind, extend |-> extend, policy |-> policy, stop |-> stop, auto |-> TRUE,
   faults |-> faults]

\* A stop-loss below the range and a market that is sold on exit; everything may go wrong.
Faulty == {Setting("percent", FALSE, "sell", 0, {"crash", "timeout", "lag", "cross", "ctrlC"})}

\* Between two processes the account changes its fee tier.
AnotherTier == {Setting("percent", FALSE, "retain", -1, {"crash", "feeTier"})}
FaultyOrAnotherTier == Faulty \cup AnotherTier

\* The base is provided by the operator, not bought.
Unfunded(configs) == {[c EXCEPT !.auto = FALSE] : c \in configs}

\* Nothing is lost or late; someone else may trade on the same market, or the grid is extended.
Faultless ==
  {Setting("percent", FALSE, "retain", -1, {"standalone"})}
    \cup Unfunded({Setting("bounds", TRUE, "retain", -1, {})})

Quiet == {Setting("percent", FALSE, "retain", -1, {})}
UnfundedQuiet == Unfunded(Quiet)
StopLossOnly == {Setting("percent", FALSE, "retain", 0, {})}

\* Both sides are paid for; a lot of base short, or all of it; one level each with a spare lot.
Enough == {[base |-> 2, quote |-> 2]}
Short == {[base |-> 1, quote |-> 3]}
Bare == {[base |-> 0, quote |-> 2]}
Covered == {[base |-> 1, quote |-> 2]}

=============================================================================
