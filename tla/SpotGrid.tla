------------------------------ MODULE SpotGrid ------------------------------
(***************************************************************************)
(* The arithmetic of a Spot grid (grid-bot/rust/src/lib.rs, GridPlan and   *)
(* build_plan; reconcile.rs) on a small price axis.  A price is a tick of  *)
(* 0 .. MaxPrice, sizes are lots, and a level's notional is its size, so   *)
(* what a plan needs of each asset is a sum of sizes.  A book, wanted or   *)
(* resting, gives the size at each price per side.                         *)
(***************************************************************************)
EXTENDS Integers, FiniteSets

CONSTANTS
  MaxPrice,     \* bound of the price axis
  FullSize,     \* lots per level that the configuration asks for
  HalfWidth     \* half the width of a range in ticks

ASSUME SpotGridAssumption ==
  /\ MaxPrice \in Nat \ {0}
  /\ FullSize \in Nat \ {0}
  /\ HalfWidth \in Nat \ {0}

Prices == 0 .. MaxPrice
Side == [Prices -> 0 .. FullSize]
Books == [bids : Side, asks : Side]
Plans == [lower : Int, upper : Int, bids : Side, asks : Side]

Nothing == [p \in Prices |-> 0]
EmptyBook == [bids |-> Nothing, asks |-> Nothing]

\* The lots of a side, each one counted at its price.
Total(side) == Cardinality({lot \in Prices \X (1 .. FullSize) : lot[2] <= side[lot[1]]})

BaseRequired(plan) == Total(plan.asks)
QuoteRequired(plan) == Total(plan.bids)
LevelCount(plan) ==
  Total([p \in Prices |-> (IF plan.bids[p] > 0 THEN 1 ELSE 0) + (IF plan.asks[p] > 0 THEN 1 ELSE 0)])

SizeAt(plan, p) == plan.bids[p] + plan.asks[p]

-----------------------------------------------------------------------------

Clamp(mid, lower, upper) ==
  IF mid < lower THEN lower ELSE IF mid > upper THEN upper ELSE mid

\* build_plan over resolved bounds: bids below the (clamped) mid and asks above it, out to the
\* bounds.  Each side has at least one level, so a bound gets its level even if the mid is on it.
BuildPlan(range, mid) ==
  LET at == Clamp(mid, range.lower, range.upper)
  IN [lower |-> range.lower, upper |-> range.upper,
      bids |-> [p \in Prices |->
                  IF range.lower <= p /\ (p < at \/ p = range.lower) THEN FullSize ELSE 0],
      asks |-> [p \in Prices |->
                  IF p <= range.upper /\ (at < p \/ p = range.upper) THEN FullSize ELSE 0]]

\* A percentage range is resolved around the mid, fixed bounds are taken as they are.
ResolveRange(kind, bounds, mid) ==
  IF kind = "bounds" THEN bounds
  ELSE [lower |-> mid - HalfWidth, upper |-> mid + HalfWidth]

\* GridPlan::project_spot: only the side of a level follows the price.
Project(plan, mid) ==
  [bids |-> [p \in Prices |-> IF p < mid THEN SizeAt(plan, p) ELSE 0],
   asks |-> [p \in Prices |-> IF p > mid THEN SizeAt(plan, p) ELSE 0]]

\* GridPlan::resize_asks_to_available_base: the asks the plan was pinned with are scaled down
\* in proportion, rounded to whole lots.
ResizeAsks(plan, available) ==
  IF BaseRequired(plan) <= available THEN plan
  ELSE [plan EXCEPT !.asks =
          [p \in Prices |-> (plan.asks[p] * available) \div BaseRequired(plan)]]

\* "partial entry leaves no ask level at the market minimum size"
ResizeFails(plan, available) ==
  BaseRequired(plan) > available /\ ResizeAsks(plan, available).asks = Nothing

\* Mutant: a resting order covers a level whatever remains of it.
MissingByPrice(desired, actual) ==
  \E p \in Prices :
    \/ desired.bids[p] > 0 /\ actual.bids[p] = 0
    \/ desired.asks[p] > 0 /\ actual.asks[p] = 0

\* reconcile: some desired level has no resting order of exactly its size.
Missing(desired, actual) ==
  \E p \in Prices :
    \/ desired.bids[p] > 0 /\ actual.bids[p] # desired.bids[p]
    \/ desired.asks[p] > 0 /\ actual.asks[p] # desired.asks[p]

=============================================================================
