---------------------------- MODULE GridPlanning ----------------------------
(***************************************************************************)
(* From the settings of a grid to the orders on the book, with the         *)
(* arithmetic of the code (grid-bot/rust/src/lib.rs, GridConfig, GridPlan, *)
(* build_plan and the parameters of a bulk order; reconcile.rs) and the    *)
(* callers: the Perp and the Spot cycle of run_cli, and shadow, reconcile  *)
(* and doctor, which only look.  Prices are counted in half ticks, sizes   *)
(* in lots; a ratio is kept as its numerator and denominator until the     *)
(* code rounds it, so every rounding of the code happens here as well.     *)
(*                                                                         *)
(* GridRun has the life of a Spot grid with its funding, its exits and its *)
(* crashes, on one size per level; here is what a plan costs, what the     *)
(* venue is sent, and how that is compared with what rests.                *)
(***************************************************************************)
EXTENDS Integers, Sequences, SequencesExt, SeqFolds

CONSTANTS
  NoPlan,            \* no plan, no budget
  Settings,          \* the configurations of the grid
  Mids,              \* the mid prices the market may have, in half ticks
  MinSize,           \* the smallest order of the market, in lots
  MaxPerSide,        \* MAX_LEVELS_PER_SIDE: 30 in the code
  MaxTotal,          \* MAX_TOTAL_LEVELS: 40 in the code
  Balances,          \* what the account may hold: [base, quote]
  MaxFailures,       \* max_consecutive_bulk_failures
  MaxMissing,        \* bound: orders of the plan that are missing or partly filled before no more fill
  MaxStandalone      \* bound: orders placed outside the bot at one time

Tick == 2            \* in half ticks
FeeUnit == 100       \* fees and margins are percents here, basis points in the code

VARIABLES
  config,    \* the GridConfig
  mid,       \* the market price
  pinned,    \* pinned_spot_plan of run_cli
  plan,      \* snapshot.plan of the last cycle
  orders,    \* the open orders of the account
  run        \* [state, failures, submitted, funded]: the locals of the run loop

planVars == <<config, mid, pinned, plan, orders, run>>

\* The fields of a GridConfig; validate looks at their values.
Configs ==
  [product : {"spot", "perp"}, mode : {"neutral", "long", "short"},
   range : {"bounds", "percent", "step"}, lower : Int, upper : Int, percent : Int, total : Int,
   allocation : {"budget", "fixed"}, amount : Int, quote : Int \cup {NoPlan},
   base : Int \cup {NoPlan}, autoConvert : BOOLEAN, fee : Int, margin : Int, leverage : Int]

ASSUME GridPlanningAssumption ==
  /\ Settings \subseteq Configs /\ NoPlan \notin Int
  /\ Mids \subseteq Nat \ {0} /\ MinSize \in Nat \ {0}
  /\ MaxPerSide \in Nat \ {0} /\ MaxTotal \in 2 .. 2 * MaxPerSide
  /\ MaxFailures \in Nat \ {0} /\ MaxMissing \in Nat /\ MaxStandalone \in Nat
  /\ \A b \in Balances : b.base \in Nat /\ b.quote \in Nat

Abs(x) == IF x < 0 THEN -x ELSE x
Smaller(x, y) == IF x < y THEN x ELSE y
Larger(x, y) == IF x > y THEN x ELSE y
Within(x, low, high) == Larger(low, Smaller(x, high))

-----------------------------------------------------------------------------
(* Levels and plans.                                                       *)

Notional(levels) == SumOf([i \in DOMAIN levels |-> levels[i].price * levels[i].size])
Lots(levels) == SumOf([i \in DOMAIN levels |-> levels[i].size])

Sides == {"bid", "ask"}
AllLevels(p) == p.bids \o p.asks

\* GridConfig::validate.
Valid(c) ==
  /\ c.total \in 2 .. MaxTotal
  /\ c.product = "perp" /\ c.mode # "neutral" => c.total <= MaxPerSide
  /\ c.fee \in 0 .. FeeUnit - 1 /\ c.leverage > 0
  /\ IF c.range = "bounds" THEN 0 < c.lower /\ c.lower < c.upper
     ELSE 0 < c.percent /\ c.percent < 100
  /\ c.amount > 0
  /\ c.quote # NoPlan => c.quote > 0
  /\ c.base # NoPlan => c.base >= 0 /\ (c.base = 0 => c.autoConvert)
  /\ c.margin >= 0

\* What a price of the plan is a fraction of: 100 per percentage the range applies to the mid.
Parts(c) ==
  CASE c.range = "bounds" -> 1
    [] c.range = "percent" -> 100
    [] c.range = "step" -> Power(100, c.total)

\* resolve_range, as numerators over Parts.
ResolvedRange(c, m) ==
  CASE c.range = "bounds" -> [lower |-> c.lower, upper |-> c.upper]
    [] c.range = "percent" -> [lower |-> m * (100 - c.percent), upper |-> m * (100 + c.percent)]
    [] c.range = "step" -> [lower |-> m * Power(100 - c.percent, c.total),
                            upper |-> m * Power(100 + c.percent, c.total)]

\* The mid that the sides are measured from, over Parts: a Spot mid is held within the range.
AllocationMid(c, r, m) ==
  IF c.product = "spot" THEN Within(m * Parts(c), r.lower, r.upper) ELSE m * Parts(c)

\* A Perp mid has to be within the range.
MidAllowed(c, r, m) == c.product = "perp" => r.lower < m * Parts(c) /\ m * Parts(c) < r.upper

\* round_dp(0): to the nearest integer, a half to the even one.
RoundHalfEven(n, d) ==
  LET down == n \div d
      rest == 2 * (n % d)
  IN IF rest > d \/ (rest = d /\ down % 2 = 1) THEN down + 1 ELSE down

\* Mutant: the share of a side is not held within the limits of a side.
SideCountsUnclamped(c, r, at) ==
  LET bids == RoundHalfEven(c.total * (at - r.lower), r.upper - r.lower)
  IN [bid |-> bids, ask |-> c.total - bids]

\* side_counts: the levels of each side.  A directional Perp grid has one on the other side; else
\* a side has its share of the range, but at least one level and at most MaxPerSide.
SideCounts(c, r, at) ==
  CASE c.product = "perp" /\ c.mode = "long" -> [bid |-> c.total, ask |-> 1]
    [] c.product = "perp" /\ c.mode = "short" -> [bid |-> 1, ask |-> c.total]
    [] OTHER ->
         LET bids == Within(RoundHalfEven(c.total * (at - r.lower), r.upper - r.lower),
                            Larger(c.total - MaxPerSide, 1), Smaller(MaxPerSide, c.total - 1))
         IN [bid |-> bids, ask |-> c.total - bids]

\* The price of a level before it is rounded, as a numerator and its denominator.
Raw(c, side, r, at, m, count, i) ==
  IF c.range = "step"
  THEN <<m * Power(IF side = "bid" THEN 100 - c.percent ELSE 100 + c.percent, i), Power(100, i)>>
  ELSE LET bound == IF side = "bid" THEN r.lower ELSE r.upper
       IN <<at * (count - i) + bound * i, Parts(c) * count>>

RoundDown(ratio) == Tick * (ratio[1] \div (ratio[2] * Tick))

\* sort and dedup
Ascending(values) ==
  Fold([q \in Seq(Nat) \X Nat |->
          Keep(q[1], 0 .. q[2] - 1) \o <<q[2]>> \o Keep(q[1], Nat \ (0 .. q[2]))], <<>>, values)

\* prices: the prices of a side from the mid outwards, rounded down to a tick, duplicates out.
PricesOf(c, side, r, at, m, count) ==
  LET values == Ascending([i \in 1 .. count |-> RoundDown(Raw(c, side, r, at, m, count, i))])
  IN IF side = "bid" THEN Reverse(values) ELSE values

GridPrices(c, r, at, m) ==
  LET count == SideCounts(c, r, at)
  IN [side \in Sides |-> PricesOf(c, side, r, at, m, count[side])]

\* Mutant: the maker fee is not taken out of the quote budget.
SpotSizesWithoutFee(c, r, at, prices) ==
  LET bidPrices == SumOf(prices.bid)
      askPrices == SumOf(prices.ask)
      range == r.upper - r.lower
      budget == IF c.allocation = "budget" THEN c.amount ELSE 0
      bidShare == IF c.quote # NoPlan THEN <<c.quote, 1>> ELSE <<budget * (at - r.lower), range>>
  IN [bid |-> bidShare[1] \div (bidShare[2] * bidPrices),
      ask |-> IF c.base # NoPlan /\ c.base > 0 THEN c.base \div Len(prices.ask)
              ELSE (budget * (r.upper - at)) \div (range * askPrices)]

\* derive_sizes for a Spot grid with a budget, rounded down to a lot: explicit budgets replace
\* the share of the total budget that the place of the mid in the range gives a side.
SpotSizes(c, r, at, prices) ==
  LET bidPrices == SumOf(prices.bid)
      askPrices == SumOf(prices.ask)
      range == r.upper - r.lower
      budget == IF c.allocation = "budget" THEN c.amount ELSE 0
      bidShare == IF c.quote # NoPlan THEN <<c.quote, 1>> ELSE <<budget * (at - r.lower), range>>
  IN [bid |-> (bidShare[1] * FeeUnit) \div (bidShare[2] * bidPrices * (FeeUnit + c.fee)),
      ask |-> IF c.base # NoPlan /\ c.base > 0 THEN c.base \div Len(prices.ask)
              ELSE (budget * (r.upper - at)) \div (range * askPrices)]

\* ... for a Perp grid: one size, so that the larger side's margin and all fees fit the budget.
PerpCost(c, prices) ==
  LET bidPrices == SumOf(prices.bid)
      askPrices == SumOf(prices.ask)
  IN Larger(bidPrices, askPrices) * FeeUnit + (bidPrices + askPrices) * c.fee * c.leverage

PerpSize(c, prices) == (c.amount * FeeUnit * c.leverage) \div PerpCost(c, prices)

DerivedSizes(c, r, at, prices) ==
  LET explicit == c.product = "spot" /\ (c.quote # NoPlan \/ c.base # NoPlan)
      size == IF c.allocation = "fixed" THEN c.amount ELSE PerpSize(c, prices)
  IN IF explicit \/ (c.product = "spot" /\ c.allocation = "budget")
     THEN SpotSizes(c, r, at, prices)
     ELSE [bid |-> IF c.product = "perp" /\ c.mode = "short" THEN 0 ELSE size,
           ask |-> IF c.product = "perp" /\ c.mode = "long" THEN 0 ELSE size]

\* A size of less than a lot is zero by now and passes, like the zero of a directional grid.
TooSmall(size) == size > 0 /\ size < MinSize

\* GridPlan::enforce_min_net_margin over every two neighbouring prices.
EnforcesMargin(c, prices) ==
  /\ Cardinality(prices) >= 2
  /\ \A low \in prices : \A high \in prices :
       low < high /\ (\A p \in prices : ~(low < p /\ p < high)) =>
         (high - low) * FeeUnit >= (2 * c.fee + c.margin) * low

Level(side, price, size) == [side |-> side, price |-> price, size |-> size, filled |-> FALSE]

\* Prices under a tick are zero by now.  The size of a Perp grid of such prices is an error; a Spot
\* plan with one of them ends in a division by it, for the sizes or for the margin.
Priced(c, prices) ==
  IF c.product = "spot" THEN 0 \notin Range(prices.bid) \cup Range(prices.ask)
  ELSE c.allocation = "budget" => PerpCost(c, prices) > 0

\* The sum of what the bids cost has their maker fees, over FeeUnit.
PlanOf(c, m, prices, size) ==
  LET levels == [side \in Sides |->
                   [i \in DOMAIN prices[side] |-> Level(side, prices[side][i], size[side])]]
  IN [mid |-> m, bids |-> levels["bid"], asks |-> levels["ask"],
      quote |-> Notional(levels["bid"]) * (FeeUnit + c.fee), base |-> Lots(levels["ask"])]

\* build_plan, or NoPlan where it reports an error or panics.
BuildPlan(c, m) ==
  LET r == ResolvedRange(c, m)
      at == AllocationMid(c, r, m)
      prices == GridPrices(c, r, at, m)
      size == DerivedSizes(c, r, at, prices)
  IN IF /\ Valid(c) /\ MidAllowed(c, r, m) /\ Priced(c, prices)
        /\ \A side \in Sides : ~TooSmall(size[side])
        /\ c.product = "spot" => EnforcesMargin(c, Range(prices.bid) \cup Range(prices.ask))
     THEN PlanOf(c, m, prices, size) ELSE NoPlan

\* sort_by_key, which keeps the order of levels with one price.
ByPrice(levels) ==
  LET all == Range(levels)
  IN Fold([q \in Seq(all) \X all |->
             Keep(q[1], {l \in all : l.price <= q[2].price}) \o <<q[2]>>
               \o Keep(q[1], {l \in all : l.price > q[2].price})], <<>>, levels)

\* GridPlan::project_spot: the levels of the plan on the sides the mid gives them; those within
\* half a tick of it are left out.  The fee is read off the plan, where its bids cost something.
Project(p, m) ==
  LET away == Keep(AllLevels(p), {l \in Range(AllLevels(p)) : 2 * Abs(l.price - m) > Tick})
      sided == [i \in DOMAIN away |->
                  [away[i] EXCEPT !.side = IF away[i].price <= m THEN "bid" ELSE "ask", !.filled = FALSE]]
      sorted == ByPrice(sided)
      bids == Reverse(Keep(sorted, {l \in Range(sorted) : l.price < m}))
      asks == Keep(sorted, {l \in Range(sorted) : l.price >= m})
      multiplier == IF Notional(p.bids) > 0 THEN p.quote \div Notional(p.bids) ELSE FeeUnit
  IN [mid |-> m, bids |-> bids, asks |-> asks,
      quote |-> Notional(bids) * multiplier, base |-> Lots(asks)]

\* GridPlan::apply_trade_history: a level with a trade within half a tick of it is shown as filled.
ApplyTradeHistory(p, trades) ==
  LET mark(levels) == [i \in DOMAIN levels |->
        [levels[i] EXCEPT !.filled = @ \/ \E t \in trades : 2 * Abs(t - levels[i].price) <= Tick]]
  IN [p EXCEPT !.bids = mark(@), !.asks = mark(@)]

\* GridPlan::executable
Executable(p) ==
  LET reset(levels) == [i \in DOMAIN levels |-> [levels[i] EXCEPT !.filled = FALSE]]
  IN [p EXCEPT !.bids = reset(@), !.asks = reset(@)]

\* GridPlan::resize_asks_to_available_base, or NoPlan where no ask is left.
ResizeAsks(p, base) ==
  LET scaled == [i \in DOMAIN p.asks |-> [p.asks[i] EXCEPT !.size = (@ * base) \div p.base]]
      asks == Keep(scaled, {l \in Range(scaled) : l.size >= MinSize})
  IN IF p.base <= base THEN p
     ELSE IF asks = <<>> THEN NoPlan ELSE [p EXCEPT !.asks = asks, !.base = Lots(asks)]

-----------------------------------------------------------------------------
(* What is sent, and how it compares with what rests.                      *)

Order(level, origin) ==
  [side |-> level.side, price |-> level.price, size |-> level.size, origin |-> origin]

\* desired_orders, and the levels execute_bulk_grid sends: all but those marked as filled.
NotFilled(levels) == Keep(levels, {l \in Range(levels) : ~l.filled})
DesiredOrders(p) == [i \in DOMAIN NotFilled(AllLevels(p)) |-> Order(NotFilled(AllLevels(p))[i], "bulk")]

\* Bids go down from the best price, asks go up.
Better(side, p, q) == IF side = "bid" THEN p > q ELSE p < q

\* validate_bulk_side for levels in the order they are sent; prices are on the tick and sizes on
\* the lot by construction.
SideAccepted(levels, side) ==
  \A i \in DOMAIN levels :
    /\ levels[i].side = side /\ levels[i].price > 0 /\ levels[i].size >= MinSize
    /\ i > 1 => Better(side, levels[i - 1].price, levels[i].price)

\* prepare_bulk_order_parameters
Accepted(p) ==
  LET bids == NotFilled(p.bids)
      asks == NotFilled(p.asks)
  IN /\ bids # <<>> \/ asks # <<>>
     /\ Len(bids) <= MaxPerSide /\ Len(asks) <= MaxPerSide
     /\ SideAccepted(bids, "bid") /\ SideAccepted(asks, "ask")
     /\ bids # <<>> /\ asks # <<>> => Head(bids).price < Head(asks).price

Same(wanted, order) == order.side = wanted.side /\ order.price = wanted.price /\ order.size = wanted.size

\* Mutant: one resting order covers every desired level like it.
ReconcileShared(desired, actual) ==
  LET covered == {j \in DOMAIN desired : \E i \in DOMAIN actual : Same(desired[j], actual[i])}
      used == {i \in DOMAIN actual : \E j \in DOMAIN desired : Same(desired[j], actual[i])}
  IN [matched |-> used, missing |-> [j \in DOMAIN desired \ covered |-> desired[j]]]

\* A desired order takes the first matching open order that is still free, or is missing.
Matched(result, wanted, actual) ==
  LET free == {i \in DOMAIN actual \ result.matched : Same(wanted, actual[i])}
  IN IF free # {} THEN [result EXCEPT !.matched = @ \cup {CHOOSE i \in free : \A k \in free : i <= k}]
     ELSE [result EXCEPT !.missing = Append(@, wanted)]

\* reconcile: every desired order in turn.  The result has the indices of the open orders that were
\* taken and the orders found missing; what is left of the open orders is unmanaged.
Reconcile(desired, actual) ==
  LET wanted == Range(desired)
      results == [matched : SUBSET DOMAIN actual, missing : Seq(wanted)]
  IN Fold([q \in results \X wanted |-> Matched(q[1], q[2], actual)],
          [matched |-> {}, missing |-> <<>>], desired)

Unmanaged(actual, result) == DOMAIN actual \ result.matched
Converged(actual, result) == result.missing = <<>> /\ Unmanaged(actual, result) = {}

\* blocking_orders
Blocking(actual) == \E i \in DOMAIN actual : actual[i].origin = "standalone"

-----------------------------------------------------------------------------
(* The run loop, as far as plans and orders go.                            *)

PlanInit ==
  /\ config \in Settings /\ mid \in Mids
  /\ pinned = NoPlan /\ plan = NoPlan /\ orders = <<>>
  /\ run = [state |-> "cycle", failures |-> 0, submitted |-> 0, funded |-> FALSE]

\* The first Spot snapshot is pinned.  (The marks that the trade history left on its levels do not
\* last: project_spot sets them back, and a Perp cycle builds its plan again.)
Pin(snapshot) == IF pinned = NoPlan THEN snapshot ELSE pinned

\* What the replacement needs is there: the projected plan, against balances read in this cycle.
Covers(balance, p) == balance.quote * FeeUnit >= p.quote /\ balance.base >= p.base

\* The orders read in this cycle leave something to place, nothing forbids it, and the cooldown
\* holds back no more than a plan with as many levels as the last one.
Places(p) ==
  /\ ~Blocking(orders)
  /\ Reconcile(DesiredOrders(p), orders).missing # <<>>
  /\ p.bids # <<>> \/ p.asks # <<>>

Decides(p, may, funded) ==
  \E places \in BOOLEAN :
    /\ places => Places(p) /\ may
    /\ ~places => ~Places(p) \/ ~may \/ run.submitted = Len(AllLevels(p))
    /\ run' = [run EXCEPT !.state = IF places THEN "placing" ELSE "cycle", !.funded = funded]

\* A Spot cycle: pin, project, and place where the funds cover it.
SpotCycle ==
  /\ run.state = "cycle" /\ config.product = "spot"
  /\ \E snapshot \in {BuildPlan(config, mid)} \ {NoPlan} : pinned' = Pin(snapshot)
  /\ plan' = Project(pinned', mid)
  /\ \E balance \in Balances : Decides(plan', Covers(balance, plan'), run.funded)
  /\ UNCHANGED <<config, mid, orders>>

\* The one funding of a process was accepted although it bought only a part of the base.
PartialEntry ==
  /\ run.state = "cycle" /\ config.product = "spot" /\ ~run.funded /\ ~Blocking(orders)
  /\ \E snapshot \in {BuildPlan(config, mid)} \ {NoPlan}, balance \in Balances :
       /\ balance.base \in 1 .. Project(Pin(snapshot), mid).base - 1
       /\ pinned' = ResizeAsks(Pin(snapshot), balance.base) /\ pinned' # NoPlan
       /\ plan' = Project(pinned', mid)
       /\ Decides(plan', Covers(balance, plan'), TRUE)
  /\ UNCHANGED <<config, mid, orders>>

\* A Perp cycle: the plan is built anew around the mid.
PerpCycle ==
  /\ run.state = "cycle" /\ config.product = "perp"
  /\ plan' = BuildPlan(config, mid) /\ plan' # NoPlan
  /\ Decides(plan', TRUE, FALSE)
  /\ UNCHANGED <<config, mid, pinned, orders>>

Standalone(os) == Keep(os, {o \in Range(os) : o.origin = "standalone"})

\* The bulk order replaces the ladder and nothing else.
Placed ==
  /\ run.state = "placing" /\ Accepted(plan)
  /\ orders' = Standalone(orders) \o DesiredOrders(plan)
  /\ run' = [run EXCEPT !.state = "cycle", !.failures = 0, !.submitted = Len(DesiredOrders(plan))]
  /\ UNCHANGED <<config, mid, pinned, plan>>

\* The parameters are refused or the transaction fails; at the limit the ladder is cancelled, if
\* the cancellation succeeds, and the run pauses.
PlacementFails ==
  /\ run.state = "placing"
  /\ IF run.failures + 1 < MaxFailures
     THEN /\ run' = [run EXCEPT !.state = "cycle", !.failures = @ + 1]
          /\ UNCHANGED orders
     ELSE /\ run' = [run EXCEPT !.state = "paused", !.failures = @ + 1]
          /\ orders' \in {orders, Standalone(orders)}
  /\ UNCHANGED <<config, mid, pinned, plan>>

\* The market: its price, takers, and whoever else trades with the account.
MidMoves == run.state = "cycle" /\ mid' \in Mids \ {mid} /\ UNCHANGED <<config, pinned, plan, orders, run>>

Fill ==
  /\ plan # NoPlan /\ Len(Reconcile(DesiredOrders(plan), orders).missing) < MaxMissing
  /\ \E i \in DOMAIN orders : \E rest \in {r \in {0, 1} : r < orders[i].size} :
       orders' = IF rest = 0 THEN RemoveAt(orders, i) ELSE [orders EXCEPT ![i].size = rest]
  /\ UNCHANGED <<config, mid, pinned, plan, run>>

\* Like the first level of the plan, which it may stand in for.
StandalonePlaced ==
  /\ Len(Standalone(orders)) < MaxStandalone /\ plan # NoPlan
  /\ AllLevels(plan) # <<>> /\ Head(AllLevels(plan)).size > 0
  /\ orders' = Append(orders, Order(Head(AllLevels(plan)), "standalone"))
  /\ UNCHANGED <<config, mid, pinned, plan, run>>

StandaloneLeaves ==
  /\ Blocking(orders)
  /\ orders' = Keep(orders, {o \in Range(orders) : o.origin = "bulk"})
  /\ UNCHANGED <<config, mid, pinned, plan, run>>

\* The failure circuit is open; resuming takes a new process.
Paused == run.state = "paused" /\ UNCHANGED planVars

PlanNext ==
  \/ SpotCycle \/ PartialEntry \/ PerpCycle \/ Placed \/ PlacementFails
  \/ MidMoves \/ Fill \/ StandalonePlaced \/ StandaloneLeaves
  \/ Paused

PlanSpec == PlanInit /\ [][PlanNext]_planVars

\* fetch_snapshot, with the prices of the account's trades.
Snapshot(trades) ==
  LET built == BuildPlan(config, mid) IN IF built = NoPlan THEN NoPlan ELSE ApplyTradeHistory(built, trades)

\* reconcile_snapshot, behind doctor and reconcile, and a shadow cycle: a plan built around the
\* mid, for a pinned Spot grid as well, compared with the open orders.
ReconcileSnapshot(snapshot) == Reconcile(DesiredOrders(Executable(snapshot)), orders)

-----------------------------------------------------------------------------
(* Properties.                                                             *)

Levels ==
  [side : Sides, price : Nat, size : Nat, filled : BOOLEAN]
Plans == [mid : Mids, bids : Seq(Levels), asks : Seq(Levels), quote : Nat, base : Nat]

\* Plans, orders and locals have their types.
PlanTypeOK ==
  /\ config \in Settings /\ mid \in Mids
  /\ {pinned, plan} \subseteq Plans \cup {NoPlan}
  /\ orders \in Seq([side : Sides, price : Nat, size : Nat \ {0}, origin : {"bulk", "standalone"}])
  /\ run \in [state : {"cycle", "placing", "paused"}, failures : 0 .. MaxFailures, submitted : Nat,
              funded : BOOLEAN]

\* Every level an order of its own that the market allows, and not too many on a side.  The code
\* holds the sides of a Perp plan within that limit; a pinned Spot plan may outgrow it.
Sound(p) ==
  LET levels == AllLevels(p)
  IN /\ levels # <<>>
     /\ \A i \in DOMAIN levels : levels[i].price > 0 /\ levels[i].size >= MinSize
     /\ \A i, j \in DOMAIN levels : i # j => levels[i].price # levels[j].price
     /\ config.product = "spot" => Len(p.bids) <= MaxPerSide /\ Len(p.asks) <= MaxPerSide

\* A plan of such levels is never refused before it is sent: what build_plan rounds to ticks and
\* project_spot sorts around a moved mid is, on each side, strictly ordered outwards, on its own
\* side of the price and not crossed, and neither side of a Perp plan is too long (lib.rs:1732-1805).
SoundPlansAreAccepted == plan # NoPlan /\ Sound(plan) => Accepted(plan)

\* What the operator set aside pays for the plan built from it, after the rounding of prices, sizes
\* and level counts: the bids with their maker fees and the value of the asks within a total budget,
\* the explicit quote and base budgets each for its side, and for a Perp grid the margin of the
\* dearer side with the fees of both (lib.rs:2318-2415).
BudgetsKept ==
  LET c == config
      cost(p) == p.quote + Notional(p.asks) * FeeUnit
      margin(p) == Larger(Notional(p.bids), Notional(p.asks)) * FeeUnit
                     + (Notional(p.bids) + Notional(p.asks)) * c.fee * c.leverage
  IN /\ pinned # NoPlan =>
          /\ c.quote # NoPlan => pinned.quote <= c.quote * FeeUnit
          /\ c.base # NoPlan /\ c.base > 0 => pinned.base <= c.base
          /\ c.quote = NoPlan /\ c.base = NoPlan /\ c.allocation = "budget" =>
               cost(pinned) <= c.amount * FeeUnit
     /\ c.product = "perp" /\ plan # NoPlan /\ c.allocation = "budget" =>
          margin(plan) <= c.amount * FeeUnit * c.leverage

HowMany(os, kind) == Cardinality({i \in DOMAIN os : Same(kind, os[i])})

\* The report of reconcile, doctor and shadow compares two multisets, whatever partial fills,
\* foreign orders and trade marks did to them: of every price, side and size it reports missing
\* exactly what the book lacks, no open order stands in for two levels, and it says converged
\* exactly if the book is the whole ladder and nothing else (reconcile.rs:97-150).
ReconcileIsExact ==
  plan # NoPlan =>
    \A snapshot \in {Snapshot(Mids)} \ {NoPlan} :     \* trades at any price the market had
      LET levels == AllLevels(snapshot)
          wanted == [i \in DOMAIN levels |-> Order(levels[i], "bulk")]
          result == ReconcileSnapshot(snapshot)
          kinds == Range(wanted) \cup Range(orders)
      IN /\ \A kind \in kinds :
              /\ HowMany(result.missing, kind) = Larger(HowMany(wanted, kind) - HowMany(orders, kind), 0)
              /\ Cardinality({i \in result.matched : Same(kind, orders[i])})
                   = Smaller(HowMany(wanted, kind), HowMany(orders, kind))
         /\ Converged(orders, result) <=>
              \A kind \in kinds : HowMany(wanted, kind) = HowMany(orders, kind)
=============================================================================
