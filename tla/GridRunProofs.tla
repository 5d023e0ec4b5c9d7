--------------------------- MODULE GridRunProofs ---------------------------
(***************************************************************************)
(* Theorems about GridRun for every price axis, size of a level, set of    *)
(* configurations and bound on attempts, failures and processes; first     *)
(* what the operators of SpotGrid compute: sums of sizes, and the shape of *)
(* the grids that are built, projected on a price and resized.             *)
(***************************************************************************)
EXTENDS GridRun, FiniteSetTheorems, TLAPS

(* A grid has a range, one size per level, and no level outside the range. *)
Grid(plan) ==
  /\ plan.lower < plan.upper
  /\ \A p \in Prices : plan.bids[p] = 0 \/ plan.asks[p] = 0
  /\ \A p \in Prices : SizeAt(plan, p) > 0 => plan.lower <= p /\ p <= plan.upper

(* The same geometry, except that asks may have become smaller. *)
SameGrid(old, new) ==
  /\ new.lower = old.lower /\ new.upper = old.upper /\ new.bids = old.bids
  /\ \A p \in Prices : new.asks[p] <= old.asks[p]

Ranges == [lower : Int, upper : Int]

(* The lots that Total counts. *)
Lots(side) == {lot \in Prices \X (1 .. FullSize) : lot[2] <= side[lot[1]]}

-----------------------------------------------------------------------------
(* Sums of sizes. *)

LEMMA PricesAreInts == Prices \subseteq Int /\ Prices \subseteq Nat
  BY SpotGridAssumption DEF SpotGridAssumption, Prices

LEMMA LotsFinite ==
  ASSUME NEW side
  PROVE  IsFiniteSet(Lots(side))
<1>1. IsFiniteSet(Prices) /\ IsFiniteSet(1 .. FullSize)
  BY FS_Interval, SpotGridAssumption DEF SpotGridAssumption, Prices
<1>2. IsFiniteSet(Prices \X (1 .. FullSize))
  BY <1>1, FS_Product
<1>3. Lots(side) \in SUBSET (Prices \X (1 .. FullSize))
  BY DEF Lots
<1>4. QED
  BY <1>2, <1>3, FS_Subset

LEMMA TotalIsCardinality ==
  ASSUME NEW side
  PROVE  Total(side) = Cardinality(Lots(side))
  BY DEF Total, Lots

(* A sum of sizes is a natural number. *)
LEMMA TotalType ==
  ASSUME NEW side
  PROVE  Total(side) \in Nat
  BY LotsFinite, FS_CardinalityType, TotalIsCardinality

(* A side that is nowhere larger has no larger sum. *)
LEMMA TotalMonotone ==
  ASSUME NEW small \in [Prices -> Int], NEW large \in [Prices -> Int],
         \A p \in Prices : small[p] <= large[p]
  PROVE  Total(small) <= Total(large)
<1>1. Lots(small) \in SUBSET Lots(large)
  <2>1. SUFFICES ASSUME NEW p \in Prices, NEW n \in 1 .. FullSize, n <= small[p]
                 PROVE  n <= large[p]
    BY DEF Lots
  <2>2. small[p] \in Int /\ large[p] \in Int /\ small[p] <= large[p] /\ n \in Int
    BY SpotGridAssumption DEF SpotGridAssumption
  <2>3. QED
    BY <2>1, <2>2
<1>2. QED
  BY <1>1, LotsFinite, FS_Subset, TotalIsCardinality

(* Nothing sums up to zero. *)
LEMMA TotalOfNothing == Total(Nothing) = 0
<1>1. Lots(Nothing) = {}
  BY SpotGridAssumption DEF SpotGridAssumption, Lots, Nothing
<1>2. QED
  BY <1>1, FS_EmptySet, TotalIsCardinality

(* A lot less at one price is a lot less in the sum. *)
LEMMA TotalOfLess ==
  ASSUME NEW side \in Side, NEW p \in Prices, side[p] > 0
  PROVE  Total([side EXCEPT ![p] = @ - 1]) = Total(side) - 1
<1> DEFINE less == [side EXCEPT ![p] = @ - 1]
<1>1. side[p] \in 1 .. FullSize
  BY SpotGridAssumption DEF SpotGridAssumption, Side
<1>2. <<p, side[p]>> \in Lots(side)
  BY <1>1, SpotGridAssumption DEF SpotGridAssumption, Lots
<1>3. Lots(less) = Lots(side) \ {<<p, side[p]>>}
  <2>1. \A q \in Prices, n \in 1 .. FullSize :
          n <= less[q] <=> n <= side[q] /\ (q # p \/ n # side[p])
    <3>1. SUFFICES ASSUME NEW q \in Prices, NEW n \in 1 .. FullSize
                   PROVE  n <= less[q] <=> n <= side[q] /\ (q # p \/ n # side[p])
      OBVIOUS
    <3>2. side[q] \in Int /\ side[p] \in Int /\ n \in Int
      BY SpotGridAssumption DEF SpotGridAssumption, Side
    <3>3. less[q] = IF q = p THEN side[p] - 1 ELSE side[q]
      BY DEF Side
    <3>4. QED
      BY <3>2, <3>3
  <2>2. QED
    BY <2>1 DEF Lots
<1>4. QED
  BY <1>2, <1>3, LotsFinite, FS_RemoveElement, TotalIsCardinality

(* Two sides without a common price add up. *)
LEMMA TotalOfDisjoint ==
  ASSUME NEW a \in [Prices -> Nat], NEW b \in [Prices -> Nat], NEW sum \in [Prices -> Nat],
         \A p \in Prices : a[p] = 0 \/ b[p] = 0,
         \A p \in Prices : sum[p] = a[p] + b[p]
  PROVE  Total(sum) = Total(a) + Total(b)
<1>1. \A p \in Prices, n \in 1 .. FullSize :
        /\ n <= sum[p] <=> n <= a[p] \/ n <= b[p]
        /\ ~(n <= a[p] /\ n <= b[p])
  <2>1. SUFFICES ASSUME NEW p \in Prices, NEW n \in 1 .. FullSize
                 PROVE  /\ n <= sum[p] <=> n <= a[p] \/ n <= b[p]
                        /\ ~(n <= a[p] /\ n <= b[p])
    OBVIOUS
  <2>2. a[p] \in Nat /\ b[p] \in Nat /\ sum[p] = a[p] + b[p] /\ n \in Nat /\ n > 0
    BY SpotGridAssumption DEF SpotGridAssumption
  <2>3. a[p] = 0 \/ b[p] = 0
    OBVIOUS
  <2>4. QED
    BY <2>2, <2>3
<1>2. Lots(sum) = Lots(a) \cup Lots(b) /\ Lots(a) \cap Lots(b) = {}
  BY <1>1 DEF Lots
<1>3. Cardinality(Lots(a) \cup Lots(b)) = Cardinality(Lots(a)) + Cardinality(Lots(b)) - 0
  BY <1>2, LotsFinite, FS_Union, FS_EmptySet
<1>4. Total(a) \in Nat /\ Total(b) \in Nat
  BY TotalType
<1>5. QED
  BY <1>2, <1>3, <1>4, TotalIsCardinality

-----------------------------------------------------------------------------
(* Plans. *)

(* A plan's sizes are natural numbers, and so is what it needs of each asset. *)
LEMMA PlanSizes ==
  ASSUME NEW plan \in Plans
  PROVE  /\ plan.lower \in Int /\ plan.upper \in Int
         /\ plan.bids \in Side /\ plan.asks \in Side
         /\ \A p \in Prices : plan.bids[p] \in 0 .. FullSize /\ plan.asks[p] \in 0 .. FullSize
         /\ BaseRequired(plan) \in Nat /\ QuoteRequired(plan) \in Nat
  BY TotalType DEF Plans, Side, BaseRequired, QuoteRequired

(* Over a range with two ends build_plan makes a grid on that range. *)
LEMMA BuildPlanGrid ==
  ASSUME NEW range \in Ranges, range.lower < range.upper, NEW m \in Prices
  PROVE  /\ BuildPlan(range, m) \in Plans /\ Grid(BuildPlan(range, m))
         /\ BuildPlan(range, m).lower = range.lower /\ BuildPlan(range, m).upper = range.upper
<1> DEFINE at == Clamp(m, range.lower, range.upper)
           plan == BuildPlan(range, m)
<1>1. range.lower \in Int /\ range.upper \in Int /\ m \in Int
  BY PricesAreInts DEF Ranges
<1>2. at \in Int /\ range.lower <= at /\ at <= range.upper
  BY <1>1 DEF Clamp
<1>3. plan.lower = range.lower /\ plan.upper = range.upper
  BY DEF BuildPlan
<1> HIDE DEF at
<1>4. ASSUME NEW p \in Prices
      PROVE  /\ plan.bids[p] = (IF range.lower <= p /\ (p < at \/ p = range.lower) THEN FullSize ELSE 0)
             /\ plan.asks[p] = (IF p <= range.upper /\ (at < p \/ p = range.upper) THEN FullSize ELSE 0)
  BY DEF BuildPlan, at
<1>5. plan.bids \in Side /\ plan.asks \in Side
  BY SpotGridAssumption DEF SpotGridAssumption, BuildPlan, Side
<1>6. plan \in Plans
  BY <1>1, <1>5 DEF BuildPlan, Plans
<1> HIDE DEF plan
<1>7. ASSUME NEW p \in Prices
      PROVE  /\ plan.bids[p] = 0 \/ plan.asks[p] = 0
             /\ SizeAt(plan, p) > 0 => plan.lower <= p /\ p <= plan.upper
  <2>1. p \in Int
    BY PricesAreInts
  <2>2. QED
    BY <2>1, <1>1, <1>2, <1>3, <1>4, SpotGridAssumption DEF SpotGridAssumption, SizeAt
<1>8. Grid(plan)
  BY <1>3, <1>7 DEF Grid
<1>9. QED
  BY <1>3, <1>6, <1>8 DEF plan

(* A percentage range has two ends, and fixed bounds are taken as they are. *)
LEMMA ResolvedRange ==
  ASSUME NEW kind, NEW bounds \in Ranges, bounds.lower < bounds.upper, NEW m \in Prices
  PROVE  /\ ResolveRange(kind, bounds, m) \in Ranges
         /\ ResolveRange(kind, bounds, m).lower < ResolveRange(kind, bounds, m).upper
         /\ kind = "bounds" => ResolveRange(kind, bounds, m) = bounds
         /\ kind # "bounds" => ResolveRange(kind, bounds, m).lower <= m
                               /\ m <= ResolveRange(kind, bounds, m).upper
<1>1. m \in Int /\ HalfWidth \in Int /\ HalfWidth > 0
  BY PricesAreInts, SpotGridAssumption DEF SpotGridAssumption
<1>2. CASE kind = "bounds"
  BY <1>2 DEF ResolveRange
<1>3. CASE kind # "bounds"
  BY <1>1, <1>3 DEF ResolveRange, Ranges
<1>4. QED
  BY <1>2, <1>3

(* The sizes of a grid's levels. *)
LEMMA GridSizes ==
  ASSUME NEW plan \in Plans, Grid(plan), NEW p \in Prices
  PROVE  /\ SizeAt(plan, p) \in 0 .. FullSize
         /\ SizeAt(plan, p) = plan.bids[p] + plan.asks[p]
         /\ SizeAt(plan, p) > 0 => plan.lower <= p /\ p <= plan.upper
<1>1. plan.bids[p] \in 0 .. FullSize /\ plan.asks[p] \in 0 .. FullSize
  BY PlanSizes
<1>2. plan.bids[p] = 0 \/ plan.asks[p] = 0
  BY DEF Grid
<1>3. SizeAt(plan, p) > 0 => plan.lower <= p /\ p <= plan.upper
  BY DEF Grid
<1>4. QED
  BY <1>1, <1>2, <1>3, SpotGridAssumption DEF SpotGridAssumption, SizeAt

(* What is projected on a price is a book: the grid's levels, bids below and asks above. *)
LEMMA ProjectBook ==
  ASSUME NEW plan \in Plans, Grid(plan), NEW m \in Prices
  PROVE  /\ Project(plan, m) \in Books
         /\ \A p \in Prices :
              /\ Project(plan, m).bids[p] = (IF p < m THEN SizeAt(plan, p) ELSE 0)
              /\ Project(plan, m).asks[p] = (IF p > m THEN SizeAt(plan, p) ELSE 0)
<1>1. \A p \in Prices : SizeAt(plan, p) \in 0 .. FullSize /\ 0 \in 0 .. FullSize
  BY GridSizes, SpotGridAssumption DEF SpotGridAssumption
<1>2. QED
  BY <1>1 DEF Project, Books, Side

(* Scaling down rounds to a whole number that is no larger. *)
LEMMA ScaledDown ==
  ASSUME NEW a \in Nat, NEW v \in Nat, NEW b \in Nat, v < b
  PROVE  (a * v) \div b \in 0 .. a
<1> DEFINE q == (a * v) \div b
<1>1. b > 0 /\ a * v \in Nat /\ q \in Int
  OBVIOUS
<1>2. b * q <= a * v /\ a * v < b * q + b
  OBVIOUS
<1>3. a * v <= a * b
  OBVIOUS
<1> HIDE DEF q
<1>4. q >= 0
  BY <1>1, <1>2
<1>5. q <= a
  BY <1>1, <1>2, <1>3
<1>6. QED
  BY <1>1, <1>4, <1>5 DEF q

(* Shrinking the asks in proportion to less base keeps the grid and its levels in place. *)
LEMMA ResizedGrid ==
  ASSUME NEW plan \in Plans, Grid(plan), NEW available \in Nat
  PROVE  /\ ResizeAsks(plan, available) \in Plans /\ Grid(ResizeAsks(plan, available))
         /\ SameGrid(plan, ResizeAsks(plan, available))
<1> DEFINE b == BaseRequired(plan)
           new == ResizeAsks(plan, available)
<1>1. /\ plan.lower \in Int /\ plan.upper \in Int /\ plan.bids \in Side /\ plan.asks \in Side
      /\ b \in Nat
  BY PlanSizes
<1>2. CASE b <= available
  <2>1. new = plan
    BY <1>2 DEF ResizeAsks
  <2>2. SameGrid(plan, plan)
    <3>1. \A p \in Prices : plan.asks[p] \in Int
      BY PlanSizes, SpotGridAssumption DEF SpotGridAssumption
    <3>2. QED
      BY <3>1 DEF SameGrid
  <2>3. QED
    BY <2>1, <2>2
<1>3. CASE ~(b <= available)
  <2>1. b > available /\ b > 0
    BY <1>1, <1>3
  <2>2. ASSUME NEW p \in Prices
        PROVE  (plan.asks[p] * available) \div b \in 0 .. plan.asks[p]
    <3>1. plan.asks[p] \in Nat
      BY PlanSizes, SpotGridAssumption DEF SpotGridAssumption
    <3>2. QED
      BY <3>1, <2>1, <1>1, ScaledDown
  <2>3. new = [plan EXCEPT !.asks = [p \in Prices |-> (plan.asks[p] * available) \div b]]
    BY <1>3 DEF ResizeAsks
  <2> HIDE DEF b, new
  <2>4. ASSUME NEW p \in Prices
        PROVE  plan.asks[p] \in 0 .. FullSize
    BY PlanSizes
  <2>5. /\ new.lower = plan.lower /\ new.upper = plan.upper /\ new.bids = plan.bids
        /\ new.asks = [p \in Prices |-> (plan.asks[p] * available) \div b]
        /\ new = [lower |-> new.lower, upper |-> new.upper, bids |-> new.bids, asks |-> new.asks]
    BY <2>3 DEF Plans
  <2>6. ASSUME NEW p \in Prices
        PROVE  new.asks[p] \in 0 .. FullSize /\ new.asks[p] <= plan.asks[p]
    <3>1. new.asks[p] \in 0 .. plan.asks[p]
      BY <2>2, <2>5
    <3>2. QED
      BY <3>1, <2>4, SpotGridAssumption DEF SpotGridAssumption
  <2>7. new.asks \in Side
    BY <2>5, <2>6 DEF Side
  <2>8. new \in Plans
    BY <1>1, <2>5, <2>7 DEF Plans
  <2>9. SameGrid(plan, new)
    BY <2>5, <2>6 DEF SameGrid
  <2>10. ASSUME NEW p \in Prices
         PROVE  /\ new.bids[p] = 0 \/ new.asks[p] = 0
                /\ SizeAt(new, p) > 0 => new.lower <= p /\ p <= new.upper
    <3>1. plan.bids[p] \in 0 .. FullSize /\ plan.asks[p] \in 0 .. FullSize
      BY PlanSizes
    <3>2. new.asks[p] \in 0 .. FullSize /\ new.asks[p] <= plan.asks[p]
      BY <2>6
    <3>3. plan.bids[p] = 0 \/ plan.asks[p] = 0
      BY DEF Grid
    <3>4. SizeAt(plan, p) > 0 => plan.lower <= p /\ p <= plan.upper
      BY DEF Grid
    <3>5. QED
      BY <2>5, <3>1, <3>2, <3>3, <3>4, SpotGridAssumption DEF SpotGridAssumption, SizeAt
  <2>11. Grid(new)
    <3>1. plan.lower < plan.upper
      BY DEF Grid
    <3>2. QED
      BY <2>5, <2>10, <3>1 DEF Grid
  <2>12. QED
    BY <2>8, <2>9, <2>11 DEF new
<1>4. QED
  BY <1>2, <1>3

(* What a ladder's own bids and the asks that a price calls for hold together is no more than  *)
(* the grid's levels, if the bids are levels of the grid that the price has not passed.        *)
LEMMA GridSplit ==
  ASSUME NEW plan \in Plans, Grid(plan), NEW m \in Prices, NEW bids \in Side,
         \A p \in Prices : bids[p] <= SizeAt(plan, p),
         \A p \in Prices : bids[p] > 0 => p <= m
  PROVE  Total(bids) + BaseRequired(Project(plan, m)) <= Total(plan.bids) + Total(plan.asks)
<1> DEFINE asks == Project(plan, m).asks
           held == [p \in Prices |-> bids[p] + asks[p]]
           size == [p \in Prices |-> plan.bids[p] + plan.asks[p]]
<1>1. asks \in Side
  BY ProjectBook DEF Books
<1>2. ASSUME NEW p \in Prices
      PROVE  /\ bids[p] \in Nat /\ asks[p] \in Nat
             /\ bids[p] = 0 \/ asks[p] = 0
             /\ bids[p] + asks[p] <= plan.bids[p] + plan.asks[p]
             /\ plan.bids[p] \in Nat /\ plan.asks[p] \in Nat
             /\ plan.bids[p] = 0 \/ plan.asks[p] = 0
  <2>1. bids[p] \in Nat /\ asks[p] \in Nat
    BY <1>1, SpotGridAssumption DEF SpotGridAssumption, Side
  <2>2. plan.bids[p] \in Nat /\ plan.asks[p] \in Nat
    BY PlanSizes, SpotGridAssumption DEF SpotGridAssumption
  <2>3. asks[p] = (IF p > m THEN SizeAt(plan, p) ELSE 0)
    BY ProjectBook
  <2>4. SizeAt(plan, p) = plan.bids[p] + plan.asks[p] /\ bids[p] <= SizeAt(plan, p)
    BY DEF SizeAt
  <2>5. p \in Int /\ m \in Int /\ (bids[p] > 0 => p <= m)
    BY PricesAreInts
  <2> HIDE DEF asks
  <2>6. QED
    BY <2>1, <2>2, <2>3, <2>4, <2>5 DEF Grid
<1> HIDE DEF asks
<1>3. bids \in [Prices -> Nat] /\ asks \in [Prices -> Nat]
  BY <1>1, <1>2 DEF Side
<1>4. held \in [Prices -> Nat] /\ size \in [Prices -> Nat]
  BY <1>2
<1>5. plan.bids \in [Prices -> Nat] /\ plan.asks \in [Prices -> Nat]
  BY <1>2, PlanSizes DEF Side
<1>6. Total(held) = Total(bids) + Total(asks)
  BY <1>2, <1>3, <1>4, TotalOfDisjoint
<1>7. Total(size) = Total(plan.bids) + Total(plan.asks)
  BY <1>2, <1>4, <1>5, TotalOfDisjoint
<1>8. Total(held) <= Total(size)
  <2>1. \A p \in Prices : held[p] <= size[p]
    BY <1>2
  <2>2. held \in [Prices -> Int] /\ size \in [Prices -> Int]
    BY <1>4
  <2> HIDE DEF held, size
  <2>3. QED
    BY <2>1, <2>2, TotalMonotone
<1>9. QED
  BY <1>6, <1>7, <1>8 DEF asks, BaseRequired

-----------------------------------------------------------------------------
(* Type correctness.  That a projected ladder is a book again needs what a   *)
(* plan looks like: levels of one size each, inside their range.             *)

Runs ==
  [pinned : Plans, funded : BOOLEAN, cursor : Cursors, range : Ranges,
   attempts : 0 .. MaxAttempts, failures : 0 .. MaxFailures, count : {-1} \cup Nat,
   cooldown : BOOLEAN, market : BOOLEAN, why : Whys, paused : BOOLEAN]
Snaps == [mid : Prices, base : Nat, quote : Nat, newTrade : BOOLEAN, accepted : BOOLEAN]
Orders == [book : Books, standalone : BOOLEAN]
SavedStates == [pinned : Plans, funded : BOOLEAN, cursor : Cursors]

VenueType ==
  /\ mid \in Prices /\ ladder \in Books /\ free \in Balances /\ standalone \in BOOLEAN
  /\ pending \in Transactions

ProcessType ==
  /\ pc \in Places /\ run \in Runs /\ snap \in Snaps /\ actual \in Orders
  /\ reply \in {"none", "ok", "err"} /\ cancel \in BOOLEAN

StateType ==
  /\ cfg \in Configs /\ saved \in SavedStates /\ traded \in BOOLEAN /\ starts \in Nat

(* Where the process works with a pinned plan, and where its loop goes on. *)
Working == {"orders", "funding", "reread", "plan", "submit", "confirm"}
Looping == Working \cup {"fetch"}

GridInv ==
  /\ saved.pinned = NoPlan \/ Grid(saved.pinned)
  /\ run.pinned = NoPlan \/ Grid(run.pinned)
  /\ pc \in Working => Grid(run.pinned)
  /\ run.range.lower < run.range.upper

CountersInv ==
  /\ pc = "funding" => run.attempts < MaxAttempts
  /\ pc \in Looping => run.failures < MaxFailures

TypeInv == VenueType /\ ProcessType /\ StateType /\ GridInv /\ CountersInv

(* The bounds as the proofs use them. *)
LEMMA Bounded ==
  /\ MaxAttempts \in Nat /\ MaxFailures \in Nat /\ MaxFailures > 0
  /\ FullSize \in Nat /\ FullSize > 0 /\ HalfWidth \in Nat /\ HalfWidth > 0
  /\ InitialMid \in Prices
  BY SpotGridAssumption, SpotVenueAssumption, GridRunAssumption
     DEF SpotGridAssumption, SpotVenueAssumption, GridRunAssumption

LEMMA ConfigType ==
  ASSUME cfg \in Configs
  PROVE  /\ cfg.extend \in BOOLEAN /\ cfg.auto \in BOOLEAN /\ cfg.faults \subseteq Faults
         /\ cfg.policy \in {"sell", "retain"} /\ cfg.kind \in {"bounds", "percent"}
  BY GridRunAssumption DEF GridRunAssumption, ConfigSpace

(* Nothing at all is a plan, a book and a snapshot. *)
LEMMA NothingType ==
  /\ NoPlan \in Plans /\ EmptyBook \in Books /\ NoTx \in Transactions
  /\ NoSnap \in Snaps /\ NoOrders \in Orders /\ NoState \in SavedStates
  /\ ~Grid(NoPlan)
<1>1. Nothing \in Side
  BY Bounded DEF Nothing, Side
<1>2. EmptyBook \in Books /\ NoPlan \in Plans
  BY <1>1 DEF EmptyBook, NoPlan, Books, Plans
<1>3. QED
  BY <1>2, Bounded DEF NoTx, Transactions, NoSnap, Snaps, NoOrders, Orders, NoState, SavedStates,
                        Cursors, Grid, NoPlan

(* What a process starts with. *)
LEMMA LoadedType ==
  ASSUME NEW state \in SavedStates
  PROVE  /\ Loaded(state) \in Runs
         /\ Loaded(state).range.lower < Loaded(state).range.upper
         /\ Loaded(state).pinned = state.pinned /\ Loaded(state).funded = state.funded
         /\ Loaded(state).cursor = state.cursor /\ Loaded(state).range = Bounds
         /\ Loaded(state).attempts = 0 /\ Loaded(state).failures = 0
         /\ Loaded(state).why = "none" /\ Loaded(state).paused = FALSE
<1>1. Bounds \in Ranges /\ Bounds.lower < Bounds.upper
  BY Bounded, PricesAreInts DEF Bounds, Ranges
<1>2. Loaded(state) \in Runs
  BY <1>1, Bounded DEF Loaded, Runs, SavedStates, Whys
<1>3. QED
  BY <1>1, <1>2 DEF Loaded

(* What the ladder is replaced with. *)
LEMMA DesiredBook ==
  ASSUME TypeInv, pc \in Working
  PROVE  Desired \in Books
  BY ProjectBook DEF TypeInv, ProcessType, GridInv, Runs, Snaps, Desired

LEMMA SpendableType ==
  ASSUME VenueType
  PROVE  /\ Spendable.base = free.base + Total(ladder.asks)
         /\ Spendable.quote = free.quote + Total(ladder.bids)
         /\ Spendable.base \in Nat /\ Spendable.quote \in Nat
         /\ free.base \in Nat /\ free.quote \in Nat
         /\ Total(ladder.asks) \in Nat /\ Total(ladder.bids) \in Nat
<1>1. Total(ladder.asks) \in Nat /\ Total(ladder.bids) \in Nat
  BY TotalType
<1>2. free.base \in Nat /\ free.quote \in Nat
  BY DEF VenueType, Balances
<1>3. QED
  BY <1>1, <1>2 DEF Spendable

-----------------------------------------------------------------------------
(* The venue's own steps are well-typed. *)

LEMMA ExecuteType ==
  ASSUME VenueType, Execute
  PROVE  VenueType'
<1>1. EmptyBook \in Books /\ NoTx \in Transactions
  BY NothingType
<1>2. ASSUME NEW book \in Books, Replace(book), Covers(Spendable, book)
      PROVE  ladder' \in Books /\ free' \in Balances
  <2>1. BaseRequired(book) \in Nat /\ QuoteRequired(book) \in Nat
    BY TotalType DEF BaseRequired, QuoteRequired
  <2>2. QED
    BY <1>2, <2>1, SpendableType DEF Replace, Covers, Balances
<1>3. Covers(Spendable, EmptyBook)
  BY TotalOfNothing, SpendableType DEF Covers, EmptyBook, BaseRequired, QuoteRequired
<1>4. pending.book \in Books
  BY DEF VenueType, Transactions
<1>5. ladder' \in Books /\ free' \in Balances
  BY <1>1, <1>2, <1>3, <1>4 DEF Execute
<1>6. QED
  BY <1>1, <1>5 DEF Execute, VenueType

(* A fill takes a lot off one side of the ladder. *)
LEMMA FillType ==
  ASSUME VenueType, BidFills \/ (\E proceeds \in {0, 1} : AskFills(proceeds))
  PROVE  VenueType'
<1>1. ASSUME NEW side \in Side, side[mid] > 0
      PROVE  [side EXCEPT ![mid] = @ - 1] \in Side
  <2>1. mid \in Prices /\ side[mid] \in 0 .. FullSize
    BY DEF VenueType, Side
  <2>2. side[mid] - 1 \in 0 .. FullSize
    BY <1>1, <2>1, Bounded
  <2>3. QED
    BY <2>1, <2>2 DEF Side
<1>2. ladder.bids \in Side /\ ladder.asks \in Side
  BY DEF VenueType, Books
<1>3. CASE BidFills
  <2>1. [ladder.bids EXCEPT ![mid] = @ - 1] \in Side
    BY <1>1, <1>2, <1>3 DEF BidFills
  <2>2. ladder' = [ladder EXCEPT !.bids = [ladder.bids EXCEPT ![mid] = @ - 1]]
    BY <1>3 DEF BidFills
  <2>3. ladder' \in Books
    BY <2>1, <2>2 DEF VenueType, Books
  <2>4. free' \in Balances
    BY <1>3 DEF BidFills, VenueType, Balances
  <2>5. QED
    BY <1>3, <2>3, <2>4 DEF BidFills, VenueType
<1>4. CASE \E proceeds \in {0, 1} : AskFills(proceeds)
  <2>1. [ladder.asks EXCEPT ![mid] = @ - 1] \in Side
    BY <1>1, <1>2, <1>4 DEF AskFills
  <2>2. ladder' = [ladder EXCEPT !.asks = [ladder.asks EXCEPT ![mid] = @ - 1]]
    BY <1>4 DEF AskFills
  <2>3. ladder' \in Books
    BY <2>1, <2>2 DEF VenueType, Books
  <2>4. free' \in Balances
    BY <1>4 DEF AskFills, VenueType, Balances
  <2>5. QED
    BY <1>4, <2>3, <2>4 DEF AskFills, VenueType
<1>5. QED
  BY <1>3, <1>4

(* Trades that show up touch the cursors alone. *)
LEMMA TradesSeenType ==
  ASSUME NEW r \in Runs, NEW happened \in BOOLEAN, TradesSeen(happened, r), StateType
  PROVE  /\ run' \in Runs /\ run' = [r EXCEPT !.cursor = run'.cursor]
         /\ saved' \in SavedStates /\ saved' = [saved EXCEPT !.cursor = saved'.cursor]
         /\ traded' \in BOOLEAN
<1>1. \A c \in Cursors : Behind(c) \in Cursors
  BY DEF Behind, Cursors
<1>2. r.cursor \in Cursors /\ saved.cursor \in Cursors
  BY DEF Runs, StateType, SavedStates
<1>3. CASE happened = FALSE
  BY <1>3 DEF TradesSeen, StateType, Runs, SavedStates
<1>4. CASE happened = TRUE
  <2>1. run' = [r EXCEPT !.cursor = Behind(r.cursor)]
    BY <1>4 DEF TradesSeen
  <2>2. saved' = [saved EXCEPT !.cursor = Behind(saved.cursor)]
    BY <1>4 DEF TradesSeen
  <2>3. run' \in Runs /\ run' = [r EXCEPT !.cursor = run'.cursor]
    BY <1>1, <1>2, <2>1 DEF Runs
  <2>4. saved' \in SavedStates /\ saved' = [saved EXCEPT !.cursor = saved'.cursor]
    BY <1>1, <1>2, <2>2 DEF SavedStates, StateType
  <2>5. QED
    BY <1>4, <2>3, <2>4 DEF TradesSeen, StateType
<1>5. QED
  BY <1>3, <1>4

-----------------------------------------------------------------------------
(* Each step keeps the types. *)

LEMMA InitType ==
  ASSUME Init
  PROVE  TypeInv
<1>1. VenueType
  <2>1. free \in Balances
    BY SpotVenueAssumption DEF SpotVenueAssumption, Init, VenueInit, Balances
  <2>2. QED
    BY <2>1, Bounded, NothingType DEF Init, VenueInit, VenueType
<1>2. ProcessType
  BY LoadedType, NothingType DEF Init, ProcessType, Places
<1>3. StateType
  BY NothingType, SpotVenueAssumption DEF SpotVenueAssumption, Init, StateType
<1>4. saved.pinned = NoPlan /\ run.pinned = NoPlan /\ run.range.lower < run.range.upper
  BY LoadedType, NothingType DEF Init, NoState
<1>5. GridInv /\ CountersInv
  BY <1>4 DEF Init, GridInv, CountersInv, Working, Looping
<1>6. QED
  BY <1>1, <1>2, <1>3, <1>5 DEF TypeInv

(* The state that a process begins with: the saved one, or none under another fee tier. *)
LEMMA StartEffect ==
  ASSUME TypeInv, Start
  PROVE  /\ pc = "down" /\ pc' = "fetch" /\ starts' = starts + 1
         /\ saved' \in SavedStates /\ run' = Loaded(saved')
         /\ saved' = saved \/ ("feeTier" \in cfg.faults /\ saved' = NoState)
         /\ UNCHANGED <<venueVars, cfg, snap, actual, reply, cancel, traded>>
<1>1. PICK state \in LoadState : run' = Loaded(state) /\ saved' = state
  BY DEF Start
<1>2. state = saved \/ ("feeTier" \in cfg.faults /\ state = NoState)
  BY <1>1 DEF LoadState
<1>3. state \in SavedStates
  BY <1>2, NothingType DEF TypeInv, StateType
<1>4. QED
  BY <1>1, <1>2, <1>3 DEF Start

(* A process that starts. *)
LEMMA StartType ==
  ASSUME TypeInv, Start \/ StopCli
  PROVE  TypeInv'
<1>1. VenueType'
  BY DEF TypeInv, VenueType, Start, StopCli, venueVars
<1>2. CASE Start
  <2>1. /\ saved' \in SavedStates /\ run' = Loaded(saved') /\ pc' = "fetch" /\ starts' = starts + 1
        /\ saved' = saved \/ saved' = NoState
        /\ UNCHANGED <<cfg, snap, actual, reply, cancel, traded>>
    BY <1>2, StartEffect
  <2>2. StateType'
    BY <1>2, <2>1 DEF TypeInv, StateType, Start
  <2>3. run' \in Runs /\ run'.range.lower < run'.range.upper /\ run'.pinned = saved'.pinned
        /\ run'.failures = 0
    BY <2>1, LoadedType
  <2>4. ProcessType'
    BY <2>1, <2>3 DEF TypeInv, ProcessType, Places
  <2>5. saved'.pinned = saved.pinned \/ saved'.pinned = NoPlan
    BY <2>1 DEF NoState
  <2>6. GridInv' /\ CountersInv'
    BY <2>1, <2>3, <2>5, Bounded DEF TypeInv, GridInv, CountersInv, Working, Looping
  <2>7. QED
    BY <1>1, <2>2, <2>4, <2>6 DEF TypeInv
<1>3. CASE StopCli
  <2>0. StateType'
    BY <1>3 DEF TypeInv, StateType, StopCli
  <2>1. cfg.policy \in Whys
    BY ConfigType DEF TypeInv, StateType, Whys
  <2>2. /\ run' = [Loaded(NoState) EXCEPT !.why = cfg.policy] /\ pc' = "cancel"
        /\ UNCHANGED <<saved, snap, actual, reply, cancel>>
    BY <1>3 DEF StopCli
  <2>3. /\ Loaded(NoState) \in Runs /\ Loaded(NoState).range.lower < Loaded(NoState).range.upper
        /\ Loaded(NoState).pinned = NoPlan
    BY LoadedType, NothingType DEF NoState
  <2>4. run' \in Runs /\ run'.range.lower < run'.range.upper /\ run'.pinned = NoPlan
    BY <2>1, <2>2, <2>3 DEF Runs
  <2>5. ProcessType'
    BY <2>2, <2>4 DEF TypeInv, ProcessType, Places
  <2>6. GridInv' /\ CountersInv'
    BY <2>2, <2>4 DEF TypeInv, GridInv, CountersInv, Working, Looping
  <2>7. QED
    BY <1>1, <2>0, <2>5, <2>6 DEF TypeInv
<1>4. QED
  BY <1>2, <1>3

(* A process that ends leaves nothing of its own behind. *)
LEMMA DownType ==
  ASSUME TypeInv, NEW how, Down(how), VenueType', StateType', saved'.pinned = saved.pinned
  PROVE  TypeInv'
<1>1. /\ Loaded(NoState) \in Runs /\ Loaded(NoState).range.lower < Loaded(NoState).range.upper
      /\ Loaded(NoState).pinned = NoPlan
  BY LoadedType, NothingType DEF NoState
<1>2. ProcessType'
  BY <1>1, NothingType DEF Down, ProcessType, Places
<1>3. GridInv' /\ CountersInv'
  BY <1>1 DEF Down, TypeInv, GridInv, CountersInv, Working, Looping
<1>4. QED
  BY <1>2, <1>3 DEF TypeInv

(* The plan that a cycle works with. *)
LEMMA PinnedGrid ==
  ASSUME TypeInv
  PROVE  /\ Pin \in Plans /\ Grid(Pin)
         /\ run.pinned # NoPlan => Pin = run.pinned
         /\ run.pinned = NoPlan => LET range == ResolveRange(cfg.kind, run.range, mid)
                                   IN Pin.lower = range.lower /\ Pin.upper = range.upper
<1> DEFINE range == ResolveRange(cfg.kind, run.range, mid)
<1>1. mid \in Prices /\ run.range \in Ranges /\ run.range.lower < run.range.upper
  BY DEF TypeInv, VenueType, ProcessType, GridInv, Runs
<1>2. range \in Ranges /\ range.lower < range.upper
  BY <1>1, ResolvedRange
<1>3. CASE run.pinned = NoPlan
  <2>1. Pin = BuildPlan(range, mid)
    BY <1>3 DEF Pin, PinAgain
  <2> HIDE DEF range
  <2>2. /\ BuildPlan(range, mid) \in Plans /\ Grid(BuildPlan(range, mid))
        /\ BuildPlan(range, mid).lower = range.lower /\ BuildPlan(range, mid).upper = range.upper
    BY <1>1, <1>2, BuildPlanGrid
  <2>3. QED
    BY <1>3, <2>1, <2>2 DEF range
<1>4. CASE run.pinned # NoPlan
  BY <1>4 DEF Pin, TypeInv, ProcessType, GridInv, Runs
<1>5. QED
  BY <1>3, <1>4

(* A cycle that has its snapshot. *)
LEMMA FetchedType ==
  ASSUME TypeInv, NEW to \in {"orders", "cancel"}, NEW r \in Runs, Fetched(to, r),
         r.range.lower < r.range.upper, r.failures = run.failures,
         Grid(r.pinned) \/ (r.pinned = NoPlan /\ to = "cancel")
  PROVE  TypeInv'
<1>1. VenueType' /\ StateType'
  BY DEF TypeInv, VenueType, StateType, Fetched, venueVars, loopFrame, historyVars
<1>2. snap' \in Snaps
  <2>1. Spendable.base \in Nat /\ Spendable.quote \in Nat /\ mid \in Prices
    BY SpendableType DEF TypeInv, VenueType
  <2>2. (run.cursor = "behind") \in BOOLEAN
    OBVIOUS
  <2>3. QED
    BY <2>1, <2>2 DEF Fetched, Snapshot, Snaps
<1>3. run' \in Runs /\ run'.pinned = r.pinned /\ run'.range = r.range /\ run'.failures = r.failures
  <2>1. run' = [r EXCEPT !.market = TRUE, !.cursor = IF traded THEN "current" ELSE "none"]
    BY DEF Fetched
  <2>2. (IF traded THEN "current" ELSE "none") \in Cursors
    BY DEF Cursors
  <2>3. QED
    BY <2>1, <2>2 DEF Runs
<1>4. ProcessType'
  BY <1>2, <1>3 DEF Fetched, TypeInv, ProcessType, Places
<1>5. pc = "fetch" /\ pc' = to /\ saved' = saved
  BY DEF Fetched, loopFrame
<1>6. GridInv'
  BY <1>3, <1>5 DEF TypeInv, GridInv, Working
<1>7. CountersInv'
  BY <1>3, <1>5 DEF TypeInv, CountersInv, Working, Looping
<1>8. QED
  BY <1>1, <1>4, <1>6, <1>7 DEF TypeInv

(* The bounds an extended grid is built on, and the grid. *)
ExtendedRange == IF cfg.kind = "bounds" THEN Shifted ELSE run.range
ExtendedPlan == BuildPlan(ResolveRange(cfg.kind, ExtendedRange, mid), mid)

LEMMA ExtendedGrid ==
  ASSUME TypeInv
  PROVE  /\ ExtendedRange \in Ranges /\ ExtendedRange.lower < ExtendedRange.upper
         /\ ExtendedPlan \in Plans /\ Grid(ExtendedPlan)
         /\ ExtendedPlan.lower = ResolveRange(cfg.kind, ExtendedRange, mid).lower
         /\ ExtendedPlan.upper = ResolveRange(cfg.kind, ExtendedRange, mid).upper
<1>1. mid \in Prices /\ mid \in Int /\ run.range \in Ranges /\ run.range.lower < run.range.upper
  BY PricesAreInts DEF TypeInv, VenueType, ProcessType, GridInv, Runs
<1>2. Pin.lower \in Int /\ Pin.upper \in Int
  BY PinnedGrid, PlanSizes
<1>3. Shifted \in Ranges /\ Shifted.lower < Shifted.upper
  <2> DEFINE delta == IF mid < Pin.lower THEN mid - Pin.lower ELSE mid - Pin.upper
  <2>1. delta \in Int
    BY <1>1, <1>2
  <2>2. Shifted = [lower |-> run.range.lower + delta, upper |-> run.range.upper + delta]
    BY DEF Shifted
  <2> HIDE DEF delta
  <2>3. QED
    BY <1>1, <2>1, <2>2 DEF Ranges
<1>4. ExtendedRange \in Ranges /\ ExtendedRange.lower < ExtendedRange.upper
  BY <1>1, <1>3 DEF ExtendedRange
<1> DEFINE range == ResolveRange(cfg.kind, ExtendedRange, mid)
<1>5. range \in Ranges /\ range.lower < range.upper
  BY <1>1, <1>4, ResolvedRange
<1> HIDE DEF range
<1>6. /\ BuildPlan(range, mid) \in Plans /\ Grid(BuildPlan(range, mid))
      /\ BuildPlan(range, mid).lower = range.lower /\ BuildPlan(range, mid).upper = range.upper
  BY <1>1, <1>5, BuildPlanGrid
<1>7. QED
  BY <1>4, <1>6 DEF range, ExtendedPlan

(* The four ways a snapshot is acted on, with what becomes of the locals. *)
LEMMA FetchingEffect ==
  ASSUME TypeInv, Fetching
  PROVE  \E r \in Runs, to \in {"orders", "cancel"} :
           /\ Fetched(to, r)
           /\ r.range.lower < r.range.upper /\ r.failures = run.failures
           /\ r.attempts = run.attempts /\ r.funded = run.funded
           /\ \/ /\ to = "cancel" /\ r.why = "stopLoss" /\ r.paused = run.paused
                 /\ r.pinned = run.pinned
              \/ /\ to = "cancel" /\ r.why = "breakout" /\ r.pinned = Pin /\ ~cfg.extend
              \/ /\ to = "orders" /\ r.pinned = Pin /\ InRange /\ r.range = run.range
                 /\ r.why = run.why /\ r.paused = run.paused
              \/ /\ to = "orders" /\ r.pinned = ExtendedPlan /\ ~InRange /\ cfg.extend
                 /\ r.range = ExtendedRange
                 /\ r.why = run.why /\ r.paused = run.paused
<1> USE DEF Whys
<1>1. run \in Runs /\ run.range.lower < run.range.upper
  BY DEF TypeInv, ProcessType, GridInv
<1>2. Pin \in Plans
  BY PinnedGrid
<1>3. ExtendedPlan \in Plans /\ ExtendedRange \in Ranges /\ ExtendedRange.lower < ExtendedRange.upper
  BY ExtendedGrid
<1>4. CASE StopLoss
  <2> DEFINE r == [run EXCEPT !.why = "stopLoss"]
  <2>1. /\ r \in Runs /\ r.range = run.range /\ r.failures = run.failures /\ r.why = "stopLoss"
        /\ r.attempts = run.attempts /\ r.funded = run.funded
        /\ r.paused = run.paused /\ r.pinned = run.pinned
    BY <1>1 DEF Runs
  <2>2. Fetched("cancel", r)
    BY <1>4 DEF StopLoss
  <2> HIDE DEF r
  <2>3. QED
    BY <1>1, <2>1, <2>2
<1>5. CASE Breakout
  <2> DEFINE r == [run EXCEPT !.pinned = Pin, !.why = "breakout", !.paused = TRUE]
  <2>1. /\ r \in Runs /\ r.range = run.range /\ r.failures = run.failures /\ r.why = "breakout"
        /\ r.attempts = run.attempts /\ r.funded = run.funded /\ r.pinned = Pin
    BY <1>1, <1>2 DEF Runs
  <2>2. Fetched("cancel", r) /\ ~cfg.extend
    BY <1>5 DEF Breakout
  <2> HIDE DEF r
  <2>3. QED
    BY <1>1, <2>1, <2>2
<1>6. CASE Cycle
  <2> DEFINE r == [run EXCEPT !.pinned = Pin]
  <2>1. /\ r \in Runs /\ r.range = run.range /\ r.failures = run.failures /\ r.pinned = Pin
        /\ r.attempts = run.attempts /\ r.funded = run.funded
        /\ r.why = run.why /\ r.paused = run.paused
    BY <1>1, <1>2 DEF Runs
  <2>2. Fetched("orders", r) /\ InRange
    BY <1>6 DEF Cycle
  <2> HIDE DEF r
  <2>3. QED
    BY <1>1, <2>1, <2>2
<1>7. CASE ExtendGrid
  <2> DEFINE r == [run EXCEPT !.range = ExtendedRange, !.pinned = ExtendedPlan]
  <2>1. /\ r \in Runs /\ r.range = ExtendedRange /\ r.failures = run.failures
        /\ r.pinned = ExtendedPlan
        /\ r.attempts = run.attempts /\ r.funded = run.funded
        /\ r.why = run.why /\ r.paused = run.paused
    BY <1>1, <1>3 DEF Runs
  <2>2. Fetched("orders", r) /\ ~InRange /\ cfg.extend
    BY <1>7 DEF ExtendGrid, ExtendedPlan, ExtendedRange
  <2> HIDE DEF r
  <2>3. QED
    BY <1>3, <2>1, <2>2
<1>8. QED
  BY <1>4, <1>5, <1>6, <1>7 DEF Fetching

LEMMA FetchingType ==
  ASSUME TypeInv, Fetching
  PROVE  TypeInv'
<1>1. PICK r \in Runs, to \in {"orders", "cancel"} :
        /\ Fetched(to, r)
        /\ r.range.lower < r.range.upper /\ r.failures = run.failures
        /\ \/ to = "cancel" /\ r.pinned = run.pinned
           \/ r.pinned = Pin
           \/ r.pinned = ExtendedPlan
  BY FetchingEffect
<1>2. Grid(Pin) /\ Grid(ExtendedPlan) /\ (run.pinned = NoPlan \/ Grid(run.pinned))
  BY PinnedGrid, ExtendedGrid DEF TypeInv, GridInv
<1>3. Grid(r.pinned) \/ (r.pinned = NoPlan /\ to = "cancel")
  BY <1>1, <1>2
<1>4. QED
  BY <1>1, <1>3, FetchedType

(* A cycle that ends, with new locals on the same grid. *)
LEMMA CycleEndsType ==
  ASSUME TypeInv, NEW to \in {"fetch", "exit", "cancel"}, NEW r \in Runs, CycleEnds(to, r),
         VenueType', StateType', saved'.pinned = saved.pinned \/ Grid(saved'.pinned),
         r.pinned = run.pinned, r.range = run.range,
         to = "fetch" => r.failures < MaxFailures,
         reply' \in {reply, "none"}, cancel' = cancel
  PROVE  TypeInv'
<1>1. run' = r /\ pc' = to /\ snap' \in Snaps /\ actual' \in Orders
  BY NothingType DEF CycleEnds
<1>2. ProcessType'
  BY <1>1 DEF TypeInv, ProcessType, Places
<1>3. GridInv' /\ CountersInv'
  BY <1>1 DEF TypeInv, GridInv, CountersInv, Working, Looping
<1>4. QED
  BY <1>2, <1>3 DEF TypeInv

LEMMA OrdersType ==
  ASSUME TypeInv, OrdersFail \/ OrdersRead
  PROVE  TypeInv'
<1>1. VenueType' /\ StateType' /\ saved' = saved
  BY DEF TypeInv, VenueType, StateType, OrdersFail, OrdersRead, venueVars, loopFrame, historyVars
<1>2. run \in Runs /\ pc = "orders"
  BY DEF TypeInv, ProcessType, OrdersFail, OrdersRead
<1>3. run.failures < MaxFailures /\ Grid(run.pinned)
  BY <1>2 DEF TypeInv, CountersInv, GridInv, Looping, Working
<1>4. CASE OrdersFail
  BY <1>1, <1>2, <1>3, <1>4, CycleEndsType DEF OrdersFail
<1>5. CASE OrdersRead
  <2>1. OpenOrders \in Orders
    BY DEF TypeInv, VenueType, OpenOrders, Orders
  <2>2. /\ pc' \in {"exit", "funding", "plan"}
        /\ pc' = "funding" => run.attempts < MaxAttempts
        /\ actual' = OpenOrders /\ UNCHANGED <<run, snap, reply, cancel>>
    BY <1>5 DEF OrdersRead, FundingDue
  <2>3. ProcessType'
    BY <2>1, <2>2 DEF TypeInv, ProcessType, Places
  <2>4. GridInv' /\ CountersInv'
    BY <1>1, <1>2, <1>3, <2>2 DEF TypeInv, GridInv, CountersInv, Working, Looping
  <2>5. QED
    BY <1>1, <2>3, <2>4 DEF TypeInv
<1>6. QED
  BY <1>4, <1>5

(* What is bought is paid for. *)
LEMMA Affordable ==
  ASSUME NEW gap \in Int, NEW spare \in Int, NEW quote \in Nat, spare <= quote,
         NEW bought \in 0 .. Smaller(gap, spare) \cup {0}
  PROVE  bought \in Nat /\ bought <= quote /\ (bought = 0 \/ bought <= gap)
  BY DEF Smaller

(* What a purchase does, whatever of it is observed. *)
LEMMA FundEffect ==
  ASSUME TypeInv, Fund
  PROVE  /\ \E bought \in Nat : /\ bought <= free.quote
                                /\ bought = 0 \/ bought <= Gap
                                /\ Takes(bought, 0)
                                /\ TradesSeen(bought > 0, [run EXCEPT !.attempts = @ + 1])
         /\ \E ok \in BOOLEAN : snap' = [snap EXCEPT !.accepted = ok]
<1> DEFINE spare == Smaller(snap.quote - QuoteRequired(Desired), free.quote)
<1>1. QuoteRequired(Desired) \in Nat /\ BaseRequired(Desired) \in Nat
  BY TotalType DEF QuoteRequired, BaseRequired
<1>2. snap.quote \in Nat /\ snap.base \in Nat /\ free.quote \in Nat
  BY DEF TypeInv, ProcessType, VenueType, Snaps, Balances
<1>3. spare \in Int /\ spare <= free.quote /\ Gap \in Int
  BY <1>1, <1>2 DEF Smaller, Gap
<1>4. PICK bought \in 0 .. Smaller(Gap, spare) \cup {0} :
        /\ Takes(bought, 0)
        /\ TradesSeen(bought > 0, [run EXCEPT !.attempts = @ + 1])
        /\ \E seen \in IF "lag" \in cfg.faults THEN 0 .. bought ELSE {bought}, ok \in BOOLEAN :
             snap' = [snap EXCEPT !.accepted = ok /\ 100 * seen >= MinFillPercent * Gap]
  BY DEF Fund
<1> HIDE DEF spare
<1>5. bought \in Nat /\ bought <= free.quote /\ (bought = 0 \/ bought <= Gap)
  BY <1>2, <1>3, Affordable
<1>6. \E ok \in BOOLEAN : snap' = [snap EXCEPT !.accepted = ok]
  <2>1. PICK seen \in IF "lag" \in cfg.faults THEN 0 .. bought ELSE {bought}, ok \in BOOLEAN :
          snap' = [snap EXCEPT !.accepted = ok /\ 100 * seen >= MinFillPercent * Gap]
    BY <1>4
  <2>2. (ok /\ 100 * seen >= MinFillPercent * Gap) \in BOOLEAN
    OBVIOUS
  <2>3. QED
    BY <2>1, <2>2
<1>7. QED
  BY <1>4, <1>5, <1>6

LEMMA FundType ==
  ASSUME TypeInv, Fund
  PROVE  TypeInv'
<1>1. PICK bought \in Nat :
        /\ bought <= free.quote
        /\ Takes(bought, 0)
        /\ TradesSeen(bought > 0, [run EXCEPT !.attempts = @ + 1])
  BY FundEffect
<1>2. VenueType'
  <2>1. free.base \in Nat /\ free.quote \in Nat
    BY DEF TypeInv, VenueType, Balances
  <2>2. free' \in Balances
    BY <1>1, <2>1 DEF Takes, Balances
  <2>3. QED
    BY <1>1, <2>2 DEF Takes, TypeInv, VenueType
<1>3. pc = "funding" /\ pc' \in {"exit", "reread"} /\ UNCHANGED <<cfg, actual, reply, cancel, starts>>
  BY DEF Fund, historyVars
<1> DEFINE r == [run EXCEPT !.attempts = @ + 1]
<1>4. r \in Runs /\ r.pinned = run.pinned /\ r.range = run.range /\ r.failures = run.failures
  <2>1. run \in Runs /\ run.attempts < MaxAttempts
    BY <1>3 DEF TypeInv, ProcessType, CountersInv
  <2>2. run.attempts + 1 \in 0 .. MaxAttempts
    BY <2>1, Bounded DEF Runs
  <2>3. QED
    BY <2>1, <2>2 DEF Runs
<1>5. (bought > 0) \in BOOLEAN /\ StateType
  BY DEF TypeInv
<1>6. /\ run' \in Runs /\ run' = [r EXCEPT !.cursor = run'.cursor]
      /\ saved' \in SavedStates /\ saved' = [saved EXCEPT !.cursor = saved'.cursor]
      /\ traded' \in BOOLEAN
  BY <1>1, <1>4, <1>5, TradesSeenType
<1> HIDE DEF r
<1>7. run'.pinned = run.pinned /\ run'.range = run.range /\ run'.failures = run.failures
  BY <1>4, <1>6 DEF Runs
<1>8. saved'.pinned = saved.pinned
  BY <1>5, <1>6 DEF StateType, SavedStates
<1>9. snap' \in Snaps
  <2>1. PICK ok \in BOOLEAN : snap' = [snap EXCEPT !.accepted = ok]
    BY FundEffect
  <2>2. QED
    BY <2>1 DEF TypeInv, ProcessType, Snaps
<1>10. ProcessType' /\ StateType'
  BY <1>3, <1>6, <1>9 DEF TypeInv, ProcessType, StateType, Places
<1>11. GridInv' /\ CountersInv'
  BY <1>3, <1>7, <1>8 DEF TypeInv, GridInv, CountersInv, Working, Looping
<1>12. QED
  BY <1>2, <1>10, <1>11 DEF TypeInv

(* The balances are read again: the ladder may be planned on less, but stays the same grid. *)
LEMMA RereadEffect ==
  ASSUME TypeInv, RereadFails \/ FundedInFull \/ FundedInPart \/ NotFunded
  PROVE  \E r \in Runs :
           /\ AfterFunding(r)
           /\ Grid(r.pinned) /\ SameGrid(run.pinned, r.pinned)
           /\ r.pinned = run.pinned \/ r.funded = TRUE
           /\ r.funded = run.funded \/ r.funded = TRUE
           /\ r.range = run.range /\ r.failures = run.failures /\ r.attempts = run.attempts
           /\ r.why = run.why /\ r.paused = run.paused
           /\ snap' \in Snaps /\ snap'.mid = snap.mid
<1>1. run \in Runs /\ pc = "reread" /\ snap \in Snaps /\ snap.base \in Nat
  BY DEF TypeInv, ProcessType, RereadFails, FundedInFull, FundedInPart, NotFunded, Reread,
         AfterFunding, Snaps
<1>2. run.pinned \in Plans /\ Grid(run.pinned)
  BY <1>1 DEF TypeInv, GridInv, Working, Runs
<1>3. \A p \in Prices : run.pinned.asks[p] \in Int
  BY <1>2, PlanSizes, Bounded
<1>4. SameGrid(run.pinned, run.pinned)
  BY <1>3 DEF SameGrid
<1>5. Spendable.base \in Nat /\ Spendable.quote \in Nat
  BY SpendableType DEF TypeInv
<1>6. \A base \in VisibleBase : base \in Nat
  BY <1>1, <1>5 DEF VisibleBase
<1>7. ASSUME NEW base \in Nat, NEW r \in Runs, Reread(base, r)
      PROVE  snap' \in Snaps /\ snap'.mid = snap.mid /\ AfterFunding(r)
  BY <1>1, <1>5, <1>7 DEF Reread, Snaps
<1>8. CASE RereadFails
  BY <1>1, <1>2, <1>4, <1>8 DEF RereadFails
<1>9. CASE FundedInFull
  <2> DEFINE r == [run EXCEPT !.funded = TRUE]
  <2>1. PICK base \in VisibleBase : Reread(base, r)
    BY <1>9 DEF FundedInFull
  <2>2. /\ r \in Runs /\ r.pinned = run.pinned /\ r.funded = TRUE /\ r.range = run.range
        /\ r.failures = run.failures /\ r.attempts = run.attempts
        /\ r.why = run.why /\ r.paused = run.paused
    BY <1>1 DEF Runs
  <2> HIDE DEF r
  <2>3. QED
    BY <1>2, <1>4, <1>6, <1>7, <2>1, <2>2
<1>10. CASE FundedInPart
  <2>1. PICK base \in VisibleBase :
          Reread(base, [run EXCEPT !.funded = TRUE, !.pinned = ResizeAsks(run.pinned, base)])
    BY <1>10 DEF FundedInPart
  <2> DEFINE plan == ResizeAsks(run.pinned, base)
             r == [run EXCEPT !.funded = TRUE, !.pinned = plan]
  <2>2. plan \in Plans /\ Grid(plan) /\ SameGrid(run.pinned, plan)
    BY <1>2, <1>6, ResizedGrid
  <2>3. Reread(base, r)
    BY <2>1
  <2> HIDE DEF plan
  <2>4. /\ r \in Runs /\ r.pinned = plan /\ r.funded = TRUE /\ r.range = run.range
        /\ r.failures = run.failures /\ r.attempts = run.attempts
        /\ r.why = run.why /\ r.paused = run.paused
    BY <1>1, <2>2 DEF Runs
  <2> HIDE DEF r
  <2>5. QED
    BY <1>6, <1>7, <2>2, <2>3, <2>4
<1>11. CASE NotFunded
  <2>1. PICK base \in VisibleBase : Reread(base, run)
    BY <1>11 DEF NotFunded
  <2>2. QED
    BY <1>1, <1>2, <1>4, <1>6, <1>7, <2>1
<1>12. QED
  BY <1>8, <1>9, <1>10, <1>11

LEMMA RereadType ==
  ASSUME TypeInv, RereadFails \/ FundedInFull \/ FundedInPart \/ NotFunded
  PROVE  TypeInv'
<1>1. PICK r \in Runs :
        /\ AfterFunding(r) /\ Grid(r.pinned)
        /\ r.range = run.range /\ r.failures = run.failures
        /\ snap' \in Snaps
  BY RereadEffect
<1>2. VenueType' /\ StateType' /\ saved' = saved
  BY <1>1 DEF TypeInv, VenueType, StateType, AfterFunding, venueVars, loopFrame, historyVars
<1>3. run' = r /\ pc = "reread" /\ pc' \in {"exit", "plan"} /\ UNCHANGED <<actual, reply, cancel>>
  BY <1>1 DEF AfterFunding
<1>4. ProcessType'
  BY <1>1, <1>3 DEF TypeInv, ProcessType, Places
<1>5. GridInv' /\ CountersInv'
  BY <1>1, <1>2, <1>3 DEF TypeInv, GridInv, CountersInv, Working, Looping
<1>6. QED
  BY <1>2, <1>4, <1>5 DEF TypeInv

(* The state is saved and the ladder kept, or replaced. *)
LEMMA PlanType ==
  ASSUME TypeInv, SkipReplacement \/ ReplaceLadder
  PROVE  TypeInv'
<1>1. pc = "plan" /\ saved' = Runtime /\ run \in Runs
  BY DEF SkipReplacement, ReplaceLadder, TypeInv, ProcessType
<1>2. Grid(run.pinned) /\ run.failures < MaxFailures
  BY <1>1 DEF TypeInv, GridInv, CountersInv, Working, Looping
<1>3. saved' \in SavedStates /\ saved'.pinned = run.pinned
  BY <1>1 DEF Runtime, SavedStates, Runs
<1>4. UNCHANGED plannedFrame
  BY DEF SkipReplacement, ReplaceLadder
<1>5. VenueType' /\ StateType'
  BY <1>3, <1>4 DEF TypeInv, VenueType, StateType, plannedFrame, venueVars, historyVars
<1>6. CASE SkipReplacement
  <2>1. CycleEnds("fetch", run) /\ reply' = reply /\ cancel' = cancel
    BY <1>4, <1>6 DEF SkipReplacement, plannedFrame
  <2>2. QED
    BY <1>1, <1>2, <1>3, <1>5, <2>1, CycleEndsType
<1>7. CASE ReplaceLadder
  <2>1. pc' = "submit" /\ UNCHANGED <<run, snap, actual, reply, cancel>>
    BY <1>7 DEF ReplaceLadder, plannedFrame
  <2>2. ProcessType'
    BY <2>1 DEF TypeInv, ProcessType, Places
  <2>3. GridInv' /\ CountersInv'
    BY <1>1, <1>2, <1>3, <2>1 DEF TypeInv, GridInv, CountersInv, Working, Looping
  <2>4. QED
    BY <1>5, <2>2, <2>3 DEF TypeInv
<1>8. QED
  BY <1>6, <1>7

(* A transaction that is sent. *)
LEMMA AdmitType ==
  ASSUME VenueType, NEW op \in {"place", "cancel"}, NEW book \in Books, Admit(op, book)
  PROVE  VenueType'
  BY DEF VenueType, Admit, Transactions

LEMMA SubmitSendsType ==
  ASSUME TypeInv, SubmitSends
  PROVE  TypeInv'
<1>1. pc = "submit" /\ pc' = "confirm" /\ UNCHANGED <<cfg, saved, traded, starts, cancel, run, snap, actual, reply>>
  BY DEF SubmitSends, bulkFrame, historyVars
<1>2. Desired \in Books /\ Admit("place", Desired)
  BY <1>1, DesiredBook DEF SubmitSends, Working
<1>3. VenueType'
  BY <1>2, AdmitType DEF TypeInv
<1>4. ProcessType' /\ StateType'
  BY <1>1 DEF TypeInv, ProcessType, StateType, Places
<1>5. GridInv' /\ CountersInv'
  BY <1>1 DEF TypeInv, GridInv, CountersInv, Working, Looping
<1>6. QED
  BY <1>3, <1>4, <1>5 DEF TypeInv

(* The locals after a failed replacement: another cycle, or a pause. *)
LEMMA BulkFailsEffect ==
  ASSUME TypeInv, pc \in Working, BulkFails
  PROVE  \E r \in Runs, to \in {"fetch", "cancel"} :
           /\ CycleEnds(to, r) /\ reply' = "none"
           /\ UNCHANGED <<venueVars, bulkFrame>>
           /\ r.pinned = run.pinned /\ r.range = run.range /\ r.funded = run.funded
           /\ r.failures = run.failures + 1
           /\ to = "fetch" => r.failures < MaxFailures
           /\ \/ to = "fetch" /\ r.why = run.why /\ r.paused = run.paused
              \/ to = "cancel" /\ r.why = "circuit" /\ r.paused = TRUE
<1> DEFINE r == [run EXCEPT !.failures = @ + 1]
           paused == [r EXCEPT !.why = "circuit", !.paused = TRUE]
<1>1. run \in Runs /\ run.failures < MaxFailures
  BY DEF TypeInv, ProcessType, CountersInv, Looping
<1>2. run.failures + 1 \in 0 .. MaxFailures
  BY <1>1, Bounded DEF Runs
<1>3. /\ r \in Runs /\ r.failures = run.failures + 1
      /\ r.pinned = run.pinned /\ r.range = run.range /\ r.funded = run.funded
      /\ r.why = run.why /\ r.paused = run.paused
  BY <1>1, <1>2 DEF Runs
<1>4. /\ paused \in Runs /\ paused.failures = run.failures + 1
      /\ paused.pinned = run.pinned /\ paused.range = run.range /\ paused.funded = run.funded
      /\ paused.why = "circuit" /\ paused.paused = TRUE
  BY <1>1, <1>2 DEF Runs, Whys
<1>5. /\ IF r.failures < MaxFailures THEN CycleEnds("fetch", r) ELSE CycleEnds("cancel", paused)
      /\ reply' = "none" /\ UNCHANGED <<venueVars, bulkFrame>>
  BY DEF BulkFails
<1> HIDE DEF r, paused
<1>6. CASE r.failures < MaxFailures
  BY <1>3, <1>5, <1>6
<1>7. CASE ~(r.failures < MaxFailures)
  BY <1>4, <1>5, <1>7
<1>8. QED
  BY <1>6, <1>7

LEMMA BulkFailsType ==
  ASSUME TypeInv, SubmitFails \/ PlacementFails
  PROVE  TypeInv'
<1>1. pc \in Working /\ BulkFails
  BY DEF SubmitFails, PlacementFails, Working
<1>2. PICK r \in Runs, to \in {"fetch", "cancel"} :
        /\ CycleEnds(to, r) /\ reply' = "none"
        /\ UNCHANGED <<venueVars, bulkFrame>>
        /\ r.pinned = run.pinned /\ r.range = run.range
        /\ to = "fetch" => r.failures < MaxFailures
  BY <1>1, BulkFailsEffect
<1>3. VenueType' /\ StateType' /\ saved'.pinned = saved.pinned /\ cancel' = cancel
  BY <1>2 DEF TypeInv, VenueType, StateType, venueVars, bulkFrame, historyVars
<1>4. QED
  BY <1>2, <1>3, CycleEndsType

LEMMA PlacementSucceedsType ==
  ASSUME TypeInv, PlacementSucceeds
  PROVE  TypeInv'
<1> DEFINE r == [run EXCEPT !.failures = 0, !.cooldown = TRUE, !.count = LevelCount(Desired)]
<1>1. /\ CycleEnds("fetch", r) /\ reply' = "none" /\ cancel' = cancel /\ saved' = saved
      /\ UNCHANGED <<venueVars, bulkFrame>>
  BY DEF PlacementSucceeds, bulkFrame
<1>2. LevelCount(Desired) \in {-1} \cup Nat /\ 0 \in 0 .. MaxFailures
  BY TotalType, Bounded DEF LevelCount
<1>3. r \in Runs /\ r.pinned = run.pinned /\ r.range = run.range /\ r.failures = 0
  BY <1>2 DEF TypeInv, ProcessType, Runs
<1>4. VenueType' /\ StateType'
  BY <1>1 DEF TypeInv, VenueType, StateType, venueVars, bulkFrame, historyVars
<1> HIDE DEF r
<1>5. QED
  BY <1>1, <1>3, <1>4, Bounded, CycleEndsType DEF TypeInv

-----------------------------------------------------------------------------
(* The end of the run. *)

LEMMA ExitType ==
  ASSUME TypeInv, LoopEnds \/ Exit
  PROVE  TypeInv'
<1>1. VenueType' /\ cfg' = cfg /\ saved' = saved /\ traded' = traded /\ starts' = starts
  BY DEF LoopEnds, Exit, Down, TypeInv, VenueType, venueVars, loopFrame, historyVars
<1>2. StateType'
  BY <1>1 DEF TypeInv, StateType
<1>3. CASE LoopEnds
  <2>1. pc' = "exit" /\ UNCHANGED <<run, snap, actual, reply, cancel>>
    BY <1>3 DEF LoopEnds
  <2>2. ProcessType'
    BY <2>1 DEF TypeInv, ProcessType, Places
  <2>3. GridInv' /\ CountersInv'
    BY <1>1, <2>1 DEF TypeInv, GridInv, CountersInv, Working, Looping
  <2>4. QED
    BY <1>1, <1>2, <2>2, <2>3 DEF TypeInv
<1>4. CASE Exit /\ run.market
  <2> DEFINE r == [run EXCEPT !.why = cfg.policy]
  <2>1. CycleEnds("cancel", r) /\ reply' = reply /\ cancel' = cancel
    BY <1>4 DEF Exit
  <2>2. cfg.policy \in Whys
    BY ConfigType DEF TypeInv, StateType, Whys
  <2>3. r \in Runs /\ r.pinned = run.pinned /\ r.range = run.range
    BY <2>2 DEF TypeInv, ProcessType, Runs
  <2> HIDE DEF r
  <2>4. QED
    BY <1>1, <1>2, <2>1, <2>3, CycleEndsType
<1>5. CASE Exit /\ ~run.market
  BY <1>1, <1>2, <1>5, DownType DEF Exit
<1>6. QED
  BY <1>3, <1>4, <1>5

LEMMA CancelSendsType ==
  ASSUME TypeInv, CancelSends
  PROVE  TypeInv'
<1>1. pc' = "cancelling" /\ UNCHANGED <<cfg, saved, traded, starts, run, snap, actual, reply, cancel>>
  BY DEF CancelSends, loopFrame, historyVars
<1>2. VenueType'
  BY AdmitType, NothingType DEF TypeInv, CancelSends
<1>3. ProcessType' /\ StateType'
  BY <1>1 DEF TypeInv, ProcessType, StateType, Places
<1>4. GridInv' /\ CountersInv'
  BY <1>1 DEF TypeInv, GridInv, CountersInv, Working, Looping
<1>5. QED
  BY <1>2, <1>3, <1>4 DEF TypeInv

LEMMA CancelEndsType ==
  ASSUME TypeInv, CancelFails \/ CancelSucceeds
  PROVE  TypeInv'
<1>1. UNCHANGED <<venueVars, cfg, saved, traded, starts>>
  BY DEF CancelFails, CancelSucceeds, Down
<1>2. VenueType' /\ StateType' /\ saved'.pinned = saved.pinned
  BY <1>1 DEF TypeInv, VenueType, StateType, venueVars
<1>3. run \in Runs
  BY DEF TypeInv, ProcessType
<1>4. CASE CancelFails /\ run.why = "stopLoss"
  <2>1. CycleEnds("exit", run) /\ reply' = "none" /\ cancel' = cancel
    BY <1>4 DEF CancelFails
  <2>2. QED
    BY <1>2, <1>3, <2>1, CycleEndsType
<1>5. CASE CancelFails /\ run.why # "stopLoss"
  <2>1. Down("uncancelled")
    BY <1>5 DEF CancelFails
  <2>2. QED
    BY <1>2, <2>1, DownType
<1>6. CASE CancelSucceeds /\ Sells
  <2>1. pc' = "selling" /\ reply' = "none" /\ UNCHANGED <<run, snap, actual, cancel>>
    BY <1>6 DEF CancelSucceeds
  <2>2. ProcessType'
    BY <2>1 DEF TypeInv, ProcessType, Places
  <2>3. GridInv' /\ CountersInv'
    BY <1>1, <2>1 DEF TypeInv, GridInv, CountersInv, Working, Looping
  <2>4. QED
    BY <1>2, <2>2, <2>3 DEF TypeInv
<1>7. CASE CancelSucceeds /\ ~Sells
  <2>1. Down("cancelled")
    BY <1>7 DEF CancelSucceeds
  <2>2. QED
    BY <1>2, <2>1, DownType
<1>8. QED
  BY <1>4, <1>5, <1>6, <1>7

(* A sale gives up free base alone, and the saved cursor falls behind. *)
LEMMA SellEffect ==
  ASSUME TypeInv, NEW ok \in BOOLEAN, Sell(ok)
  PROVE  /\ VenueType' /\ ladder' = ladder /\ pending' = pending /\ mid' = mid
         /\ traded' \in BOOLEAN /\ cfg' = cfg
         /\ saved' \in SavedStates
         /\ saved'.pinned = saved.pinned /\ saved'.funded = saved.funded
<1>1. free.base \in Nat /\ free.quote \in Nat
  BY DEF TypeInv, VenueType, Balances
<1>2. PICK visible \in 0 .. free.base : \E lots \in 0 .. visible :
        /\ Takes(0, lots)
        /\ traded' = (traded \/ lots > 0)
        /\ saved' = IF lots > 0 THEN [saved EXCEPT !.cursor = Behind(@)] ELSE saved
  BY <1>1 DEF Sell
<1>3. PICK lots \in 0 .. visible :
        /\ Takes(0, lots)
        /\ traded' = (traded \/ lots > 0)
        /\ saved' = IF lots > 0 THEN [saved EXCEPT !.cursor = Behind(@)] ELSE saved
  BY <1>2
<1>4. lots \in Nat /\ lots <= free.base
  BY <1>1
<1>5. free' \in Balances
  BY <1>1, <1>3, <1>4 DEF Takes, Balances
<1>6. VenueType' /\ ladder' = ladder /\ pending' = pending /\ mid' = mid
  BY <1>3, <1>5 DEF Takes, TypeInv, VenueType
<1>7. /\ saved' \in SavedStates
      /\ saved'.pinned = saved.pinned /\ saved'.funded = saved.funded
  <2>1. saved \in SavedStates /\ Behind(saved.cursor) \in Cursors
    BY DEF TypeInv, StateType, SavedStates, Behind, Cursors
  <2>2. CASE lots > 0
    BY <1>3, <2>1, <2>2 DEF SavedStates
  <2>3. CASE ~(lots > 0)
    BY <1>3, <2>1, <2>3
  <2>4. QED
    BY <2>2, <2>3
<1>8. traded' \in BOOLEAN
  <2>1. traded \in BOOLEAN /\ (lots > 0) \in BOOLEAN
    BY DEF TypeInv, StateType
  <2>2. QED
    BY <1>3, <2>1
<1>9. QED
  BY <1>6, <1>7, <1>8 DEF Sell

LEMMA SellType ==
  ASSUME TypeInv, NEW ok \in BOOLEAN, Sell(ok)
  PROVE  TypeInv'
<1>1. /\ VenueType' /\ traded' \in BOOLEAN /\ cfg' = cfg
      /\ saved' \in SavedStates /\ saved'.pinned = saved.pinned
  BY SellEffect
<1>2. run \in Runs
  BY DEF TypeInv, ProcessType
<1>3. starts' = starts
  BY DEF Sell, Down
<1>4. StateType'
  BY <1>1, <1>3 DEF TypeInv, StateType
<1>5. (\E how : Down(how)) \/ (CycleEnds("exit", run) /\ reply' = reply /\ cancel' = cancel)
  BY DEF Sell
<1>6. CASE \E how : Down(how)
  <2>1. PICK how : Down(how)
    BY <1>6
  <2>2. QED
    BY <1>1, <1>4, <2>1, DownType
<1>7. CASE CycleEnds("exit", run) /\ reply' = reply /\ cancel' = cancel
  BY <1>1, <1>2, <1>4, <1>7, CycleEndsType
<1>8. QED
  BY <1>5, <1>6, <1>7

LEMMA DiesType ==
  ASSUME TypeInv, Dies \/ ResizeDies
  PROVE  TypeInv'
<1>1. Down("died") /\ UNCHANGED <<venueVars, cfg, saved, traded>>
  BY DEF Dies, ResizeDies
<1>2. VenueType' /\ StateType' /\ saved'.pinned = saved.pinned
  BY <1>1 DEF TypeInv, VenueType, StateType, venueVars, Down
<1>3. QED
  BY <1>1, <1>2, DownType

-----------------------------------------------------------------------------
(* The chain and the market. *)

(* Neither the market nor the chain touches more of the locals than these. *)
LEMMA EnvironmentFrame ==
  ASSUME TypeInv, Environment
  PROVE  /\ UNCHANGED <<cfg, pc, snap, actual, ended, starts>>
         /\ cancel' \in BOOLEAN
         /\ run' \in Runs /\ saved' \in SavedStates /\ traded' \in BOOLEAN
         /\ run'.pinned = run.pinned /\ run'.range = run.range /\ run'.funded = run.funded
         /\ run'.attempts = run.attempts /\ run'.failures = run.failures
         /\ run'.why = run.why /\ run'.paused = run.paused
         /\ saved'.pinned = saved.pinned /\ saved'.funded = saved.funded
         /\ (run' = run /\ saved' = saved) \/ Fill \/ CooldownEnds
<1>1. run \in Runs /\ saved \in SavedStates /\ traded \in BOOLEAN /\ cancel \in BOOLEAN /\ StateType
  BY DEF TypeInv, ProcessType, StateType
<1>2. CASE Fill
  <2>1. TradesSeen(TRUE, run) /\ UNCHANGED <<awayFrame, reply>>
    BY <1>2 DEF Fill
  <2>2. TRUE \in BOOLEAN
    OBVIOUS
  <2>3. /\ run' \in Runs /\ run' = [run EXCEPT !.cursor = run'.cursor]
        /\ saved' \in SavedStates /\ saved' = [saved EXCEPT !.cursor = saved'.cursor]
        /\ traded' \in BOOLEAN
    BY <1>1, <2>1, <2>2, TradesSeenType
  <2>4. /\ run'.pinned = run.pinned /\ run'.range = run.range /\ run'.funded = run.funded
        /\ run'.attempts = run.attempts /\ run'.failures = run.failures
        /\ run'.why = run.why /\ run'.paused = run.paused
    BY <1>1, <2>3 DEF Runs
  <2>5. saved'.pinned = saved.pinned /\ saved'.funded = saved.funded
    BY <1>1, <2>3 DEF SavedStates
  <2>6. QED
    BY <1>1, <1>2, <2>1, <2>3, <2>4, <2>5 DEF awayFrame
<1>3. CASE CooldownEnds
  <2>1. run' = [run EXCEPT !.cooldown = FALSE]
    BY <1>3 DEF CooldownEnds
  <2>2. /\ run' \in Runs
        /\ run'.pinned = run.pinned /\ run'.range = run.range /\ run'.funded = run.funded
        /\ run'.attempts = run.attempts /\ run'.failures = run.failures
        /\ run'.why = run.why /\ run'.paused = run.paused
    BY <1>1, <2>1 DEF Runs
  <2>3. QED
    BY <1>1, <1>3, <2>2 DEF CooldownEnds, historyVars
<1>4. CASE TxExecutes \/ TxDiscarded
  BY <1>1, <1>4 DEF TxExecutes, TxDiscarded, awayFrame
<1>5. CASE Market
  BY <1>1, <1>5 DEF Market, processVars, historyVars
<1>6. CASE CtrlC
  BY <1>1, <1>6 DEF CtrlC, historyVars
<1>7. QED
  BY <1>2, <1>3, <1>4, <1>5, <1>6 DEF Environment

LEMMA EnvironmentType ==
  ASSUME TypeInv, Environment
  PROVE  TypeInv'
<1>1. VenueType'
  <2>1. CASE TxExecutes
    BY <2>1, ExecuteType DEF TypeInv, TxExecutes
  <2>2. CASE TxDiscarded
    BY <2>2, NothingType DEF TypeInv, TxDiscarded, Discard, VenueType
  <2>3. CASE Fill
    <3>1. BidFills \/ (\E proceeds \in {0, 1} : AskFills(proceeds))
      BY <2>3 DEF Fill
    <3>2. QED
      BY <3>1, FillType DEF TypeInv
  <2>4. CASE Market
    BY <2>4 DEF TypeInv, Market, MidMoves, StandaloneChanges, VenueType
  <2>5. CASE CtrlC \/ CooldownEnds
    BY <2>5 DEF TypeInv, CtrlC, CooldownEnds, VenueType, venueVars
  <2>6. QED
    BY <2>1, <2>2, <2>3, <2>4, <2>5 DEF Environment
<1>2. reply' \in {"none", "ok", "err"}
  BY DEF TypeInv, ProcessType, Environment, TxExecutes, TxDiscarded, Learns, Fill, Market, CtrlC,
         CooldownEnds, processVars
<1>3. ProcessType' /\ StateType'
  BY <1>2, EnvironmentFrame DEF TypeInv, ProcessType, StateType
<1>4. GridInv' /\ CountersInv'
  BY EnvironmentFrame DEF TypeInv, GridInv, CountersInv
<1>5. QED
  BY <1>1, <1>3, <1>4 DEF TypeInv

LEMMA StepType ==
  ASSUME TypeInv, [Next]_vars
  PROVE  TypeInv'
<1>1. CASE Start \/ StopCli
  BY <1>1, StartType
<1>2. CASE Fetching
  BY <1>2, FetchingType
<1>3. CASE OrdersFail \/ OrdersRead
  BY <1>3, OrdersType
<1>4. CASE Funding
  BY <1>4, FundType, RereadType, DiesType DEF Funding
<1>5. CASE SkipReplacement \/ ReplaceLadder
  BY <1>5, PlanType
<1>6. CASE SubmitSends \/ SubmitFails \/ PlacementFails \/ PlacementSucceeds
  BY <1>6, SubmitSendsType, BulkFailsType, PlacementSucceedsType
<1>7. CASE Stopping
  BY <1>7, ExitType, CancelSendsType, CancelEndsType, SellType DEF Stopping
<1>8. CASE Dies
  BY <1>8, DiesType
<1>9. CASE Environment
  BY <1>9, EnvironmentType
<1>10. CASE UNCHANGED vars
  BY <1>10 DEF TypeInv, VenueType, ProcessType, StateType, GridInv, CountersInv, vars, venueVars,
               processVars, historyVars
<1>11. QED
  BY <1>1, <1>2, <1>3, <1>4, <1>5, <1>6, <1>7, <1>8, <1>9, <1>10 DEF Next, Bot

(* Every state of the run is well-typed, whatever the price axis, the size of a level, the     *)
(* configurations and the bounds: no balance is overdrawn by a replacement, a purchase or a    *)
(* sale, no level is larger than the configured size and no counter passes its limit           *)
(* (execute_bulk_grid, execute_guarded_spot_ioc, exit_sell_assets).                            *)
THEOREM TypeCorrect == Spec => []TypeOK
<1>1. Init => TypeInv
  BY InitType
<1>2. TypeInv /\ [Next]_vars => TypeInv'
  BY StepType
<1>3. TypeInv => TypeOK
  BY DEF TypeInv, VenueType, ProcessType, StateType, TypeOK, Runs, Snaps, Orders, SavedStates
<1>4. QED
  BY <1>1, <1>2, <1>3, PTL DEF Spec

LEMMA TypeInvariant == Spec => []TypeInv
  BY InitType, StepType, PTL DEF Spec

-----------------------------------------------------------------------------
(* What the steps do to the state that the properties are about. *)

(* A process that is gone has no locals. *)
LEMMA DownEffect ==
  ASSUME NEW how, Down(how)
  PROVE  /\ pc' = "down" /\ ended' = how /\ reply' = "none" /\ starts' = starts
         /\ run' = Loaded(NoState) /\ run'.paused = FALSE
  BY LoadedType, NothingType DEF Down

(* The saved plan changes only to the plan that the process works with, *)
(* or to none in a process that starts under another fee tier.          *)
LEMMA SavedEffect ==
  ASSUME TypeInv, [Next]_vars
  PROVE  /\ cfg' = cfg
         /\ \/ saved'.pinned = saved.pinned /\ saved'.funded = saved.funded
            \/ pc = "plan" /\ saved' = Runtime /\ UNCHANGED venueVars
            \/ /\ "feeTier" \in cfg.faults /\ pc' = "fetch"
               /\ saved' = NoState /\ UNCHANGED venueVars
<1>1. CASE Start \/ StopCli
  BY <1>1, StartEffect DEF StopCli
<1>2. CASE Fetching
  BY <1>2 DEF Fetching, StopLoss, Cycle, Breakout, ExtendGrid, Fetched, loopFrame
<1>3. CASE OrdersFail \/ OrdersRead
  BY <1>3 DEF OrdersFail, OrdersRead, loopFrame
<1>4. CASE Fund
  <2>1. PICK bought \in Nat : TradesSeen(bought > 0, [run EXCEPT !.attempts = @ + 1])
    BY <1>4, FundEffect
  <2>2. saved' = saved \/ saved' = [saved EXCEPT !.cursor = Behind(@)]
    BY <2>1 DEF TradesSeen
  <2>3. saved \in SavedStates
    BY DEF TypeInv, StateType
  <2>4. QED
    BY <1>4, <2>2, <2>3 DEF Fund, SavedStates
<1>5. CASE RereadFails \/ FundedInFull \/ FundedInPart \/ NotFunded
  BY <1>5 DEF RereadFails, FundedInFull, FundedInPart, NotFunded, Reread, AfterFunding, loopFrame
<1>6. CASE SkipReplacement \/ ReplaceLadder
  BY <1>6 DEF SkipReplacement, ReplaceLadder, plannedFrame
<1>7. CASE SubmitSends \/ SubmitFails \/ PlacementFails \/ PlacementSucceeds
  BY <1>7 DEF SubmitSends, SubmitFails, PlacementFails, PlacementSucceeds, BulkFails, bulkFrame
<1>8. CASE LoopEnds \/ Exit \/ CancelSends \/ CancelFails \/ CancelSucceeds \/ Dies \/ ResizeDies
  BY <1>8 DEF LoopEnds, Exit, CancelSends, CancelFails, CancelSucceeds, Dies, ResizeDies, loopFrame
<1>9. CASE \E ok \in BOOLEAN : Sell(ok)
  BY <1>9, SellEffect
<1>10. CASE Environment
  BY <1>10, EnvironmentFrame
<1>11. CASE UNCHANGED vars
  BY <1>11 DEF vars
<1>12. QED
  BY <1>1, <1>2, <1>3, <1>4, <1>5, <1>6, <1>7, <1>8, <1>9, <1>10, <1>11
     DEF Next, Bot, Funding, Stopping

(* No level of a book is larger than it was. *)
NoLarger(book, old) ==
  \A p \in Prices : book.bids[p] <= old.bids[p] /\ book.asks[p] <= old.asks[p]

LEMMA NoLargerReflexive ==
  ASSUME NEW book \in Books
  PROVE  NoLarger(book, book)
<1>1. \A p \in Prices : book.bids[p] \in Int /\ book.asks[p] \in Int
  BY Bounded DEF Books, Side
<1>2. QED
  BY <1>1 DEF NoLarger

LEMMA FillEffect ==
  ASSUME VenueType, BidFills \/ (\E proceeds \in {0, 1} : AskFills(proceeds))
  PROVE  NoLarger(ladder', ladder) /\ ladder # EmptyBook /\ pending' = pending /\ mid' = mid
<1>1. mid \in Prices /\ ladder.bids \in Side /\ ladder.asks \in Side /\ ladder \in Books
  BY DEF VenueType, Books
<1>2. ASSUME NEW side \in Side, NEW p \in Prices
      PROVE  [side EXCEPT ![mid] = @ - 1][p] <= side[p] /\ side[p] <= side[p]
  <2>1. side[p] \in Int
    BY Bounded DEF Side
  <2>2. [side EXCEPT ![mid] = @ - 1][p] = IF p = mid THEN side[p] - 1 ELSE side[p]
    BY <1>1 DEF Side
  <2>3. QED
    BY <2>1, <2>2
<1>3. Nothing[mid] = 0
  BY <1>1 DEF Nothing
<1>4. CASE BidFills
  <2>1. /\ ladder'.bids = [ladder.bids EXCEPT ![mid] = @ - 1] /\ ladder'.asks = ladder.asks
        /\ ladder.bids[mid] > 0 /\ pending' = pending /\ mid' = mid
    BY <1>1, <1>4 DEF BidFills, Books
  <2>2. ladder # EmptyBook
    BY <1>3, <2>1 DEF EmptyBook
  <2>3. QED
    BY <1>1, <1>2, <2>1, <2>2 DEF NoLarger
<1>5. CASE \E proceeds \in {0, 1} : AskFills(proceeds)
  <2>1. /\ ladder'.asks = [ladder.asks EXCEPT ![mid] = @ - 1] /\ ladder'.bids = ladder.bids
        /\ ladder.asks[mid] > 0 /\ pending' = pending /\ mid' = mid
    BY <1>1, <1>5 DEF AskFills, Books
  <2>2. ladder # EmptyBook
    BY <1>3, <2>1 DEF EmptyBook
  <2>3. QED
    BY <1>1, <1>2, <2>1, <2>2 DEF NoLarger
<1>6. QED
  BY <1>4, <1>5

(* The ladder shrinks, is replaced by the transaction on its way, or is cancelled. *)
LEMMA VenueEffect ==
  ASSUME TypeInv, [Next]_vars
  PROVE  /\ \/ NoLarger(ladder', ladder)
            \/ pending.op = "place" /\ ladder' = pending.book /\ ~Crosses(pending.book)
            \/ ladder' = EmptyBook
         /\ \/ mid' = mid
            \/ ladder' = ladder /\ \A p \in Prices : p > mid' => ladder.bids[p] = 0
         /\ \/ pending' = pending
            \/ pending' = NoTx
            \/ /\ pc = "submit" /\ pc' = "confirm" /\ pending = NoTx
               /\ pending' = [op |-> "place", book |-> Desired]
            \/ /\ pc = "cancel" /\ pc' = "cancelling" /\ pending = NoTx
               /\ pending' = [op |-> "cancel", book |-> EmptyBook]
<1>0. NoLarger(ladder, ladder)
  BY NoLargerReflexive DEF TypeInv, VenueType
<1> USE DEF venueVars
<1>1. CASE Start \/ StopCli
  BY <1>0, <1>1 DEF Start, StopCli
<1>2. CASE Fetching
  BY <1>0, <1>2 DEF Fetching, StopLoss, Cycle, Breakout, ExtendGrid, Fetched
<1>3. CASE OrdersFail \/ OrdersRead
  BY <1>0, <1>3 DEF OrdersFail, OrdersRead
<1>4. CASE Fund
  BY <1>0, <1>4, FundEffect DEF Takes
<1>5. CASE RereadFails \/ FundedInFull \/ FundedInPart \/ NotFunded
  BY <1>0, <1>5 DEF RereadFails, FundedInFull, FundedInPart, NotFunded, Reread, AfterFunding
<1>6. CASE SkipReplacement \/ ReplaceLadder
  BY <1>0, <1>6 DEF SkipReplacement, ReplaceLadder, plannedFrame
<1>7. CASE SubmitSends
  BY <1>0, <1>7 DEF SubmitSends, Admit
<1>8. CASE SubmitFails \/ PlacementFails \/ PlacementSucceeds
  BY <1>0, <1>8 DEF SubmitFails, PlacementFails, PlacementSucceeds, BulkFails
<1>9. CASE LoopEnds \/ Exit \/ CancelFails \/ CancelSucceeds \/ Dies \/ ResizeDies
  BY <1>0, <1>9 DEF LoopEnds, Exit, CancelFails, CancelSucceeds, Dies, ResizeDies
<1>10. CASE CancelSends
  BY <1>0, <1>10 DEF CancelSends, Admit
<1>11. CASE \E ok \in BOOLEAN : Sell(ok)
  BY <1>0, <1>11, SellEffect
<1>12. CASE TxExecutes
  BY <1>12 DEF TxExecutes, Execute, Replace
<1>13. CASE TxDiscarded
  BY <1>0, <1>13 DEF TxDiscarded, Discard
<1>14. CASE Fill
  <2>1. BidFills \/ (\E proceeds \in {0, 1} : AskFills(proceeds))
    BY <1>14 DEF Fill
  <2>2. QED
    BY <2>1, FillEffect DEF TypeInv
<1>15. CASE Market \/ CtrlC \/ CooldownEnds
  BY <1>0, <1>15 DEF Market, MidMoves, StandaloneChanges, CtrlC, CooldownEnds
<1>16. CASE UNCHANGED vars
  BY <1>0, <1>16 DEF vars
<1>17. QED
  BY <1>1, <1>2, <1>3, <1>4, <1>5, <1>6, <1>7, <1>8, <1>9, <1>10, <1>11, <1>12, <1>13, <1>14, <1>15,
     <1>16 DEF Next, Bot, Funding, Stopping, Environment

(* Ways into the loop and around it, with what becomes of the pinned plan. *)
LEMMA LoopEffect ==
  ASSUME TypeInv, [Next]_vars, pc' \in Looping
  PROVE  \/ /\ pc = "down" /\ pc' = "fetch" /\ run' = Loaded(saved')
            /\ saved' = saved \/ ("feeTier" \in cfg.faults /\ saved' = NoState)
            /\ starts' = starts + 1 /\ UNCHANGED venueVars
         \/ /\ pc = "fetch" /\ pc' = "orders" /\ run'.pinned = Pin /\ InRange
            /\ run'.range = run.range /\ run'.funded = run.funded /\ snap' = Snapshot
            /\ UNCHANGED <<venueVars, saved, starts>>
         \/ /\ pc = "fetch" /\ pc' = "orders" /\ run'.pinned = ExtendedPlan /\ ~InRange
            /\ cfg.extend /\ run'.range = ExtendedRange /\ snap' = Snapshot
            /\ UNCHANGED <<venueVars, saved, starts>>
         \/ /\ pc = "reread" /\ pc' = "plan" /\ SameGrid(run.pinned, run'.pinned)
            /\ run'.pinned = run.pinned \/ run'.funded = TRUE
            /\ run'.funded = run.funded \/ run'.funded = TRUE
            /\ run'.range = run.range
            /\ UNCHANGED <<venueVars, saved, starts>>
         \/ /\ pc \in Looping /\ run'.pinned = run.pinned /\ run'.funded = run.funded
            /\ run'.range = run.range /\ starts' = starts
            /\ pc' = "orders" => pc = "orders" /\ snap' = snap
            /\ pc' = "funding" => pc \in {"orders", "funding"} /\ snap' = snap
<1> USE DEF Looping, Working
<1>0. run \in Runs
  BY DEF TypeInv, ProcessType
<1>1. CASE Start \/ StopCli
  BY <1>1, StartEffect DEF StopCli
<1>2. CASE Fetching
  <2>1. PICK r \in Runs, to \in {"orders", "cancel"} :
          /\ Fetched(to, r) /\ r.funded = run.funded
          /\ \/ to = "cancel"
             \/ /\ to = "orders" /\ r.pinned = Pin /\ InRange /\ r.range = run.range
             \/ /\ to = "orders" /\ r.pinned = ExtendedPlan /\ ~InRange /\ cfg.extend
                /\ r.range = ExtendedRange
    BY <1>2, FetchingEffect
  <2>2. run' = [r EXCEPT !.market = TRUE, !.cursor = IF traded THEN "current" ELSE "none"]
    BY <2>1 DEF Fetched
  <2>3. run'.pinned = r.pinned /\ run'.range = r.range /\ run'.funded = r.funded
    BY <2>2 DEF Runs
  <2>4. /\ pc = "fetch" /\ pc' = to /\ snap' = Snapshot
        /\ UNCHANGED <<venueVars, saved, starts>>
    BY <2>1 DEF Fetched, loopFrame, historyVars
  <2>5. QED
    BY <2>1, <2>3, <2>4
<1>3. CASE OrdersFail \/ OrdersRead
  BY <1>3 DEF OrdersFail, OrdersRead, CycleEnds, loopFrame, historyVars
<1>4. CASE Fund
  <2>1. PICK bought \in Nat : TradesSeen(bought > 0, [run EXCEPT !.attempts = @ + 1])
    BY <1>4, FundEffect
  <2>2. run'.pinned = run.pinned /\ run'.funded = run.funded /\ run'.range = run.range
    BY <1>0, <2>1 DEF TradesSeen, Runs
  <2>3. QED
    BY <1>4, <2>2 DEF Fund, historyVars
<1>5. CASE RereadFails \/ FundedInFull \/ FundedInPart \/ NotFunded
  <2>1. PICK r \in Runs :
           /\ AfterFunding(r)
           /\ Grid(r.pinned) /\ SameGrid(run.pinned, r.pinned)
           /\ r.pinned = run.pinned \/ r.funded = TRUE
           /\ r.funded = run.funded \/ r.funded = TRUE
           /\ r.range = run.range
    BY <1>5, RereadEffect
  <2>2. QED
    BY <2>1 DEF AfterFunding, loopFrame, historyVars
<1>6. CASE SkipReplacement \/ ReplaceLadder
  BY <1>6 DEF SkipReplacement, ReplaceLadder, CycleEnds, plannedFrame, historyVars
<1>7. CASE SubmitSends
  BY <1>7 DEF SubmitSends, bulkFrame, historyVars
<1>8. CASE SubmitFails \/ PlacementFails
  <2>1. pc \in Working /\ BulkFails
    BY <1>8 DEF SubmitFails, PlacementFails
  <2>2. PICK r \in Runs, to \in {"fetch", "cancel"} :
        /\ CycleEnds(to, r)
        /\ UNCHANGED <<venueVars, bulkFrame>>
        /\ r.pinned = run.pinned /\ r.range = run.range /\ r.funded = run.funded
    BY <2>1, BulkFailsEffect
  <2>3. QED
    BY <2>1, <2>2 DEF CycleEnds, bulkFrame, historyVars
<1>9. CASE PlacementSucceeds
  <2>1. run'.pinned = run.pinned /\ run'.funded = run.funded /\ run'.range = run.range
    BY <1>0, <1>9 DEF PlacementSucceeds, CycleEnds, Runs
  <2>2. QED
    BY <1>9, <2>1 DEF PlacementSucceeds, CycleEnds, bulkFrame, historyVars
<1>10. CASE Stopping \/ Dies \/ ResizeDies
  BY <1>10 DEF Stopping, LoopEnds, Exit, CancelSends, CancelFails, CancelSucceeds, Sell, CycleEnds,
               Dies, ResizeDies, Down
<1>11. CASE Environment
  BY <1>11, EnvironmentFrame
<1>12. CASE UNCHANGED vars
  BY <1>12 DEF vars, processVars, historyVars
<1>13. QED
  BY <1>1, <1>2, <1>3, <1>4, <1>5, <1>6, <1>7, <1>8, <1>9, <1>10, <1>11, <1>12
     DEF Next, Bot, Funding

-----------------------------------------------------------------------------
(* A risk pause keeps the assets: it is on its way out from the moment it is *)
(* entered, and what it waits for never makes it a sale.                     *)

PauseInv ==
  /\ run.paused => run.why \in {"breakout", "circuit"} /\ pc \in {"cancel", "cancelling"}
  /\ pc = "selling" => Sells

LEMMA PauseStep ==
  ASSUME TypeInv, PauseInv, [Next]_vars
  PROVE  PauseInv'
<1>0. run \in Runs
  BY DEF TypeInv, ProcessType
<1>1. ASSUME NEW how, Down(how)
      PROVE  PauseInv'
  BY <1>1, DownEffect DEF PauseInv
<1>2. ASSUME run'.paused = run.paused, run'.why = run.why, pc \notin {"cancel", "cancelling"},
             pc' # "selling"
      PROVE  PauseInv'
  BY <1>2 DEF PauseInv
<1>3. CASE Start
  <2>1. run'.paused = FALSE /\ pc' = "fetch"
    BY <1>3, StartEffect, LoadedType
  <2>2. QED
    BY <2>1 DEF PauseInv
<1>4. CASE StopCli
  <2>1. Loaded(NoState) \in Runs /\ Loaded(NoState).paused = FALSE
    BY LoadedType, NothingType
  <2>2. run'.paused = FALSE /\ pc' = "cancel"
    BY <1>4, <2>1 DEF StopCli, Runs
  <2>3. QED
    BY <2>2 DEF PauseInv
<1>5. CASE Fetching
  <2>1. PICK r \in Runs, to \in {"orders", "cancel"} :
          /\ Fetched(to, r)
          /\ \/ to = "cancel" /\ r.paused = run.paused
             \/ to = "cancel" /\ r.why = "breakout"
             \/ to = "orders" /\ r.paused = run.paused
    BY <1>5, FetchingEffect
  <2>2. run' = [r EXCEPT !.market = TRUE, !.cursor = IF traded THEN "current" ELSE "none"]
    BY <2>1 DEF Fetched
  <2>3. run'.paused = r.paused /\ run'.why = r.why
    BY <2>2 DEF Runs
  <2>4. pc = "fetch" /\ pc' = to
    BY <2>1 DEF Fetched
  <2>5. run.paused = FALSE
    BY <1>0, <2>4 DEF PauseInv, Runs
  <2>6. QED
    BY <2>1, <2>3, <2>4, <2>5 DEF PauseInv
<1>6. CASE OrdersFail \/ OrdersRead
  BY <1>2, <1>6 DEF OrdersFail, OrdersRead, CycleEnds
<1>7. CASE Fund
  <2>1. PICK bought \in Nat : TradesSeen(bought > 0, [run EXCEPT !.attempts = @ + 1])
    BY <1>7, FundEffect
  <2>2. run'.paused = run.paused /\ run'.why = run.why
    BY <1>0, <2>1 DEF TradesSeen, Runs
  <2>3. QED
    BY <1>2, <1>7, <2>2 DEF Fund
<1>8. CASE RereadFails \/ FundedInFull \/ FundedInPart \/ NotFunded
  <2>1. PICK r \in Runs : AfterFunding(r) /\ r.why = run.why /\ r.paused = run.paused
    BY <1>8, RereadEffect
  <2>2. QED
    BY <1>2, <2>1 DEF AfterFunding
<1>9. CASE SkipReplacement \/ ReplaceLadder
  BY <1>2, <1>9 DEF SkipReplacement, ReplaceLadder, CycleEnds
<1>10. CASE SubmitSends
  BY <1>2, <1>10 DEF SubmitSends
<1>11. CASE SubmitFails \/ PlacementFails
  <2>1. pc \in Working /\ pc \notin {"cancel", "cancelling"} /\ BulkFails
    BY <1>11 DEF SubmitFails, PlacementFails, Working
  <2>2. PICK r \in Runs, to \in {"fetch", "cancel"} :
          /\ CycleEnds(to, r)
          /\ \/ to = "fetch" /\ r.why = run.why /\ r.paused = run.paused
             \/ to = "cancel" /\ r.why = "circuit" /\ r.paused = TRUE
    BY <2>1, BulkFailsEffect
  <2>3. run' = r /\ pc' = to
    BY <2>2 DEF CycleEnds
  <2>4. QED
    BY <2>1, <2>2, <2>3 DEF PauseInv
<1>12. CASE PlacementSucceeds
  <2>1. run'.paused = run.paused /\ run'.why = run.why
    BY <1>0, <1>12 DEF PlacementSucceeds, CycleEnds, Runs
  <2>2. QED
    BY <1>2, <1>12, <2>1 DEF PlacementSucceeds, CycleEnds
<1>13. CASE LoopEnds
  BY <1>2, <1>13 DEF LoopEnds
<1>14. CASE Exit
  <2>1. CASE run.market
    <3>1. run'.paused = run.paused /\ pc = "exit" /\ pc' = "cancel"
      BY <1>0, <1>14, <2>1 DEF Exit, CycleEnds, Runs
    <3>2. run.paused = FALSE
      BY <1>0, <3>1 DEF PauseInv, Runs
    <3>3. QED
      BY <3>1, <3>2 DEF PauseInv
  <2>2. CASE ~run.market
    BY <1>1, <1>14, <2>2 DEF Exit
  <2>3. QED
    BY <2>1, <2>2
<1>15. CASE CancelSends
  BY <1>15 DEF CancelSends, PauseInv
<1>16. CASE CancelFails
  <2>1. CASE run.why = "stopLoss"
    <3>1. run' = run /\ pc' = "exit"
      BY <1>16, <2>1 DEF CancelFails, CycleEnds
    <3>2. run.paused = FALSE
      BY <1>0, <2>1 DEF PauseInv, Runs
    <3>3. QED
      BY <3>1, <3>2 DEF PauseInv
  <2>2. CASE run.why # "stopLoss"
    BY <1>1, <1>16, <2>2 DEF CancelFails
  <2>3. QED
    BY <2>1, <2>2
<1>17. CASE CancelSucceeds
  <2>1. CASE Sells
    <3>1. run' = run /\ pc' = "selling"
      BY <1>17, <2>1 DEF CancelSucceeds
    <3>2. run.paused = FALSE
      BY <1>0, <2>1 DEF PauseInv, Runs, Sells
    <3>3. QED
      BY <2>1, <3>1, <3>2 DEF PauseInv, Sells
  <2>2. CASE ~Sells
    BY <1>1, <1>17, <2>2 DEF CancelSucceeds
  <2>3. QED
    BY <2>1, <2>2
<1>18. CASE \E ok \in BOOLEAN : Sell(ok)
  <2>1. pc = "selling"
    BY <1>18 DEF Sell
  <2>2. (\E how : Down(how)) \/ CycleEnds("exit", run)
    BY <1>18 DEF Sell
  <2>3. run.paused = FALSE
    BY <1>0, <2>1 DEF PauseInv, Runs
  <2>4. CASE \E how : Down(how)
    BY <1>1, <2>4
  <2>5. CASE CycleEnds("exit", run)
    BY <2>3, <2>5 DEF CycleEnds, PauseInv
  <2>6. QED
    BY <2>2, <2>4, <2>5
<1>19. CASE Dies \/ ResizeDies
  BY <1>1, <1>19 DEF Dies, ResizeDies
<1>20. CASE Environment
  BY <1>20, EnvironmentFrame DEF PauseInv, Sells
<1>21. CASE UNCHANGED vars
  BY <1>21 DEF vars, processVars, PauseInv, Sells
<1>22. QED
  BY <1>3, <1>4, <1>5, <1>6, <1>7, <1>8, <1>9, <1>10, <1>11, <1>12, <1>13, <1>14, <1>15, <1>16,
     <1>17, <1>18, <1>19, <1>20, <1>21 DEF Next, Bot, Funding, Stopping

(* A pause on a range breakout or on too many failures never reaches the sale of the assets: *)
(* whether its cancel succeeds, fails or is not heard of, the process ends (run_cli,          *)
(* pause_live_spot_run).                                                                      *)
THEOREM RiskPauseNeverSells == Spec => []RiskPauseKeepsAssets
<1>1. Init => PauseInv
  BY LoadedType, NothingType DEF Init, PauseInv
<1>2. PauseInv => RiskPauseKeepsAssets
  BY DEF PauseInv, RiskPauseKeepsAssets
<1>3. QED
  BY <1>1, <1>2, TypeInvariant, PauseStep, PTL DEF Spec

-----------------------------------------------------------------------------
(* Off the book: a process that reports its ladder cancelled has waited for   *)
(* its own cancel, and nothing was in the mempool before that.               *)

Off == ladder = EmptyBook /\ pending = NoTx

OffInv ==
  /\ pc \notin {"confirm", "cancelling"} => reply = "none"
  /\ pc = "cancelling" /\ reply = "none" => pending.op = "cancel"
  /\ pc = "cancelling" /\ reply # "none" => pending = NoTx
  /\ pc = "cancelling" /\ reply = "ok" => Off
  /\ pc = "selling" => Off
  /\ pc = "down" /\ ended \in {"cancelled", "sold", "liquidated"} => Off

(* Without a ladder and a transaction the venue brings neither about. *)
LEMMA OffStays ==
  ASSUME TypeInv, Off, Environment
  PROVE  Off' /\ ~TxExecutes /\ ~TxDiscarded
<1>1. ~TxExecutes /\ ~TxDiscarded
  BY DEF Off, NoTx, TxExecutes, TxDiscarded, Execute, Discard
<1>2. ~Fill
  <2>1. SUFFICES ASSUME Fill
                 PROVE  FALSE
    OBVIOUS
  <2>2. BidFills \/ (\E proceeds \in {0, 1} : AskFills(proceeds))
    BY <2>1 DEF Fill
  <2>3. QED
    BY <2>2, FillEffect DEF TypeInv, Off
<1>3. Off'
  BY <1>1, <1>2 DEF Environment, Off, Market, MidMoves, StandaloneChanges, CtrlC, CooldownEnds, venueVars
<1>4. QED
  BY <1>1, <1>3

LEMMA OffStep ==
  ASSUME TypeInv, OffInv, [Next]_vars
  PROVE  OffInv'
<1>1. ASSUME NEW how, Down(how), how \in {"cancelled", "sold", "liquidated"} => Off'
      PROVE  OffInv'
  BY <1>1, DownEffect DEF OffInv
<1>2. ASSUME pc' \notin {"confirm", "cancelling", "selling", "down"}, reply' = "none"
      PROVE  OffInv'
  BY <1>2 DEF OffInv
<1>3. CASE Start \/ StopCli
  BY <1>2, <1>3 DEF Start, StopCli, OffInv
<1>4. CASE Fetching
  BY <1>2, <1>4 DEF Fetching, StopLoss, Cycle, Breakout, ExtendGrid, Fetched, OffInv
<1>5. CASE OrdersFail \/ OrdersRead
  BY <1>2, <1>5 DEF OrdersFail, OrdersRead, CycleEnds, OffInv
<1>6. CASE Fund
  BY <1>2, <1>6 DEF Fund, OffInv
<1>7. CASE RereadFails \/ FundedInFull \/ FundedInPart \/ NotFunded
  BY <1>2, <1>7 DEF RereadFails, FundedInFull, FundedInPart, NotFunded, Reread, AfterFunding, OffInv
<1>8. CASE SkipReplacement \/ ReplaceLadder
  BY <1>2, <1>8 DEF SkipReplacement, ReplaceLadder, CycleEnds, plannedFrame, OffInv
<1>9. CASE SubmitSends
  BY <1>9 DEF SubmitSends, OffInv
<1>10. CASE SubmitFails \/ PlacementFails \/ PlacementSucceeds
  BY <1>2, <1>10 DEF SubmitFails, PlacementFails, PlacementSucceeds, BulkFails, CycleEnds
<1>11. CASE LoopEnds
  BY <1>2, <1>11 DEF LoopEnds, OffInv
<1>12. CASE Exit
  BY <1>1, <1>2, <1>12 DEF Exit, CycleEnds, OffInv
<1>13. CASE CancelSends
  <2>1. pc = "cancel" /\ pc' = "cancelling" /\ reply' = reply /\ pending'.op = "cancel"
    BY <1>13 DEF CancelSends, Admit
  <2>2. QED
    BY <2>1 DEF OffInv
<1>14. CASE CancelFails
  BY <1>1, <1>2, <1>14 DEF CancelFails, CycleEnds
<1>15. CASE CancelSucceeds
  <2>1. Off /\ UNCHANGED venueVars
    BY <1>15 DEF CancelSucceeds, OffInv
  <2>2. Off'
    BY <2>1 DEF Off, venueVars
  <2>3. CASE Sells
    <3>1. pc' = "selling" /\ reply' = "none"
      BY <1>15, <2>3 DEF CancelSucceeds
    <3>2. QED
      BY <2>2, <3>1 DEF OffInv
  <2>4. CASE ~Sells
    BY <1>1, <1>15, <2>2, <2>4 DEF CancelSucceeds
  <2>5. QED
    BY <2>3, <2>4
<1>16. CASE \E ok \in BOOLEAN : Sell(ok)
  <2>1. pc = "selling" /\ ladder' = ladder /\ pending' = pending
    BY <1>16, SellEffect DEF Sell
  <2>2. Off' /\ reply = "none"
    BY <2>1 DEF OffInv, Off
  <2>3. (\E how : Down(how)) \/ (CycleEnds("exit", run) /\ reply' = reply)
    BY <1>16 DEF Sell
  <2>4. CASE \E how : Down(how)
    BY <1>1, <2>2, <2>4
  <2>5. CASE CycleEnds("exit", run) /\ reply' = reply
    BY <1>2, <2>2, <2>5 DEF CycleEnds
  <2>6. QED
    BY <2>3, <2>4, <2>5
<1>17. CASE Dies \/ ResizeDies
  BY <1>1, <1>17 DEF Dies, ResizeDies
<1>18. CASE Environment
  <2>1. pc' = pc /\ ended' = ended
    BY <1>18, EnvironmentFrame
  <2>2. Off => Off' /\ ~TxExecutes /\ ~TxDiscarded
    BY <1>18, OffStays
  <2>3. CASE TxExecutes
    <3>1. ~Off /\ pending # NoTx /\ pending' = NoTx
      BY <2>2, <2>3 DEF TxExecutes, Execute, NoTx
    <3>2. /\ pc \notin {"confirm", "cancelling"} => reply' = reply
          /\ pc \in {"confirm", "cancelling"} => reply' = "ok"
      BY <2>3 DEF TxExecutes, Learns
    <3>3. pc = "cancelling" => Off'
      <4>1. SUFFICES ASSUME pc = "cancelling"
                     PROVE  Off'
        OBVIOUS
      <4>2. pending.op = "cancel"
        BY <3>1, <4>1 DEF OffInv
      <4>3. ladder' = EmptyBook
        BY <2>3, <4>2 DEF TxExecutes, Execute, Replace
      <4>4. QED
        BY <3>1, <4>3 DEF Off
    <3>4. QED
      BY <2>1, <3>1, <3>2, <3>3 DEF OffInv
  <2>4. CASE TxDiscarded
    <3>1. ~Off /\ pending # NoTx /\ pending' = NoTx
      BY <2>2, <2>4 DEF TxDiscarded, Discard
    <3>2. /\ pc \notin {"confirm", "cancelling"} => reply' = reply
          /\ pc \in {"confirm", "cancelling"} => reply' = "err"
      BY <2>4 DEF TxDiscarded, Learns
    <3>3. QED
      BY <2>1, <3>1, <3>2 DEF OffInv
  <2>5. CASE Fill \/ Market \/ CtrlC \/ CooldownEnds
    <3>1. reply' = reply
      BY <2>5 DEF Fill, Market, CtrlC, CooldownEnds, processVars
    <3>2. pending' = pending
      BY <2>5 DEF Fill, BidFills, AskFills, Market, MidMoves, StandaloneChanges, CtrlC, CooldownEnds,
                  venueVars
    <3>3. QED
      BY <2>1, <2>2, <3>1, <3>2 DEF OffInv
  <2>6. QED
    BY <1>18, <2>3, <2>4, <2>5 DEF Environment
<1>19. CASE UNCHANGED vars
  BY <1>19 DEF vars, venueVars, processVars, historyVars, OffInv, Off
<1>20. QED
  BY <1>3, <1>4, <1>5, <1>6, <1>7, <1>8, <1>9, <1>10, <1>11, <1>12, <1>13, <1>14, <1>15, <1>16,
     <1>17, <1>18, <1>19 DEF Next, Bot, Funding, Stopping

(* While the assets are sold, and after a process that said its ladder is cancelled, nothing  *)
(* rests and nothing is on its way, not even a placement that an earlier process sent         *)
(* (cancel_bulk_ladder, exit_sell_assets).                                                    *)
THEOREM StoppedIsOffTheBook == Spec => []OffTheBookWhenStopped
<1>1. Init => OffInv
  BY DEF Init, OffInv
<1>2. OffInv => OffTheBookWhenStopped
  BY DEF OffInv, Off, NoTx, OffTheBookWhenStopped
<1>3. QED
  BY <1>1, <1>2, TypeInvariant, OffStep, PTL DEF Spec

-----------------------------------------------------------------------------
(* The saved geometry.  Crashes may fall between the save of the plan, the    *)
(* placement of its ladder and the ladder's arrival: that the ladder lies in  *)
(* the range a restart restores needs that a placement is only sent for the   *)
(* plan that was just saved, and that no later plan has another range.        *)

PlacedInv ==
  /\ PlanIsKept /\ saved.pinned = NoPlan => ladder = EmptyBook /\ pending.book = EmptyBook
  /\ pending.op # "place" => pending.book = EmptyBook

PinnedInv ==
  /\ PlanIsKept /\ saved.pinned # NoPlan /\ pc \in Looping => SameGrid(saved.pinned, run.pinned)
  /\ pc = "submit" => saved.pinned = run.pinned
  /\ PlacedInv
  /\ LadderInSavedRange

LEMMA SameGridReflexive ==
  ASSUME NEW plan \in Plans
  PROVE  SameGrid(plan, plan)
<1>1. \A p \in Prices : plan.asks[p] \in Int
  BY PlanSizes, Bounded
<1>2. QED
  BY <1>1 DEF SameGrid

LEMMA SameGridTransitive ==
  ASSUME NEW a \in Plans, NEW b \in Plans, NEW c \in Plans, SameGrid(a, b), SameGrid(b, c)
  PROVE  SameGrid(a, c)
<1>1. ASSUME NEW p \in Prices
      PROVE  c.asks[p] <= a.asks[p]
  <2>1. a.asks[p] \in Int /\ b.asks[p] \in Int /\ c.asks[p] \in Int
    BY PlanSizes, Bounded
  <2>2. b.asks[p] <= a.asks[p] /\ c.asks[p] <= b.asks[p]
    BY DEF SameGrid
  <2>3. QED
    BY <2>1, <2>2
<1>2. QED
  BY <1>1 DEF SameGrid

(* Books inside a range: none, a smaller one, and the projection of a plan on a price. *)
LEMMA InsideRange ==
  ASSUME NEW plan
  PROVE  /\ Inside(EmptyBook, plan)
         /\ \A old, book \in Books : Inside(old, plan) /\ NoLarger(book, old) => Inside(book, plan)
         /\ \A new : Inside(EmptyBook, new)
         /\ \A new, book : Inside(book, plan) /\ new.lower = plan.lower /\ new.upper = plan.upper
                            => Inside(book, new)
<1>1. \A new : Inside(EmptyBook, new)
  BY DEF Inside, EmptyBook, Nothing
<1>2. ASSUME NEW old \in Books, NEW book \in Books, Inside(old, plan), NoLarger(book, old)
      PROVE  Inside(book, plan)
  <2>1. ASSUME NEW p \in Prices, book.bids[p] + book.asks[p] > 0
        PROVE  old.bids[p] + old.asks[p] > 0
    <3>1. /\ book.bids[p] \in Int /\ book.asks[p] \in Int
          /\ old.bids[p] \in Int /\ old.asks[p] \in Int
      BY Bounded DEF Books, Side
    <3>2. book.bids[p] <= old.bids[p] /\ book.asks[p] <= old.asks[p]
      BY <1>2 DEF NoLarger
    <3>3. QED
      BY <2>1, <3>1, <3>2
  <2>2. QED
    BY <1>2, <2>1 DEF Inside
<1>3. \A new, book : Inside(book, plan) /\ new.lower = plan.lower /\ new.upper = plan.upper
                      => Inside(book, new)
  BY DEF Inside
<1>4. QED
  BY <1>1, <1>2, <1>3

LEMMA DesiredInside ==
  ASSUME TypeInv, pc \in Working
  PROVE  Inside(Desired, run.pinned)
<1>1. run.pinned \in Plans /\ Grid(run.pinned) /\ snap.mid \in Prices
  BY DEF TypeInv, ProcessType, GridInv, Runs, Snaps
<1>2. ASSUME NEW p \in Prices, Desired.bids[p] + Desired.asks[p] > 0
      PROVE  run.pinned.lower <= p /\ p <= run.pinned.upper
  <2>1. SizeAt(run.pinned, p) \in Nat
        /\ (SizeAt(run.pinned, p) > 0 => run.pinned.lower <= p /\ p <= run.pinned.upper)
    BY <1>1, GridSizes, Bounded
  <2>2. /\ Desired.bids[p] = (IF p < snap.mid THEN SizeAt(run.pinned, p) ELSE 0)
        /\ Desired.asks[p] = (IF p > snap.mid THEN SizeAt(run.pinned, p) ELSE 0)
    BY <1>1, ProjectBook DEF Desired
  <2>3. p \in Int /\ snap.mid \in Int
    BY <1>1, PricesAreInts
  <2>4. QED
    BY <1>2, <2>1, <2>2, <2>3
<1>3. QED
  BY <1>2 DEF Inside

(* The saved plan of a run that keeps it changes only within its geometry. *)
LEMMA SavedKeepsGrid ==
  ASSUME TypeInv, PinnedInv, [Next]_vars, saved.pinned # NoPlan, PlanIsKept
  PROVE  SameGrid(saved.pinned, saved'.pinned)
<1>1. CASE saved'.pinned = saved.pinned
  BY <1>1, SameGridReflexive DEF TypeInv, StateType, SavedStates
<1>2. CASE pc = "plan" /\ saved' = Runtime
  BY <1>2 DEF PinnedInv, Runtime, Looping, Working
<1>3. QED
  BY <1>1, <1>2, SavedEffect DEF PlanIsKept

LEMMA PlacedStep ==
  ASSUME TypeInv, PlacedInv, pc = "submit" => saved.pinned = run.pinned, [Next]_vars
  PROVE  PlacedInv'
<1>0. TypeInv' /\ pending.op # "place" => pending.book = EmptyBook
  BY StepType DEF PlacedInv
<1>1. pending'.op # "place" => pending'.book = EmptyBook
  BY VenueEffect DEF PlacedInv, NoTx
<1>2. ASSUME PlanIsKept', saved'.pinned = NoPlan
      PROVE  ladder' = EmptyBook /\ pending'.book = EmptyBook
  <2>0. PlanIsKept
    BY <1>2, SavedEffect DEF PlanIsKept
  <2>1. saved.pinned = NoPlan /\ pc \notin {"submit"}
    <3>1. CASE saved'.pinned = saved.pinned
      <4>1. pc = "submit" => Grid(run.pinned)
        BY DEF TypeInv, GridInv, Working
      <4>2. QED
        BY <1>2, <3>1, <4>1, NothingType
    <3>2. CASE pc = "plan" /\ saved' = Runtime
      <4>1. Grid(run.pinned) /\ saved'.pinned = run.pinned
        BY <3>2 DEF TypeInv, GridInv, Working, Runtime
      <4>2. QED
        BY <1>2, <4>1, NothingType
    <3>3. QED
      BY <2>0, <3>1, <3>2, SavedEffect DEF PlanIsKept
  <2>2. ladder = EmptyBook /\ pending.book = EmptyBook
    BY <2>0, <2>1 DEF PlacedInv
  <2>3. ladder' = EmptyBook
    <3>1. ASSUME NoLarger(ladder', EmptyBook)
          PROVE  ladder' = EmptyBook
      <4>1. ladder' \in Books
        BY StepType DEF TypeInv, VenueType
      <4>2. ASSUME NEW p \in Prices
            PROVE  ladder'.bids[p] = 0 /\ ladder'.asks[p] = 0
        <5>1. ladder'.bids[p] \in Nat /\ ladder'.asks[p] \in Nat
          BY <4>1, Bounded DEF Books, Side
        <5>2. EmptyBook.bids[p] = 0 /\ EmptyBook.asks[p] = 0
          BY DEF EmptyBook, Nothing
        <5>3. ladder'.bids[p] <= EmptyBook.bids[p] /\ ladder'.asks[p] <= EmptyBook.asks[p]
          BY <3>1 DEF NoLarger
        <5>4. QED
          BY <5>1, <5>2, <5>3
      <4>3. ladder'.bids = Nothing /\ ladder'.asks = Nothing
        BY <4>1, <4>2 DEF Books, Side, Nothing
      <4>4. QED
        BY <4>1, <4>3 DEF Books, EmptyBook
    <3>2. QED
      BY <2>2, <3>1, VenueEffect
  <2>4. pending'.book = EmptyBook
    BY <2>1, <2>2, VenueEffect DEF NoTx
  <2>5. QED
    BY <2>3, <2>4
<1>3. QED
  BY <1>1, <1>2 DEF PlacedInv

LEMMA PinnedStep ==
  ASSUME TypeInv, PinnedInv, [Next]_vars
  PROVE  PinnedInv'
<1>0. TypeInv'
  BY StepType
<1>1. PlacedInv'
  BY PlacedStep DEF PinnedInv
<1>2. ASSUME PlanIsKept', saved'.pinned # NoPlan, pc' \in Looping
      PROVE  SameGrid(saved'.pinned, run'.pinned)
  <2>0. PlanIsKept
    BY <1>2, SavedEffect DEF PlanIsKept
  <2>1. saved.pinned \in Plans /\ run.pinned \in Plans /\ run'.pinned \in Plans
    BY <1>0 DEF TypeInv, ProcessType, StateType, SavedStates, Runs
  <2>2. CASE pc = "plan" /\ saved' = Runtime
    <3>1. run'.pinned = run.pinned
      BY <1>2, <2>2, LoopEffect
    <3>2. QED
      BY <2>1, <2>2, <3>1, SameGridReflexive DEF Runtime
  <2>3. CASE saved'.pinned = saved.pinned
    <3>1. CASE pc = "down" /\ run' = Loaded(saved')
      <4>1. run'.pinned = saved'.pinned
        BY <1>0, <3>1, LoadedType DEF TypeInv, StateType
      <4>2. QED
        BY <2>1, <2>3, <4>1, SameGridReflexive
    <3>2. CASE pc = "fetch" /\ run'.pinned = Pin
      <4>1. SameGrid(saved.pinned, run.pinned) /\ Grid(saved.pinned)
        BY <1>2, <2>0, <2>3, <3>2 DEF PinnedInv, Looping, TypeInv, GridInv
      <4>2. run.pinned # NoPlan
        BY <4>1 DEF SameGrid, Grid, NoPlan
      <4>3. Pin = run.pinned
        BY <4>2, PinnedGrid
      <4>4. QED
        BY <2>3, <3>2, <4>1, <4>3
    <3>3. CASE pc = "reread" /\ SameGrid(run.pinned, run'.pinned)
      <4>1. SameGrid(saved.pinned, run.pinned)
        BY <1>2, <2>0, <2>3, <3>3 DEF PinnedInv, Looping, Working
      <4>2. QED
        BY <2>1, <2>3, <3>3, <4>1, SameGridTransitive
    <3>4. CASE pc \in Looping /\ run'.pinned = run.pinned
      BY <1>2, <2>0, <2>3, <3>4 DEF PinnedInv
    <3>5. QED
      BY <1>2, <2>0, <3>1, <3>2, <3>3, <3>4, LoopEffect DEF PlanIsKept
  <2>4. QED
    BY <2>0, <2>2, <2>3, SavedEffect DEF PlanIsKept
<1>3. ASSUME pc' = "submit"
      PROVE  saved'.pinned = run'.pinned
  <2>1. CASE ReplaceLadder
    BY <2>1 DEF ReplaceLadder, Runtime
  <2>2. CASE Environment
    BY <1>3, <2>2, EnvironmentFrame DEF PinnedInv
  <2>3. CASE UNCHANGED vars
    BY <1>3, <2>3 DEF vars, processVars, PinnedInv
  <2>4. CASE Start \/ StopCli \/ Fetching \/ OrdersFail \/ OrdersRead \/ Funding
    BY <1>3, <2>4 DEF Start, StopCli, Fetching, StopLoss, Cycle, Breakout, ExtendGrid, Fetched,
         OrdersFail, OrdersRead, Funding, Fund, RereadFails, FundedInFull, FundedInPart, NotFunded,
         Reread, AfterFunding, ResizeDies, Down, CycleEnds
  <2>5. CASE SkipReplacement \/ SubmitSends \/ SubmitFails \/ PlacementFails \/ PlacementSucceeds
    BY <1>3, <2>5 DEF SkipReplacement, SubmitSends, SubmitFails, PlacementFails, PlacementSucceeds,
         BulkFails, CycleEnds
  <2>6. CASE Stopping \/ Dies
    BY <1>3, <2>6 DEF Stopping, LoopEnds, Exit, CancelSends, CancelFails, CancelSucceeds, Sell, Dies,
         Down, CycleEnds
  <2>7. QED
    BY <2>1, <2>2, <2>3, <2>4, <2>5, <2>6 DEF Next, Bot
<1>4. ASSUME PlanIsKept'
      PROVE  Inside(ladder', saved'.pinned) /\ Inside(pending'.book, saved'.pinned)
  <2>0. PlanIsKept
    BY <1>4, SavedEffect DEF PlanIsKept
  <2>1. ladder \in Books /\ ladder' \in Books /\ pending.book \in Books
    BY <1>0 DEF TypeInv, VenueType, Transactions
  <2>2. Inside(ladder, saved.pinned) /\ Inside(pending.book, saved.pinned)
    BY <2>0 DEF PinnedInv, LadderInSavedRange
  <2>3. Inside(ladder', saved.pinned)
    BY <2>1, <2>2, VenueEffect, InsideRange
  <2>4. Inside(pending'.book, saved.pinned)
    <3>1. pc = "submit" => Inside(Desired, saved.pinned)
      BY DesiredInside DEF PinnedInv, Working
    <3>2. Inside(EmptyBook, saved.pinned) /\ NoTx.book = EmptyBook
      BY InsideRange DEF NoTx
    <3>3. QED
      BY <2>2, <3>1, <3>2, VenueEffect
  <2>5. CASE saved.pinned = NoPlan /\ saved'.pinned # NoPlan
    <3>1. pc = "plan" /\ UNCHANGED venueVars
      BY <2>0, <2>5, SavedEffect DEF PlanIsKept
    <3>2. ladder' = EmptyBook /\ pending'.book = EmptyBook
      BY <2>0, <2>5, <3>1 DEF PinnedInv, PlacedInv, venueVars
    <3>3. QED
      BY <3>2, InsideRange
  <2>6. CASE saved'.pinned = saved.pinned
    BY <2>3, <2>4, <2>6
  <2>7. CASE saved.pinned # NoPlan
    <3>1. SameGrid(saved.pinned, saved'.pinned)
      BY <2>0, <2>7, SavedKeepsGrid
    <3>2. saved'.pinned.lower = saved.pinned.lower /\ saved'.pinned.upper = saved.pinned.upper
      BY <3>1 DEF SameGrid
    <3>3. QED
      BY <2>3, <2>4, <3>2, InsideRange
  <2>8. QED
    BY <2>5, <2>6, <2>7
<1>5. LadderInSavedRange'
  BY <1>4 DEF LadderInSavedRange
<1>6. QED
  BY <1>1, <1>2, <1>3, <1>5 DEF PinnedInv

LEMMA PinnedInvariant == Spec => [](TypeInv /\ PinnedInv)
<1>1. Init => PinnedInv
  <2>1. SUFFICES ASSUME Init
                 PROVE  PinnedInv
    OBVIOUS
  <2>2. ladder = EmptyBook /\ pending.book = EmptyBook /\ pc = "down"
    BY <2>1 DEF Init, VenueInit, NoTx
  <2>3. QED
    BY <2>2, InsideRange DEF PinnedInv, PlacedInv, LadderInSavedRange, Looping, Working
<1>2. QED
  BY <1>1, TypeInvariant, PinnedStep, PTL DEF Spec

(* Whatever crashes, restarts or arrives late: no level of a run that keeps its plan (the grid *)
(* is not extended, every process has the same configuration and fee tier) rests or is on its  *)
(* way outside the range that a restart would restore (run_cli saves the state before          *)
(* execute_bulk_grid).                                                                         *)
THEOREM LadderStaysInRange == Spec => []LadderInSavedRange
<1>1. TypeInv /\ PinnedInv => LadderInSavedRange
  BY DEF PinnedInv
<1>2. QED
  BY <1>1, PinnedInvariant, PTL

(* In a run that keeps its plan no step moves the boundaries or the bids of a saved grid, and  *)
(* none enlarges an ask: not a new snapshot, not a restart, not a funding that came short      *)
(* (run_cli: "must never move the configured boundaries or regenerate prices").                *)
THEOREM GeometryIsPinned == Spec => GeometryNeverMoves
<1> DEFINE Keeps ==
      saved.pinned # NoPlan /\ PlanIsKept =>
        /\ saved'.pinned.lower = saved.pinned.lower /\ saved'.pinned.upper = saved.pinned.upper
        /\ saved'.pinned.bids = saved.pinned.bids
        /\ \A p \in Prices : saved'.pinned.asks[p] <= saved.pinned.asks[p]
<1>1. TypeInv /\ PinnedInv /\ [Next]_vars => [Keeps]_vars
  BY SavedKeepsGrid DEF SameGrid
<1>2. QED
  BY <1>1, PinnedInvariant, PTL DEF Spec, GeometryNeverMoves

-----------------------------------------------------------------------------
(* A grid that is extended reaches the price: the configured bounds and the   *)
(* pinned ones move together, in a first process at least.                    *)

ExtendInv ==
  /\ starts = 0 => pc = "down" /\ saved.pinned = NoPlan
  /\ starts <= 1 /\ cfg.kind = "bounds" /\ run.pinned # NoPlan /\ pc \in Looping =>
       run.pinned.lower = run.range.lower /\ run.pinned.upper = run.range.upper
  /\ ExtensionReachesPrice

LEMMA StartsEffect ==
  ASSUME TypeInv, [Next]_vars
  PROVE  \/ starts' = starts + 1
         \/ starts' = starts /\ (pc = "down" => pc' = "down")
<1>1. CASE Start \/ StopCli
  BY <1>1 DEF Start, StopCli
<1>2. CASE Fetching
  BY <1>2 DEF Fetching, StopLoss, Cycle, Breakout, ExtendGrid, Fetched, loopFrame, historyVars
<1>3. CASE OrdersFail \/ OrdersRead
  BY <1>3 DEF OrdersFail, OrdersRead, loopFrame, historyVars
<1>4. CASE Funding
  BY <1>4 DEF Funding, Fund, RereadFails, FundedInFull, FundedInPart, NotFunded, Reread, AfterFunding,
              ResizeDies, Down, loopFrame, historyVars
<1>5. CASE SkipReplacement \/ ReplaceLadder
  BY <1>5 DEF SkipReplacement, ReplaceLadder, plannedFrame, historyVars
<1>6. CASE SubmitSends \/ SubmitFails \/ PlacementFails \/ PlacementSucceeds
  BY <1>6 DEF SubmitSends, SubmitFails, PlacementFails, PlacementSucceeds, BulkFails, bulkFrame,
              historyVars
<1>7. CASE Stopping
  BY <1>7 DEF Stopping, LoopEnds, Exit, CancelSends, CancelFails, CancelSucceeds, Sell, Down,
              loopFrame, historyVars
<1>8. CASE Dies
  BY <1>8 DEF Dies, Down
<1>9. CASE Environment
  BY <1>9, EnvironmentFrame
<1>10. CASE UNCHANGED vars
  BY <1>10 DEF vars, processVars, historyVars
<1>11. QED
  BY <1>1, <1>2, <1>3, <1>4, <1>5, <1>6, <1>7, <1>8, <1>9, <1>10 DEF Next, Bot

(* The bounds that are shifted for a price contain it. *)
LEMMA ShiftedReaches ==
  ASSUME TypeInv, ~InRange, cfg.kind = "bounds",
         Pin.lower = run.range.lower, Pin.upper = run.range.upper
  PROVE  Shifted.lower <= mid /\ mid <= Shifted.upper
<1>1. mid \in Int /\ run.range.lower \in Int /\ run.range.upper \in Int
      /\ run.range.lower < run.range.upper
  BY PricesAreInts DEF TypeInv, VenueType, ProcessType, GridInv, Runs, Ranges
<1>2. CASE mid < Pin.lower
  <2>1. Shifted = [lower |-> run.range.lower + (mid - Pin.lower),
                   upper |-> run.range.upper + (mid - Pin.lower)]
    BY <1>2 DEF Shifted
  <2>2. QED
    BY <1>1, <2>1
<1>3. CASE ~(mid < Pin.lower)
  <2>1. Shifted = [lower |-> run.range.lower + (mid - Pin.upper),
                   upper |-> run.range.upper + (mid - Pin.upper)]
    BY <1>3 DEF Shifted
  <2>2. mid > Pin.upper
    BY <1>1, <1>3 DEF InRange
  <2>3. QED
    BY <1>1, <2>1, <2>2
<1>4. QED
  BY <1>2, <1>3

LEMMA ExtendStep ==
  ASSUME TypeInv, ExtendInv, [Next]_vars
  PROVE  ExtendInv'
<1>0. TypeInv' /\ starts \in Nat /\ cfg' = cfg
  BY StepType, SavedEffect DEF TypeInv, StateType
<1>1. ASSUME starts' = 0
      PROVE  pc' = "down" /\ saved'.pinned = NoPlan
  <2>1. starts = 0 /\ pc' = "down"
    BY <1>0, <1>1, StartsEffect DEF ExtendInv
  <2>2. QED
    BY <2>1, SavedEffect DEF ExtendInv
<1>2. ASSUME starts' <= 1, pc = "fetch", pc' = "orders", starts' = starts, cfg.kind = "bounds"
      PROVE  Pin.lower = run.range.lower /\ Pin.upper = run.range.upper
  <2>1. CASE run.pinned # NoPlan
    BY <1>2, <2>1, PinnedGrid DEF ExtendInv, Looping
  <2>2. CASE run.pinned = NoPlan
    BY <1>2, <2>2, PinnedGrid DEF ResolveRange
  <2>3. QED
    BY <2>1, <2>2
<1>3. ASSUME starts' <= 1, cfg'.kind = "bounds", run'.pinned # NoPlan, pc' \in Looping
      PROVE  run'.pinned.lower = run'.range.lower /\ run'.pinned.upper = run'.range.upper
  <2>1. CASE /\ pc = "down" /\ run' = Loaded(saved') /\ starts' = starts + 1
             /\ saved' = saved \/ saved' = NoState
    <3>1. starts = 0
      BY <1>0, <1>3, <2>1
    <3>2. saved'.pinned = NoPlan
      BY <2>1, <3>1 DEF ExtendInv, NoState
    <3>3. run'.pinned = NoPlan
      BY <1>0, <2>1, <3>2, LoadedType DEF TypeInv, StateType
    <3>4. QED
      BY <1>3, <3>3
  <2>2. CASE pc = "fetch" /\ pc' = "orders" /\ run'.pinned = Pin /\ run'.range = run.range
             /\ starts' = starts
    BY <1>0, <1>2, <1>3, <2>2
  <2>3. CASE run'.pinned = ExtendedPlan /\ run'.range = ExtendedRange
    BY <1>0, <1>3, <2>3, ExtendedGrid DEF ResolveRange
  <2>4. CASE pc = "reread" /\ SameGrid(run.pinned, run'.pinned) /\ run'.range = run.range
             /\ starts' = starts
    <3>1. run.pinned # NoPlan
      BY <2>4, NothingType DEF TypeInv, GridInv, Working
    <3>2. QED
      BY <1>0, <1>3, <2>4, <3>1 DEF ExtendInv, Looping, Working, SameGrid
  <2>5. CASE pc \in Looping /\ run'.pinned = run.pinned /\ run'.range = run.range /\ starts' = starts
    BY <1>0, <1>3, <2>5 DEF ExtendInv
  <2>6. QED
    BY <1>3, <2>1, <2>2, <2>3, <2>4, <2>5, LoopEffect
<1>4. ASSUME starts' <= 1, pc' = "orders"
      PROVE  run'.pinned.lower <= snap'.mid /\ snap'.mid <= run'.pinned.upper
  <2>0. pc' \in Looping
    BY <1>4 DEF Looping, Working
  <2>1. CASE run'.pinned = Pin /\ InRange /\ snap' = Snapshot
    BY <2>1 DEF InRange, Snapshot
  <2>2. CASE pc = "fetch" /\ run'.pinned = ExtendedPlan /\ ~InRange /\ snap' = Snapshot
             /\ starts' = starts
    <3>1. mid \in Prices /\ snap'.mid = mid
      BY <2>2 DEF Snapshot, TypeInv, VenueType
    <3>2. CASE cfg.kind = "bounds"
      <4>1. Shifted.lower <= mid /\ mid <= Shifted.upper
        BY <1>2, <1>4, <2>2, <3>2, ShiftedReaches
      <4>2. run'.pinned.lower = Shifted.lower /\ run'.pinned.upper = Shifted.upper
        BY <2>2, <3>2, ExtendedGrid DEF ExtendedRange, ResolveRange
      <4>3. QED
        BY <3>1, <4>1, <4>2
    <3>3. CASE cfg.kind # "bounds"
      BY <2>2, <3>1, <3>3, ExtendedGrid, ResolvedRange
    <3>4. QED
      BY <3>2, <3>3
  <2>3. CASE pc = "orders" /\ snap' = snap /\ run'.pinned = run.pinned /\ starts' = starts
    BY <1>4, <2>3 DEF ExtendInv, ExtensionReachesPrice
  <2>4. QED
    BY <1>4, <2>0, <2>1, <2>2, <2>3, LoopEffect
<1>5. ExtensionReachesPrice'
  BY <1>4 DEF ExtensionReachesPrice
<1>6. QED
  BY <1>1, <1>3, <1>5 DEF ExtendInv

(* The cycle that follows a snapshot works on a grid that contains the price of the snapshot, *)
(* however often the grid was extended for it (run_cli, RangeBreakoutAction::ExtendGrid).      *)
THEOREM ExtensionReaches == Spec => []ExtensionReachesPrice
<1>1. Init => ExtendInv
  <2>1. SUFFICES ASSUME Init
                 PROVE  ExtendInv
    OBVIOUS
  <2>2. pc = "down" /\ starts = 0
    BY <2>1 DEF Init
  <2>3. saved.pinned = NoPlan
    BY <2>1 DEF Init, NoState
  <2>4. QED
    BY <2>2, <2>3 DEF ExtendInv, ExtensionReachesPrice, Looping, Working
<1>2. ExtendInv => ExtensionReachesPrice
  BY DEF ExtendInv
<1>3. QED
  BY <1>1, <1>2, TypeInvariant, ExtendStep, PTL DEF Spec

-----------------------------------------------------------------------------
(* The startup funding.  While it looks at the ladder and buys, bids may      *)
(* fill, so what bounds the purchase is not the balance it read but that      *)
(* balance together with the bids that rest; these are levels of the same     *)
(* grid below the price, disjoint from the asks that the funding pays for.    *)

Fits(book, plan) == \A p \in Prices : book.bids[p] <= SizeAt(plan, p)

FitsInv ==
  /\ \A p \in Prices : ladder.bids[p] > 0 => p <= mid
  /\ PlanIsKept =>
       /\ ~saved.funded /\ saved.pinned # NoPlan =>
            Fits(ladder, saved.pinned) /\ Fits(pending.book, saved.pinned)
       /\ ~run.funded /\ run.pinned # NoPlan /\ pc \in Looping =>
            Fits(ladder, run.pinned) /\ Fits(pending.book, run.pinned)

(* Books that fit a plan. *)
LEMMA FittingBooks ==
  ASSUME NEW plan \in Plans, Grid(plan)
  PROVE  /\ Fits(EmptyBook, plan)
         /\ \A m \in Prices : Fits(Project(plan, m), plan)
         /\ \A old, book \in Books : Fits(old, plan) /\ NoLarger(book, old) => Fits(book, plan)
<1>1. ASSUME NEW p \in Prices
      PROVE  SizeAt(plan, p) \in Nat
  BY GridSizes, Bounded
<1>2. Fits(EmptyBook, plan)
  BY <1>1 DEF Fits, EmptyBook, Nothing
<1>3. ASSUME NEW m \in Prices
      PROVE  Fits(Project(plan, m), plan)
  <2>1. ASSUME NEW p \in Prices
        PROVE  Project(plan, m).bids[p] <= SizeAt(plan, p)
    BY <1>1, ProjectBook
  <2>2. QED
    BY <2>1 DEF Fits
<1>4. ASSUME NEW old \in Books, NEW book \in Books, Fits(old, plan), NoLarger(book, old)
      PROVE  Fits(book, plan)
  <2>1. ASSUME NEW p \in Prices
        PROVE  book.bids[p] <= SizeAt(plan, p)
    <3>1. book.bids[p] \in Int /\ old.bids[p] \in Int
      BY Bounded DEF Books, Side
    <3>2. book.bids[p] <= old.bids[p] /\ old.bids[p] <= SizeAt(plan, p)
      BY <1>4 DEF NoLarger, Fits
    <3>3. QED
      BY <1>1, <3>1, <3>2
  <2>2. QED
    BY <2>1 DEF Fits
<1>5. QED
  BY <1>2, <1>3, <1>4

(* What the venue does to a ladder and a transaction that fit a plan. *)
LEMMA VenueFits ==
  ASSUME TypeInv, [Next]_vars, NEW plan \in Plans, Grid(plan),
         Fits(ladder, plan), Fits(pending.book, plan),
         pc = "submit" => run.pinned = plan
  PROVE  Fits(ladder', plan) /\ Fits(pending'.book, plan)
<1>1. ladder \in Books /\ ladder' \in Books
  BY StepType DEF TypeInv, VenueType
<1>2. NoLarger(ladder', ladder) => Fits(ladder', plan)
  BY <1>1, FittingBooks
<1>3. Fits(EmptyBook, plan)
  BY FittingBooks
<1>4. pc = "submit" => Fits(Desired, plan)
  <2>1. snap.mid \in Prices
    BY DEF TypeInv, ProcessType, Snaps
  <2>2. QED
    BY <2>1, FittingBooks DEF Desired
<1>5. Fits(ladder', plan)
  BY <1>2, <1>3, VenueEffect
<1>6. NoTx.book = EmptyBook
  BY DEF NoTx
<1>7. Fits(pending'.book, plan)
  BY <1>3, <1>4, <1>6, VenueEffect
<1>8. QED
  BY <1>5, <1>7

LEMMA FitsStep ==
  ASSUME TypeInv, PinnedInv, FitsInv, [Next]_vars
  PROVE  FitsInv'
<1>0. TypeInv' /\ cfg' = cfg /\ (PlanIsKept' <=> PlanIsKept)
  BY StepType, SavedEffect DEF PlanIsKept
<1>1. ASSUME NEW p \in Prices, ladder'.bids[p] > 0
      PROVE  p <= mid'
  <2>1. mid \in Int /\ mid' \in Int /\ p \in Int
    BY <1>0, PricesAreInts DEF TypeInv, VenueType
  <2>2. CASE ladder' = ladder /\ \A q \in Prices : q > mid' => ladder.bids[q] = 0
    BY <1>1, <2>1, <2>2
  <2>3. CASE mid' = mid
    <3>1. CASE NoLarger(ladder', ladder)
      <4>1. ladder.bids[p] \in Int /\ ladder'.bids[p] \in Int
        BY <1>0, Bounded DEF TypeInv, VenueType, Books, Side
      <4>2. ladder'.bids[p] <= ladder.bids[p]
        BY <3>1 DEF NoLarger
      <4>3. QED
        BY <1>1, <2>3, <4>1, <4>2 DEF FitsInv
    <3>2. CASE ladder' = pending.book /\ ~Crosses(pending.book)
      BY <1>1, <2>1, <2>3, <3>2 DEF Crosses
    <3>3. CASE ladder' = EmptyBook
      BY <1>1, <3>3 DEF EmptyBook, Nothing
    <3>4. QED
      BY <3>1, <3>2, <3>3, VenueEffect
  <2>4. QED
    BY <2>2, <2>3, VenueEffect
<1>2. ASSUME PlanIsKept, ~saved'.funded, saved'.pinned # NoPlan
      PROVE  Fits(ladder', saved'.pinned) /\ Fits(pending'.book, saved'.pinned)
  <2>1. CASE saved'.pinned = saved.pinned /\ saved'.funded = saved.funded
    <3>1. saved.pinned \in Plans /\ Grid(saved.pinned)
      BY <1>2, <2>1 DEF TypeInv, StateType, SavedStates, GridInv
    <3>2. Fits(ladder, saved.pinned) /\ Fits(pending.book, saved.pinned)
      BY <1>2, <2>1 DEF FitsInv
    <3>3. pc = "submit" => run.pinned = saved.pinned
      BY DEF PinnedInv
    <3>4. QED
      BY <2>1, <3>1, <3>2, <3>3, VenueFits
  <2>2. CASE pc = "plan" /\ saved' = Runtime /\ UNCHANGED venueVars
    <3>1. saved'.pinned = run.pinned /\ saved'.funded = run.funded
      BY <2>2 DEF Runtime
    <3>2. Fits(ladder, run.pinned) /\ Fits(pending.book, run.pinned)
      BY <1>2, <2>2, <3>1 DEF FitsInv, Looping, Working
    <3>3. QED
      BY <2>2, <3>1, <3>2 DEF venueVars
  <2>3. QED
    BY <1>2, <2>1, <2>2, SavedEffect DEF PlanIsKept
<1>3. ASSUME PlanIsKept, ~run'.funded, run'.pinned # NoPlan, pc' \in Looping
      PROVE  Fits(ladder', run'.pinned) /\ Fits(pending'.book, run'.pinned)
  <2>0. run'.pinned \in Plans /\ Grid(run'.pinned)
    BY <1>0, <1>3 DEF TypeInv, ProcessType, GridInv, Runs
  <2>1. CASE pc = "down" /\ run' = Loaded(saved') /\ UNCHANGED <<venueVars, saved>>
    <3>1. run'.pinned = saved.pinned /\ run'.funded = saved.funded
      BY <1>0, <2>1, LoadedType DEF TypeInv, StateType
    <3>2. Fits(ladder, saved.pinned) /\ Fits(pending.book, saved.pinned)
      BY <1>3, <3>1 DEF FitsInv
    <3>3. QED
      BY <2>1, <3>1, <3>2 DEF venueVars
  <2>2. CASE /\ pc = "fetch" /\ run'.pinned = Pin /\ run'.funded = run.funded
             /\ UNCHANGED <<venueVars, saved, starts>>
    <3>1. CASE run.pinned # NoPlan
      <4>1. Fits(ladder, run.pinned) /\ Fits(pending.book, run.pinned)
        BY <1>3, <2>2, <3>1 DEF FitsInv, Looping
      <4>2. Pin = run.pinned
        BY <3>1, PinnedGrid
      <4>3. QED
        BY <2>2, <4>1, <4>2 DEF venueVars
    <3>2. CASE run.pinned = NoPlan
      <4>1. saved.pinned = NoPlan
        <5>1. SUFFICES ASSUME saved.pinned # NoPlan
                       PROVE  FALSE
          OBVIOUS
        <5>2. SameGrid(saved.pinned, run.pinned) /\ Grid(saved.pinned)
          BY <1>3, <2>2, <5>1 DEF PinnedInv, Looping, TypeInv, GridInv
        <5>3. QED
          BY <3>2, <5>2 DEF SameGrid, Grid, NoPlan
      <4>2. ladder' = EmptyBook /\ pending'.book = EmptyBook
        BY <1>3, <2>2, <4>1 DEF PinnedInv, PlacedInv, venueVars
      <4>3. QED
        BY <2>0, <4>2, FittingBooks
    <3>3. QED
      BY <3>1, <3>2
  <2>3. CASE /\ pc = "reread"
             /\ run'.pinned = run.pinned \/ run'.funded = TRUE
             /\ run'.funded = run.funded \/ run'.funded = TRUE
             /\ UNCHANGED <<venueVars, saved, starts>>
    <3>1. run'.pinned = run.pinned /\ ~run.funded
      BY <1>3, <2>3
    <3>2. Fits(ladder, run.pinned) /\ Fits(pending.book, run.pinned)
      BY <1>3, <2>3, <3>1 DEF FitsInv, Looping, Working
    <3>3. QED
      BY <2>3, <3>1, <3>2 DEF venueVars
  <2>4. CASE pc \in Looping /\ run'.pinned = run.pinned /\ run'.funded = run.funded
    <3>1. Fits(ladder, run.pinned) /\ Fits(pending.book, run.pinned)
      BY <1>3, <2>4 DEF FitsInv
    <3>2. QED
      BY <2>0, <2>4, <3>1, VenueFits
  <2>5. QED
    BY <1>3, <2>1, <2>2, <2>3, <2>4, LoopEffect DEF PlanIsKept
<1>4. QED
  BY <1>0, <1>1, <1>2, <1>3 DEF FitsInv

(* Without crashes, timeouts and lag a process waits for every transaction it has sent. *)
Calm == cfg.faults \subseteq {"cross", "standalone", "ctrlC"} /\ ~cfg.extend

WaitsInv ==
  Calm /\ (pc \notin {"confirm", "cancelling"} \/ reply # "none") => pending = NoTx

LEMMA WaitsStep ==
  ASSUME TypeInv, OffInv, WaitsInv, [Next]_vars
  PROVE  WaitsInv'
<1>1. SUFFICES ASSUME Calm, pc' \notin {"confirm", "cancelling"} \/ reply' # "none"
               PROVE  pending' = NoTx
  BY SavedEffect DEF WaitsInv, Calm
<1>2. "crash" \notin cfg.faults /\ "timeout" \notin cfg.faults
  BY <1>1 DEF Calm
<1>3. ASSUME pc \notin {"confirm", "cancelling"} \/ reply # "none", pending' = pending
      PROVE  pending' = NoTx
  BY <1>1, <1>3 DEF WaitsInv
<1> USE DEF venueVars
<1>4. CASE Start \/ StopCli
  BY <1>3, <1>4 DEF Start, StopCli
<1>5. CASE Fetching
  BY <1>3, <1>5 DEF Fetching, StopLoss, Cycle, Breakout, ExtendGrid, Fetched
<1>6. CASE OrdersFail \/ OrdersRead
  BY <1>3, <1>6 DEF OrdersFail, OrdersRead
<1>7. CASE Fund
  BY <1>3, <1>7, FundEffect DEF Fund, Takes
<1>8. CASE RereadFails \/ FundedInFull \/ FundedInPart \/ NotFunded \/ ResizeDies
  BY <1>3, <1>8 DEF RereadFails, FundedInFull, FundedInPart, NotFunded, Reread, AfterFunding, ResizeDies
<1>9. CASE SkipReplacement \/ ReplaceLadder
  BY <1>3, <1>9 DEF SkipReplacement, ReplaceLadder, plannedFrame
<1>10. CASE SubmitSends \/ CancelSends
  BY <1>1, <1>10 DEF SubmitSends, CancelSends, OffInv
<1>11. CASE SubmitFails \/ PlacementFails \/ PlacementSucceeds
  BY <1>2, <1>3, <1>11 DEF SubmitFails, PlacementFails, PlacementSucceeds, BulkFails
<1>12. CASE LoopEnds \/ Exit \/ CancelFails \/ CancelSucceeds
  BY <1>2, <1>3, <1>12 DEF LoopEnds, Exit, CancelFails, CancelSucceeds
<1>13. CASE \E ok \in BOOLEAN : Sell(ok)
  BY <1>3, <1>13, SellEffect DEF Sell
<1>14. CASE Dies
  BY <1>2, <1>14 DEF Dies
<1>15. CASE TxExecutes \/ TxDiscarded
  BY <1>15 DEF TxExecutes, TxDiscarded, Execute, Discard
<1>16. CASE Fill \/ Market \/ CtrlC \/ CooldownEnds
  BY <1>1, <1>3, <1>16 DEF Fill, BidFills, AskFills, awayFrame, Market, MidMoves, StandaloneChanges,
                           processVars, CtrlC, CooldownEnds
<1>17. CASE UNCHANGED vars
  BY <1>1, <1>3, <1>17 DEF vars, processVars
<1>18. QED
  BY <1>4, <1>5, <1>6, <1>7, <1>8, <1>9, <1>10, <1>11, <1>12, <1>13, <1>14, <1>15, <1>16, <1>17
     DEF Next, Bot, Funding, Stopping, Environment

(* The base the account holds or will hold when the resting bids have filled. *)
Held == Spendable.base + Total(ladder.bids)
Worth == Total(run.pinned.bids) + Total(run.pinned.asks)

FundingInv ==
  /\ pc = "funding" => ~run.funded /\ snap.base < BaseRequired(Desired)
  /\ Calm =>
       /\ pc \in {"orders", "funding"} /\ ~run.funded =>
            Held + BaseRequired(Desired) <= snap.base + Worth
       /\ FundingFitsGrid

LEMMA HeldType ==
  ASSUME VenueType
  PROVE  /\ Held \in Nat
         /\ Held = free.base + Total(ladder.asks) + Total(ladder.bids)
  BY SpendableType DEF Held

LEMMA HeldTypeNext ==
  ASSUME VenueType'
  PROVE  /\ Spendable'.base \in Nat /\ Held' \in Nat
         /\ Held' = free'.base + Total(ladder'.asks) + Total(ladder'.bids)
<1>1. free'.base \in Nat
  BY DEF VenueType, Balances
<1>2. Total(ladder'.asks) \in Nat /\ Total(ladder'.bids) \in Nat
  BY TotalType
<1>3. QED
  BY <1>1, <1>2 DEF Held, Spendable

(* Fills do not make the account hold more, and nothing else happens meanwhile. *)
LEMMA HeldShrinks ==
  ASSUME TypeInv, WaitsInv, Calm, pc \notin {"confirm", "cancelling"}, Environment
  PROVE  Held' <= Held
<1>0. VenueType /\ VenueType' /\ Held \in Nat /\ Held' \in Nat
  BY StepType, HeldType, HeldTypeNext DEF TypeInv, Next
<1>1. /\ Held = free.base + Total(ladder.asks) + Total(ladder.bids)
      /\ Held' = free'.base + Total(ladder'.asks) + Total(ladder'.bids)
  BY <1>0, HeldType, HeldTypeNext
<1>2. ~TxExecutes /\ ~TxDiscarded
  BY DEF WaitsInv, NoTx, TxExecutes, TxDiscarded, Execute, Discard
<1>3. free.base \in Nat /\ Total(ladder.asks) \in Nat /\ Total(ladder.bids) \in Nat
  BY <1>0, SpendableType
<1>4. ladder \in Books /\ ladder.bids \in Side /\ ladder.asks \in Side /\ mid \in Prices
      /\ free \in Balances
  BY <1>0 DEF VenueType, Books
<1>5. CASE Fill
  <2>1. CASE BidFills
    <3>1. /\ ladder'.bids = [ladder.bids EXCEPT ![mid] = @ - 1] /\ ladder'.asks = ladder.asks
          /\ ladder.bids[mid] > 0 /\ free'.base = free.base + 1
      BY <1>4, <2>1 DEF BidFills, Books, Balances
    <3>2. Total(ladder'.bids) = Total(ladder.bids) - 1
      BY <1>4, <3>1, TotalOfLess
    <3>3. QED
      BY <1>1, <1>3, <3>1, <3>2
  <2>2. CASE \E proceeds \in {0, 1} : AskFills(proceeds)
    <3>1. /\ ladder'.asks = [ladder.asks EXCEPT ![mid] = @ - 1] /\ ladder'.bids = ladder.bids
          /\ ladder.asks[mid] > 0 /\ free'.base = free.base
      BY <1>4, <2>2 DEF AskFills, Books, Balances
    <3>2. Total(ladder'.asks) = Total(ladder.asks) - 1
      BY <1>4, <3>1, TotalOfLess
    <3>3. QED
      BY <1>1, <1>3, <3>1, <3>2
  <2>3. QED
    BY <1>5, <2>1, <2>2 DEF Fill
<1>6. CASE Market \/ CtrlC \/ CooldownEnds
  <2>1. ladder' = ladder /\ free' = free
    BY <1>6 DEF Market, MidMoves, StandaloneChanges, CtrlC, CooldownEnds, venueVars
  <2>2. QED
    BY <1>0, <1>1, <2>1
<1>7. QED
  BY <1>2, <1>5, <1>6 DEF Environment

(* The step that leads into the funding, and what it has been decided on. *)
LEMMA OrdersReadFunds ==
  ASSUME FundingInv, OrdersRead, pc' = "funding"
  PROVE  ~run'.funded /\ snap'.base < BaseRequired(Desired)'
  BY DEF OrdersRead, FundingDue, Desired

(* Ways to a place where the funding matters. *)
LEMMA FundingPlaces ==
  ASSUME TypeInv, [Next]_vars, pc' \in {"orders", "funding", "reread"}
  PROVE  \/ Fetching
         \/ OrdersRead /\ pc = "orders"
         \/ Fund /\ pc = "funding" /\ pc' = "reread"
         \/ Environment /\ pc' = pc
         \/ UNCHANGED vars
<1>1. CASE Start \/ StopCli \/ OrdersFail
  BY <1>1 DEF Start, StopCli, OrdersFail, CycleEnds
<1>2. CASE OrdersRead
  BY <1>2 DEF OrdersRead
<1>3. CASE Funding
  BY <1>3 DEF Funding, Fund, RereadFails, FundedInFull, FundedInPart, NotFunded, Reread, AfterFunding,
              ResizeDies, Down
<1>4. CASE \/ SkipReplacement \/ ReplaceLadder
           \/ SubmitSends \/ SubmitFails \/ PlacementFails \/ PlacementSucceeds
  BY <1>4 DEF SkipReplacement, ReplaceLadder, SubmitSends, SubmitFails, PlacementFails,
              PlacementSucceeds, BulkFails, CycleEnds
<1>5. CASE Stopping \/ Dies
  BY <1>5 DEF Stopping, LoopEnds, Exit, CancelSends, CancelFails, CancelSucceeds, Sell, Dies, Down,
              CycleEnds
<1>6. CASE Environment
  BY <1>6, EnvironmentFrame
<1>7. QED
  BY <1>1, <1>2, <1>3, <1>4, <1>5, <1>6 DEF Next, Bot

LEMMA FundingStep ==
  ASSUME TypeInv, PinnedInv, FitsInv, OffInv, WaitsInv, FundingInv, [Next]_vars
  PROVE  FundingInv'
<1>0. TypeInv' /\ FitsInv' /\ cfg' = cfg
  BY StepType, FitsStep, SavedEffect
<1>1. ASSUME Environment
      PROVE  /\ run'.funded = run.funded /\ snap' = snap /\ pc' = pc /\ Worth' = Worth
             /\ BaseRequired(Desired)' = BaseRequired(Desired)
  BY <1>1, EnvironmentFrame DEF Worth, Desired
<1>2. ASSUME pc' = "funding"
      PROVE  ~run'.funded /\ snap'.base < BaseRequired(Desired)'
  <2>1. CASE Fetching
    BY <1>2, <2>1 DEF Fetching, StopLoss, Cycle, Breakout, ExtendGrid, Fetched
  <2>2. CASE OrdersRead
    BY <1>2, <2>2, OrdersReadFunds
  <2>3. CASE Environment
    BY <1>1, <1>2, <2>3 DEF FundingInv
  <2>4. CASE UNCHANGED vars
    BY <1>2, <2>4 DEF vars, processVars, FundingInv, Desired
  <2>5. QED
    BY <1>2, <2>1, <2>2, <2>3, <2>4, FundingPlaces
<1>3. ASSUME Calm, pc' \in {"orders", "funding"}, ~run'.funded
      PROVE  Held' + BaseRequired(Desired)' <= snap'.base + Worth'
  <2>1. CASE Fetching
    <3>1. pc' = "orders" /\ pc = "fetch"
      BY <1>3, <2>1 DEF Fetching, StopLoss, Cycle, Breakout, ExtendGrid, Fetched
    <3>2. /\ snap' = Snapshot /\ UNCHANGED venueVars
      BY <2>1 DEF Fetching, StopLoss, Cycle, Breakout, ExtendGrid, Fetched
    <3>3. run'.pinned \in Plans /\ Grid(run'.pinned)
      BY <1>0, <3>1 DEF TypeInv, ProcessType, GridInv, Runs, Working
    <3>4. run'.pinned # NoPlan /\ pc' \in Looping
      BY <3>1, <3>3, NothingType DEF Looping, Working
    <3>5. Fits(ladder', run'.pinned) /\ \A p \in Prices : ladder'.bids[p] > 0 => p <= mid'
      BY <1>0, <1>3, <3>4 DEF FitsInv, Calm, PlanIsKept
    <3>6. mid' \in Prices /\ ladder'.bids \in Side /\ VenueType'
      BY <1>0 DEF TypeInv, VenueType, Books
    <3>7. Total(ladder'.bids) + BaseRequired(Project(run'.pinned, mid')) <= Worth'
      BY <3>3, <3>5, <3>6, GridSplit DEF Fits, Worth
    <3>8. snap'.base = Spendable'.base /\ Desired' = Project(run'.pinned, mid')
      BY <3>2 DEF Snapshot, Desired, Spendable, venueVars
    <3>9. /\ Spendable'.base \in Nat /\ Total(ladder'.bids) \in Nat
          /\ BaseRequired(Desired)' \in Nat /\ Worth' \in Nat
      <4>1. Spendable'.base \in Nat
        BY <3>6, HeldTypeNext
      <4>2. QED
        BY <4>1, TotalType DEF BaseRequired, Worth
    <3>10. Held' = Spendable'.base + Total(ladder'.bids)
      BY DEF Held
    <3>11. BaseRequired(Desired)' = BaseRequired(Project(run'.pinned, mid'))
      BY <3>8 DEF BaseRequired
    <3>12. QED
      BY <3>7, <3>8, <3>9, <3>10, <3>11
  <2>2. CASE OrdersRead /\ pc = "orders"
    <3>1. UNCHANGED <<venueVars, run, snap>>
      BY <2>2 DEF OrdersRead
    <3>2. Held + BaseRequired(Desired) <= snap.base + Worth
      BY <1>3, <2>2, <3>1 DEF FundingInv
    <3>3. QED
      BY <3>1, <3>2 DEF Held, Spendable, Worth, Desired, venueVars
  <2>3. CASE Environment /\ pc' = pc
    <3>1. Held' <= Held
      BY <1>3, <2>3, HeldShrinks
    <3>2. Held + BaseRequired(Desired) <= snap.base + Worth
      BY <1>1, <1>3, <2>3 DEF FundingInv
    <3>3. /\ Held \in Nat /\ Held' \in Nat /\ BaseRequired(Desired) \in Nat /\ Worth \in Nat
          /\ snap.base \in Nat
      BY <1>0, HeldType, HeldTypeNext, TotalType DEF TypeInv, ProcessType, Snaps, BaseRequired, Worth
    <3>4. QED
      BY <1>1, <2>3, <3>1, <3>2, <3>3
  <2>4. CASE UNCHANGED vars
    <3>1. UNCHANGED <<venueVars, run, snap, pc>>
      BY <2>4 DEF vars, processVars
    <3>2. Held + BaseRequired(Desired) <= snap.base + Worth
      BY <1>3, <3>1 DEF FundingInv
    <3>3. QED
      BY <3>1, <3>2 DEF Held, Spendable, Worth, Desired, venueVars
  <2>5. QED
    BY <1>3, <2>1, <2>2, <2>3, <2>4, FundingPlaces
<1>4. ASSUME Calm, pc' = "reread"
      PROVE  Held' <= Worth'
  <2>1. CASE Fund /\ pc = "funding"
    <3>1. PICK bought \in Nat :
            /\ bought = 0 \/ bought <= Gap
            /\ Takes(bought, 0)
            /\ TradesSeen(bought > 0, [run EXCEPT !.attempts = @ + 1])
      BY <2>1, FundEffect
    <3>2. free \in Balances /\ run \in Runs
      BY DEF TypeInv, VenueType, ProcessType
    <3>3. free'.base = free.base + bought /\ ladder' = ladder
      BY <3>1, <3>2 DEF Takes, Balances
    <3>4. run'.pinned = run.pinned
      BY <3>1, <3>2 DEF TradesSeen, Runs
    <3>5. ~run.funded /\ snap.base < BaseRequired(Desired)
      BY <2>1 DEF FundingInv
    <3>6. Held + BaseRequired(Desired) <= snap.base + Worth
      BY <1>4, <2>1, <3>5 DEF FundingInv
    <3>7. /\ BaseRequired(Desired) \in Nat /\ Worth \in Nat
          /\ snap.base \in Nat /\ free.base \in Nat
          /\ Total(ladder.asks) \in Nat /\ Total(ladder.bids) \in Nat
      BY <3>2, TotalType DEF TypeInv, ProcessType, Snaps, BaseRequired, Worth, Balances
    <3>8. Gap = BaseRequired(Desired) - snap.base
      BY DEF Gap
    <3>9. /\ Held = free.base + Total(ladder.asks) + Total(ladder.bids)
          /\ Held' = free'.base + Total(ladder'.asks) + Total(ladder'.bids)
      BY <1>0, HeldType, HeldTypeNext DEF TypeInv
    <3>10. Held' = Held + bought /\ Worth' = Worth
      BY <3>3, <3>4, <3>7, <3>9 DEF Worth
    <3>11. Held \in Nat
      BY HeldType DEF TypeInv
    <3>12. QED
      BY <3>1, <3>5, <3>6, <3>7, <3>8, <3>10, <3>11
  <2>2. CASE Environment /\ pc' = pc
    <3>1. Held' <= Held
      BY <1>4, <2>2, HeldShrinks
    <3>2. Held <= Worth
      BY <1>4, <2>2 DEF FundingInv, FundingFitsGrid, Calm, Held, Worth
    <3>3. Held \in Nat /\ Held' \in Nat /\ Worth \in Nat
      BY <1>0, HeldType, HeldTypeNext, TotalType DEF TypeInv, Worth
    <3>4. QED
      BY <1>1, <2>2, <3>1, <3>2, <3>3
  <2>3. CASE UNCHANGED vars
    <3>1. UNCHANGED <<venueVars, run, pc>>
      BY <2>3 DEF vars, processVars
    <3>2. Held <= Worth
      BY <1>4, <3>1 DEF FundingInv, FundingFitsGrid, Calm, Held, Worth
    <3>3. QED
      BY <3>1, <3>2 DEF Held, Spendable, Worth, venueVars
  <2>4. CASE Fetching \/ OrdersRead
    BY <1>4, <2>4 DEF Fetching, StopLoss, Cycle, Breakout, ExtendGrid, Fetched, OrdersRead
  <2>5. QED
    BY <1>4, <2>1, <2>2, <2>3, <2>4, FundingPlaces
<1>5. Calm' = Calm
  BY <1>0 DEF Calm
<1>6. ASSUME Calm
      PROVE  FundingFitsGrid'
  BY <1>0, <1>4, <1>6 DEF FundingFitsGrid, Calm, Held, Worth
<1>7. QED
  BY <1>2, <1>3, <1>5, <1>6 DEF FundingInv

(* Where nothing crashes, lags or times out, the purchases of the startup funding together     *)
(* with the fills of the ladder's own bids never make the grid hold more base than its levels  *)
(* are worth (run_cli, base funding; execute_guarded_spot_ioc).                                *)
THEOREM FundingIsBounded == Spec => []FundingFitsGrid
<1> DEFINE Inv == TypeInv /\ PinnedInv /\ OffInv /\ FitsInv /\ WaitsInv /\ FundingInv
<1>1. Init => OffInv /\ FitsInv /\ WaitsInv /\ FundingInv
  <2>1. SUFFICES ASSUME Init
                 PROVE  OffInv /\ FitsInv /\ WaitsInv /\ FundingInv
    OBVIOUS
  <2>2. pc = "down" /\ reply = "none" /\ ended = "never ran" /\ pending = NoTx /\ ladder = EmptyBook
    BY <2>1 DEF Init, VenueInit
  <2>3. saved.pinned = NoPlan
    BY <2>1 DEF Init, NoState
  <2>4. \A p \in Prices : ladder.bids[p] = 0
    BY <2>2 DEF EmptyBook, Nothing
  <2>5. OffInv /\ WaitsInv
    BY <2>2 DEF OffInv, WaitsInv
  <2>6. FitsInv
    <3>1. \A p \in Prices : ladder.bids[p] > 0 => p <= mid
      BY <2>4
    <3>2. pc \notin Looping
      BY <2>2 DEF Looping, Working
    <3>3. QED
      BY <2>3, <3>1, <3>2 DEF FitsInv
  <2>7. FundingInv
    BY <2>2 DEF FundingInv, FundingFitsGrid
  <2>8. QED
    BY <2>5, <2>6, <2>7
<1>2. TypeInv /\ PinnedInv /\ OffInv /\ FitsInv /\ WaitsInv /\ FundingInv /\ [Next]_vars
        => OffInv' /\ FitsInv' /\ WaitsInv' /\ FundingInv'
  BY OffStep, FitsStep, WaitsStep, FundingStep
<1>3. ~Calm => FundingFitsGrid
  BY DEF Calm, FundingFitsGrid
<1>4. FundingInv => FundingFitsGrid
  BY <1>3 DEF FundingInv
<1>5. QED
  BY <1>1, <1>2, <1>4, PinnedInvariant, PTL DEF Spec

=============================================================================
