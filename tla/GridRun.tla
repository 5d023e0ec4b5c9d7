------------------------------ MODULE GridRun ------------------------------
(***************************************************************************)
(* grid-bot/rust/src/main.rs, run_cli: one live Spot grid, its crashes and *)
(* restarts.  A cycle fetches a snapshot, reads the open orders, may buy   *)
(* missing base, saves its state and replaces the ladder; a stop-loss, a   *)
(* range breakout, too many failures or Ctrl+C end the loop and cancel or  *)
(* liquidate.  Every await is a step boundary: the market and the chain    *)
(* move in between, and the decisions use what was read before.            *)
(* The subaccount lock admits one process at a time: Start and StopCli     *)
(* need pc = "down".                                                       *)
(***************************************************************************)
EXTENDS SpotVenue

CONSTANTS
  Configs,        \* the configurations and fault sets to explore
  MinFillPercent, \* entry_min_fill_ratio
  MaxAttempts,    \* entry_exit_max_attempts
  MaxFailures,    \* max_consecutive_bulk_failures
  MaxStarts       \* bound on the processes started one after the other

\* kind: fixed bounds or a percentage; extend: ExtendGrid instead of PauseAndAlert;
\* policy: exit_asset_policy; stop: SPOT_EXIT_PRICE, -1 for none; auto:
\* auto_convert_missing_base; faults: what may happen besides calls that fail, "feeTier" that the
\* exchange reports another maker fee rate at a restart.
Faults == {"crash", "timeout", "lag", "cross", "standalone", "ctrlC", "feeTier"}
ConfigSpace ==
  [kind : {"bounds", "percent"}, extend : BOOLEAN, policy : {"sell", "retain"},
   stop : {-1} \cup Prices, auto : BOOLEAN, faults : SUBSET Faults]

ASSUME GridRunAssumption ==
  /\ Configs \subseteq ConfigSpace
  /\ MinFillPercent \in 1 .. 100
  /\ MaxAttempts \in Nat /\ MaxFailures \in Nat \ {0} /\ MaxStarts \in Nat

VARIABLES
  cfg,          \* the configuration, the same for every process
  pc,           \* where run_cli is; "down" when no process runs
  run,          \* its local variables
  snap,         \* this cycle's snapshot: price, spendable funds, new_trade_observed
  actual,       \* the open orders this cycle read
  reply,        \* what became of the transaction the process waits for
  cancel,       \* Ctrl+C was pressed
  saved,        \* spot_runtime in state.json
  traded,       \* the account has a trade on this market
  ended,        \* history: how the last process ended
  starts        \* history: processes started

processVars == <<pc, run, snap, actual, reply, cancel>>
historyVars == <<ended, starts>>
vars == <<venueVars, cfg, processVars, saved, traded, historyVars>>

NoPlan == [lower |-> 0, upper |-> 0, bids |-> Nothing, asks |-> Nothing]
NoSnap == [mid |-> InitialMid, base |-> 0, quote |-> 0, newTrade |-> FALSE, accepted |-> FALSE]
NoOrders == [book |-> EmptyBook, standalone |-> FALSE]

\* last_seen_trade_ms: none, behind the newest trade, or at it.
Cursors == {"none", "behind", "current"}
Whys == {"none", "stopLoss", "breakout", "circuit", "sell", "retain"}
Places == {"down", "fetch", "orders", "funding", "reread", "plan", "submit", "confirm",
           "exit", "cancel", "cancelling", "selling"}

Bounds == [lower |-> InitialMid - HalfWidth, upper |-> InitialMid + HalfWidth]

\* The locals of a process that found this spot_runtime (none: NoPlan).
Loaded(state) ==
  [pinned |-> state.pinned, funded |-> state.funded, cursor |-> state.cursor,
   range |-> Bounds, attempts |-> 0, failures |-> 0, count |-> -1, cooldown |-> FALSE,
   market |-> FALSE, why |-> "none", paused |-> FALSE]

NoState == [pinned |-> NoPlan, funded |-> FALSE, cursor |-> "none"]

TypeOK ==
  /\ mid \in Prices /\ ladder \in Books /\ free \in Balances /\ pending \in Transactions
  /\ pc \in Places
  /\ run.pinned \in Plans /\ run.attempts \in 0 .. MaxAttempts /\ run.failures \in 0 .. MaxFailures
  /\ run.count \in {-1} \cup Nat /\ run.cursor \in Cursors /\ run.why \in Whys
  /\ snap.base \in Nat /\ snap.quote \in Nat
  /\ actual.book \in Books
  /\ saved \in [pinned : Plans, funded : BOOLEAN, cursor : Cursors]

Init ==
  /\ VenueInit
  /\ cfg \in Configs
  /\ pc = "down" /\ run = Loaded(NoState) /\ snap = NoSnap /\ actual = NoOrders
  /\ reply = "none" /\ cancel = FALSE
  /\ saved = NoState
  /\ traded \in Histories
  /\ ended = "never ran" /\ starts = 0

-----------------------------------------------------------------------------
\* Process start and end.

\* Mutant: the saved runtime state is ignored.
LoadNothing == {NoState}

\* The saved state goes on only under the same hash of the configuration, which covers the maker
\* fee rate that the process has just fetched.
LoadState == {saved} \cup {state \in {NoState} : "feeTier" \in cfg.faults}

\* The state that the process begins with is saved at once.
Start ==
  /\ pc = "down" /\ starts < MaxStarts
  /\ starts' = starts + 1
  /\ pc' = "fetch"
  /\ \E state \in LoadState : run' = Loaded(state) /\ saved' = state
  /\ ended' = "running"
  /\ UNCHANGED <<venueVars, cfg, snap, actual, reply, cancel, traded>>

\* The one-shot stop command.
StopCli ==
  /\ pc = "down" /\ starts < MaxStarts
  /\ starts' = starts + 1
  /\ pc' = "cancel"
  /\ run' = [Loaded(NoState) EXCEPT !.why = cfg.policy]
  /\ ended' = "running"
  /\ UNCHANGED <<venueVars, cfg, snap, actual, reply, cancel, saved, traded>>

\* The process is gone, and the lock with it.
Down(how) ==
  /\ pc' = "down"
  /\ run' = Loaded(NoState)
  /\ snap' = NoSnap /\ actual' = NoOrders /\ reply' = "none" /\ cancel' = FALSE
  /\ ended' = how
  /\ UNCHANGED starts

\* A crash, or a journal write, plan or balance error that run_cli propagates with "?".
Dies ==
  /\ pc # "down" /\ "crash" \in cfg.faults
  /\ Down("died")
  /\ UNCHANGED <<venueVars, cfg, saved, traded>>

-----------------------------------------------------------------------------
\* One cycle up to the open orders.

loopFrame == <<cfg, saved, traded, historyVars>>

\* The loop ends at the next check_cancel, with or without a snapshot.
LoopEnds ==
  /\ pc = "fetch" /\ cancel
  /\ pc' = "exit"
  /\ UNCHANGED <<venueVars, loopFrame, run, snap, actual, reply, cancel>>

Snapshot ==
  [mid |-> mid, base |-> Spendable.base, quote |-> Spendable.quote,
   newTrade |-> run.cursor = "behind", accepted |-> FALSE]

\* fetch_snapshot returned; the trade cursor is advanced at once.
Fetched(to, r) ==
  /\ pc = "fetch" /\ ~cancel
  /\ pc' = to
  /\ snap' = Snapshot
  /\ run' = [r EXCEPT !.market = TRUE, !.cursor = IF traded THEN "current" ELSE "none"]
  /\ UNCHANGED <<venueVars, loopFrame, actual, reply, cancel>>

StopHit == mid <= cfg.stop

StopLoss ==
  /\ StopHit
  /\ Fetched("cancel", [run EXCEPT !.why = "stopLoss"])

\* Mutant: the geometry follows the market.
PinAgain == BuildPlan(ResolveRange(cfg.kind, run.range, mid), mid)

\* The geometry of this run: pinned by the first snapshot, or restored.
Pin == IF run.pinned = NoPlan THEN PinAgain ELSE run.pinned

InRange == Pin.lower <= mid /\ mid <= Pin.upper

Cycle ==
  /\ ~StopHit /\ InRange
  /\ Fetched("orders", [run EXCEPT !.pinned = Pin])

\* PauseAndAlert; a failed cancel is only printed.
Breakout ==
  /\ ~StopHit /\ ~InRange /\ ~cfg.extend
  /\ Fetched("cancel", [run EXCEPT !.pinned = Pin, !.why = "breakout", !.paused = TRUE])

\* The configured bounds are shifted by the distance of the price from the pinned range.
Shifted ==
  LET delta == IF mid < Pin.lower THEN mid - Pin.lower ELSE mid - Pin.upper
  IN [lower |-> run.range.lower + delta, upper |-> run.range.upper + delta]

\* Mutant: the shifted bounds are pinned but not remembered.
ExtendGridOnce ==
  /\ ~StopHit /\ ~InRange /\ cfg.extend
  /\ LET range == IF cfg.kind = "bounds" THEN Shifted ELSE run.range
     IN Fetched("orders", [run EXCEPT
                             !.pinned = BuildPlan(ResolveRange(cfg.kind, range, mid), mid)])

ExtendGrid ==
  /\ ~StopHit /\ ~InRange /\ cfg.extend
  /\ LET range == IF cfg.kind = "bounds" THEN Shifted ELSE run.range
     IN Fetched("orders", [run EXCEPT !.range = range,
                             !.pinned = BuildPlan(ResolveRange(cfg.kind, range, mid), mid)])

\* The cycle is over: the next one starts from a new snapshot.
CycleEnds(to, r) ==
  /\ pc' = to
  /\ run' = r
  /\ snap' = NoSnap /\ actual' = NoOrders

Desired == Project(run.pinned, snap.mid)

OrdersFail ==
  /\ pc = "orders"
  /\ CycleEnds(IF cancel THEN "exit" ELSE "fetch", run)
  /\ UNCHANGED <<venueVars, loopFrame, reply, cancel>>

\* Mutant: the attempts are not limited.
FundingDueAgain ==
  cfg.auto /\ ~run.funded /\ ~standalone /\ snap.base < BaseRequired(Desired)

FundingDue ==
  /\ cfg.auto /\ ~run.funded /\ ~standalone
  /\ run.attempts < MaxAttempts
  /\ snap.base < BaseRequired(Desired)

OpenOrders == [book |-> ladder, standalone |-> standalone]

OrdersRead ==
  /\ pc = "orders"
  /\ actual' = OpenOrders
  /\ pc' = IF cancel THEN "exit" ELSE IF FundingDue THEN "funding" ELSE "plan"
  /\ UNCHANGED <<venueVars, loopFrame, run, snap, reply, cancel>>

-----------------------------------------------------------------------------
\* Base funding.

Behind(cursor) == IF cursor = "current" THEN "behind" ELSE cursor

\* Trades of the account show up in its history.
TradesSeen(happened, r) ==
  /\ traded' = (traded \/ happened)
  /\ run' = IF happened THEN [r EXCEPT !.cursor = Behind(@)] ELSE r
  /\ saved' = IF happened THEN [saved EXCEPT !.cursor = Behind(@)] ELSE saved

Smaller(a, b) == IF a < b THEN a ELSE b

\* Mutant: the whole ask side is bought instead of what is missing.
WholeSide == BaseRequired(Desired)

Gap == BaseRequired(Desired) - snap.base

\* execute_guarded_spot_ioc: some of the gap is bought, some of that is observed, and the call
\* may fail after a slice was bought.
Fund ==
  /\ pc = "funding"
  /\ LET spare == Smaller(snap.quote - QuoteRequired(Desired), free.quote)
     IN \E bought \in 0 .. Smaller(Gap, spare) \cup {0} :
        \E seen \in IF "lag" \in cfg.faults THEN 0 .. bought ELSE {bought}, ok \in BOOLEAN :
          /\ Takes(bought, 0)
          /\ TradesSeen(bought > 0, [run EXCEPT !.attempts = @ + 1])
          /\ snap' = [snap EXCEPT !.accepted = ok /\ 100 * seen >= MinFillPercent * Gap]
  /\ pc' = IF cancel THEN "exit" ELSE "reread"
  /\ UNCHANGED <<cfg, actual, reply, cancel, historyVars>>

AfterFunding(r) ==
  /\ pc = "reread"
  /\ pc' = IF cancel THEN "exit" ELSE "plan"
  /\ run' = r
  /\ UNCHANGED <<venueVars, loopFrame, actual, reply, cancel>>

RereadFails ==
  /\ AfterFunding(run)
  /\ UNCHANGED snap

\* The balances after the purchase; a lagging account view may still show those before.
VisibleBase == {Spendable.base} \cup {base \in {snap.base} : "lag" \in cfg.faults}

Reread(base, r) ==
  /\ snap' = [snap EXCEPT !.base = base, !.quote = Spendable.quote]
  /\ AfterFunding(r)

FundedInFull ==
  \E base \in VisibleBase :
    /\ base >= BaseRequired(Desired)
    /\ Reread(base, [run EXCEPT !.funded = TRUE])

FundedInPart ==
  \E base \in VisibleBase :
    /\ base < BaseRequired(Desired) /\ snap.accepted
    /\ ~ResizeFails(run.pinned, base)
    /\ Reread(base, [run EXCEPT !.funded = TRUE, !.pinned = ResizeAsks(run.pinned, base)])

\* "partial entry leaves no ask level at the market minimum size" ends the process.
ResizeDies ==
  /\ pc = "reread" /\ snap.accepted
  /\ \E base \in VisibleBase : base < BaseRequired(Desired) /\ ResizeFails(run.pinned, base)
  /\ Down("died")
  /\ UNCHANGED <<venueVars, cfg, saved, traded>>

NotFunded ==
  \E base \in VisibleBase :
    /\ base < BaseRequired(Desired) /\ ~snap.accepted
    /\ Reread(base, run)

-----------------------------------------------------------------------------
\* Saving, reconciling, and the decision to replace the ladder.

Runtime == [pinned |-> run.pinned, funded |-> run.funded, cursor |-> run.cursor]

\* A shortfall is looked at again with fresh balances, if they can be read.
Underfunded(fresh) ==
  /\ ~Covers(snap, Desired)
  /\ fresh => ~Covers(Spendable, Desired)

Structural == snap.newTrade \/ run.count # LevelCount(Desired)

Holding == run.cooldown /\ ~Structural

WantsReplacement == ~actual.standalone /\ Missing(Desired, actual.book)

plannedFrame == <<venueVars, cfg, traded, historyVars, reply, cancel>>

SkipReplacement ==
  /\ pc = "plan"
  /\ saved' = Runtime
  /\ ~WantsReplacement \/ Holding \/ \E fresh \in BOOLEAN : Underfunded(fresh)
  /\ CycleEnds("fetch", run)
  /\ UNCHANGED plannedFrame

\* Mutant: the state is saved when the ladder has been placed.
ReplaceUnsaved ==
  /\ pc = "plan"
  /\ WantsReplacement /\ ~Holding /\ \E fresh \in BOOLEAN : ~Underfunded(fresh)
  /\ pc' = "submit"
  /\ UNCHANGED <<plannedFrame, saved, run, snap, actual>>

ReplaceLadder ==
  /\ pc = "plan"
  /\ saved' = Runtime
  /\ WantsReplacement /\ ~Holding /\ \E fresh \in BOOLEAN : ~Underfunded(fresh)
  /\ pc' = "submit"
  /\ UNCHANGED <<plannedFrame, run, snap, actual>>

-----------------------------------------------------------------------------
\* execute_bulk_grid.

bulkFrame == <<cfg, saved, traded, historyVars, cancel>>

\* It checks the balances again, reads both sequence numbers and sends.
SubmitSends ==
  /\ pc = "submit"
  /\ Covers(Spendable, Desired)
  /\ Admit("place", Desired)
  /\ pc' = "confirm"
  /\ UNCHANGED <<bulkFrame, run, snap, actual, reply>>

\* Too many failures in a row: cancel and pause.
BulkFails ==
  /\ LET r == [run EXCEPT !.failures = @ + 1]
     IN IF r.failures < MaxFailures THEN CycleEnds("fetch", r)
        ELSE CycleEnds("cancel", [r EXCEPT !.why = "circuit", !.paused = TRUE])
  /\ reply' = "none"
  /\ UNCHANGED <<venueVars, bulkFrame>>

\* Nothing was sent: a failed read, not enough funds, a refused sequence number.
SubmitFails == pc = "submit" /\ BulkFails

\* The placement aborted, or its outcome was not learnt within the wait.
PlacementFails ==
  /\ pc = "confirm"
  /\ reply = "err" \/ ("timeout" \in cfg.faults /\ reply = "none")
  /\ BulkFails

PlacementSucceeds ==
  /\ pc = "confirm" /\ reply = "ok"
  /\ CycleEnds("fetch", [run EXCEPT !.failures = 0, !.cooldown = TRUE,
                                    !.count = LevelCount(Desired)])
  /\ reply' = "none"
  /\ UNCHANGED <<venueVars, bulkFrame>>

-----------------------------------------------------------------------------
\* The end of the run: cancel_bulk_ladder and exit_sell_assets.

\* After the loop: nothing to act on without a market, else the exit policy.
Exit ==
  /\ pc = "exit"
  /\ IF run.market
     THEN /\ CycleEnds("cancel", [run EXCEPT !.why = cfg.policy])
          /\ UNCHANGED <<reply, cancel, ended, starts>>
     ELSE Down("untouched")
  /\ UNCHANGED <<venueVars, cfg, saved, traded>>

CancelSends ==
  /\ pc = "cancel"
  /\ Admit("cancel", EmptyBook)
  /\ pc' = "cancelling"
  /\ UNCHANGED <<loopFrame, run, snap, actual, reply, cancel>>

Sells == run.why \in {"stopLoss", "sell"}

\* Mutant: a risk pause whose cancel failed falls through to the exit policy.
PauseFallsThrough ==
  /\ \/ pc = "cancel"
     \/ pc = "cancelling" /\ (reply = "err" \/ ("timeout" \in cfg.faults /\ reply = "none"))
  /\ IF run.why \in {"stopLoss", "breakout", "circuit"}
     THEN /\ CycleEnds("exit", run)
          /\ reply' = "none"
          /\ UNCHANGED <<cancel, ended, starts>>
     ELSE Down("uncancelled")
  /\ UNCHANGED <<venueVars, cfg, saved, traded>>

\* Not sent, refused, aborted, or not learnt: only a failed stop-loss goes on to the exit policy.
CancelFails ==
  /\ \/ pc = "cancel"
     \/ pc = "cancelling" /\ (reply = "err" \/ ("timeout" \in cfg.faults /\ reply = "none"))
  /\ IF run.why = "stopLoss"
     THEN /\ CycleEnds("exit", run)
          /\ reply' = "none"
          /\ UNCHANGED <<cancel, ended, starts>>
     ELSE Down("uncancelled")
  /\ UNCHANGED <<venueVars, cfg, saved, traded>>

\* Mutant: a transaction that was only submitted counts as a cancelled ladder.
CancelUnconfirmed ==
  /\ pc = "cancelling"
  /\ IF Sells
     THEN /\ pc' = "selling"
          /\ reply' = "none"
          /\ UNCHANGED <<run, snap, actual, cancel, ended, starts>>
     ELSE Down("cancelled")
  /\ UNCHANGED <<venueVars, cfg, saved, traded>>

CancelSucceeds ==
  /\ pc = "cancelling" /\ reply = "ok"
  /\ IF Sells
     THEN /\ pc' = "selling"
          /\ reply' = "none"
          /\ UNCHANGED <<run, snap, actual, cancel, ended, starts>>
     ELSE Down("cancelled")
  /\ UNCHANGED <<venueVars, cfg, saved, traded>>

\* The released base is sold in bounded IOC slices, as far as the book takes it; with a lagging
\* account view only what is visible is offered.  Whatever was sold, the call may succeed.
Sell(ok) ==
  /\ pc = "selling"
  /\ \E visible \in IF "lag" \in cfg.faults THEN 0 .. free.base ELSE {free.base} :
     \E lots \in 0 .. visible :
       /\ Takes(0, lots)
       /\ traded' = (traded \/ lots > 0)
       /\ saved' = IF lots > 0 THEN [saved EXCEPT !.cursor = Behind(@)] ELSE saved
  /\ IF ok THEN Down(IF run.why = "stopLoss" THEN "liquidated" ELSE "sold")
     ELSE IF run.why = "stopLoss"
     THEN CycleEnds("exit", run) /\ UNCHANGED <<reply, cancel, ended, starts>>
     ELSE Down("cancelled")
  /\ UNCHANGED cfg

-----------------------------------------------------------------------------
\* The chain and the market.

awayFrame == <<cfg, pc, snap, actual, cancel, ended, starts>>

\* A process that waits for its transaction learns the outcome.
Learns(r) == reply' = IF pc \in {"confirm", "cancelling"} THEN r ELSE reply

TxExecutes == Execute /\ Learns("ok") /\ UNCHANGED <<awayFrame, run, saved, traded>>

TxDiscarded == Discard /\ Learns("err") /\ UNCHANGED <<awayFrame, run, saved, traded>>

Fill ==
  /\ \/ BidFills
     \/ \E proceeds \in IF "cross" \in cfg.faults THEN {0, 1} ELSE {1} : AskFills(proceeds)
  /\ TradesSeen(TRUE, run)
  /\ UNCHANGED <<awayFrame, reply>>

Market ==
  /\ MidMoves \/ ("standalone" \in cfg.faults /\ StandaloneChanges)
  /\ UNCHANGED <<cfg, processVars, saved, traded, historyVars>>

CtrlC ==
  /\ pc # "down" /\ ~cancel /\ "ctrlC" \in cfg.faults
  /\ cancel' = TRUE
  /\ UNCHANGED <<venueVars, cfg, pc, run, snap, actual, reply, saved, traded, historyVars>>

CooldownEnds ==
  /\ run.cooldown
  /\ run' = [run EXCEPT !.cooldown = FALSE]
  /\ UNCHANGED <<venueVars, cfg, pc, snap, actual, reply, cancel, saved, traded, historyVars>>

Fetching == StopLoss \/ Cycle \/ Breakout \/ ExtendGrid

Funding == Fund \/ RereadFails \/ FundedInFull \/ FundedInPart \/ ResizeDies \/ NotFunded

Stopping ==
  \/ LoopEnds \/ Exit
  \/ CancelSends \/ CancelFails \/ CancelSucceeds
  \/ \E ok \in BOOLEAN : Sell(ok)

Bot ==
  \/ Fetching
  \/ OrdersFail \/ OrdersRead
  \/ Funding
  \/ SkipReplacement \/ ReplaceLadder
  \/ SubmitSends \/ SubmitFails \/ PlacementFails \/ PlacementSucceeds
  \/ Stopping

Environment == TxExecutes \/ TxDiscarded \/ Fill \/ Market \/ CtrlC \/ CooldownEnds

Next == Start \/ StopCli \/ Bot \/ Dies \/ Environment

Spec == Init /\ [][Next]_vars

\* A running process keeps going, nothing it reads or sends fails for ever, and waits end.
Fairness ==
  /\ WF_vars(Bot) /\ WF_vars(CooldownEnds)
  /\ SF_vars(OrdersRead) /\ SF_vars(ReplaceLadder) /\ SF_vars(SubmitSends)
  /\ WF_vars(TxExecutes \/ TxDiscarded) /\ SF_vars(TxExecutes)

FairSpec == Spec /\ Fairness

-----------------------------------------------------------------------------
\* Properties.

Inside(book, plan) ==
  \A p \in Prices : book.bids[p] + book.asks[p] > 0 => plan.lower <= p /\ p <= plan.upper

\* The plan is for good: the grid is not extended and every process has the same configuration.
PlanIsKept == ~cfg.extend /\ "feeTier" \notin cfg.faults

\* journal.rs:101-103: the saved geometry is "the exact pinned geometry last accepted"; whatever
\* crashes, no level rests or is on its way outside the range a restart would restore.
LadderInSavedRange ==
  PlanIsKept => Inside(ladder, saved.pinned) /\ Inside(pending.book, saved.pinned)

\* main.rs:2259-2261: the market "must never move the configured boundaries or regenerate prices",
\* in this process or a later one; only an accepted partial funding may shrink the asks.
GeometryNeverMoves ==
  [][saved.pinned # NoPlan /\ PlanIsKept =>
       /\ saved'.pinned.lower = saved.pinned.lower /\ saved'.pinned.upper = saved.pinned.upper
       /\ saved'.pinned.bids = saved.pinned.bids
       /\ \A p \in Prices : saved'.pinned.asks[p] <= saved.pinned.asks[p]]_vars

\* lib.rs:731: no liquidation "while the ladder may remain live", and a process that reports
\* its ladder cancelled leaves none behind, not even one that a late transaction brings back.
OffTheBookWhenStopped ==
  pc = "selling" \/ (pc = "down" /\ ended \in {"cancelled", "sold", "liquidated"} /\ starts > 0)
    => ladder = EmptyBook /\ pending.op # "place"

\* main.rs:2246: a risk pause "must never flow into the configured stop-time asset disposition".
RiskPauseKeepsAssets ==
  run.paused => pc # "selling"

\* The purchases of the startup funding and the fills of the ladder's own bids, interleaved,
\* never make the grid hold more base than its levels are worth.
FundingFitsGrid ==
  cfg.faults \subseteq {"cross", "standalone", "ctrlC"} /\ ~cfg.extend /\ pc = "reread" =>
    Spendable.base + Total(ladder.bids) <= Total(run.pinned.bids) + Total(run.pinned.asks)

\* An extended grid contains the price it was extended for, as often as it is extended.
ExtensionReachesPrice ==
  starts <= 1 /\ pc = "orders" => run.pinned.lower <= snap.mid /\ snap.mid <= run.pinned.upper

\* main.rs:2496-2497: base is bought "only when no bulk is resting (first cycle)".  In the run that
\* checks it the account starts with all the base its grid can need: the ladder sold some.
FundingBeforeLadder ==
  pc = "funding" => actual.book = EmptyBook

\* main.rs:2351-2352: the stop-loss liquidates "all available base before stopping the run".
StopLossLiquidates ==
  pc = "down" /\ ended = "liquidated" => free.base = 0

\* When the market rests, a running grid that can pay for its levels ends up with all of them.
Rests(wanted, side) == \A p \in Prices : wanted[p] > 0 => side[p] = wanted[p]

Settled ==
  LET grid == Project(run.pinned, mid) IN Rests(grid.bids, ladder.bids) /\ Rests(grid.asks, ladder.asks)

Converges ==
  <>[][~Market /\ ~Fill]_vars =>
    (pc # "down" ~> (\/ pc = "down" \/ standalone \/ Settled
                     \/ ~Covers(Spendable, Project(run.pinned, mid))))

=============================================================================
