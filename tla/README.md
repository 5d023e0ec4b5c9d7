# decibel-bot in TLA+

TLA+ models of the two trading bots of this repository, the TLC instances that check them and the
theorems the TLA+ proof system proves about them.

- `src/market-maker/go`: a market maker for Decibel perpetuals (Go). One strategy loop per market
  quotes both sides with *bulk orders* (one on-chain ladder per market, replaced as a whole), stops
  quoting at an inventory limit and unwinds the position; Telegram and a web page steer it.
- `src/grid-bot/rust`: a grid bot (Rust) with a terminal UI and a command line. Its live mode runs
  one Spot grid: a pinned ladder whose levels turn from bids into asks as the price passes them.
- `src/grid-bot/python`: an earlier single-file grid bot.

Both bots act through the same narrow interface: REST reads that may be old, and Aptos
transactions that are signed with the account's sequence number, submitted, and waited for during
a limited time. Almost everything that can go wrong sits between those three steps, so the models
split every exchange call there.

## How to run

    tlc -workers 2 -config TxSubmitter.cfg TxSubmitter      (likewise the other .cfg files)
    tlapm TxSubmitterProofs.tla          (likewise the other ...Proofs modules; GridRunProofs takes minutes)

| cfg | module | expectation |
|---|---|---|
| `TxSubmitter.cfg` | `TxSubmitter` | holds |
| `MarketMaker.cfg`, `MarketMakerFaults.cfg`, `MarketMakerLiveness.cfg` | `MCMarketMaker` | holds |
| `GridRun.cfg`, `GridRunFaults.cfg`, `GridRunLiveness.cfg` | `MCGridRun` | holds |
| `MultiMarket.cfg` | `MCBulkOrders` | holds |
| `GridBot.cfg` | `MCGridBot` | holds |
| `PauseCancel.cfg` | `MCMarketMaker` | violated: a finding |
| `FundingOnce.cfg`, `StopLoss.cfg` | `MCGridRun` | violated: findings |

`PROJECT.json` lists the components, the runs, the source lines of every definition, the hazards,
the findings, the theorems, and for every checked property a mutant of the code that breaks it.

## Inventory

### Market maker

| component | state | operations | correct when |
|---|---|---|---|
| submitter shared by markets, `aptos/tx_submitter.go` | mutex, next sequence number, whether it was fetched | `SubmitEntryFunction`: fetch once, build, submit, wait | no number used twice, none skipped, every caller answered |
| node client, `aptos/client.go` | none | `submitEntryFunction`: result = hash or nil, error | a nil result means nothing was sent |
| strategy, `strategy/market_maker.go` | limit flag, last flatten order, stall count, escalation clock, backoff, pause | `Run`, `runCycle`, auto-flatten escalation, shutdown cancel; `Pause`, `Resume`, `FlattenPosition` from other goroutines | no quotes at the limit, no pile of flatten orders, a stuck position is closed, a clean exit leaves nothing |
| exchange adapter, `exchange/decibel/decibel.go` | bulk sequence number | `FetchState`, place/cancel bulk, place/cancel order | a cancel is skipped only when nothing rests |
| pricing, `pricing/pricing.go`; spread adaptation | none; recent margins | quotes from mid, inventory and spread | no crossing, no quote at the limit |
| bot state, `botstate/state.go` | position, average entry price, counters | update per cycle, snapshots | entry price survives flips and partial closes |
| REST client, `api/client.go` | market cache | reads | one fetch per expiry |
| Telegram and alerts, `notify/telegram` | alert message id, last count | commands, alert loops | each episode announced once |
| web UI, `webui/server.go` | none | handlers calling the strategy | same as the Telegram commands |
| log sink, `logging/tee_sink.go` | queue of 256, worker | write, close | lines neither lost nor reordered |
| wiring, `main.go` | error group, contexts | start markets, stop on signal | one market's exit does not strand the others |

Interactions: each market's loop calls the exchange adapter, which calls the node client directly
(one market) or through the shared submitter (several markets). Telegram and web handlers run on
their own goroutines and call the same strategy object and the same account. Hard parts: two
goroutines with one account, REST views behind the chain, abandoned waits, answers lost after the
node took the transaction, bookkeeping that must survive an episode but not outlive it.

### Grid bot

| component | state | operations | correct when |
|---|---|---|---|
| run loop, `main.rs` `run_cli`, `stop_cli` | pinned plan, funding flag and attempts, trade cursor, failures, cooldown, pause flags | one cycle: snapshot, stop-loss, breakout, orders, funding, save, replace, wait; then the exit policy | geometry fixed, assets sold only when asked for, ladder off when reported off |
| planning and execution, `lib.rs` | none | `build_plan`, `project_spot`, `resize_asks_to_available_base`, `execute_bulk_grid`, `exit_sell_assets` | plan inside its range and budget, acceptable to the venue, funded before placed |
| guarded taker, `spot_taker.rs` | budget of one call | bounded IOC slices until target, timeout or doubt | never more than asked, nothing counted unseen |
| ladder lifecycle, `spot_lifecycle.rs` | none | `cancel_bulk_ladder` | Ok only when the ladder is gone |
| reconciliation, `reconcile.rs` | none | desired against actual orders, one to one; which orders block | missing exactly the uncovered levels, converged only on the exact ladder |
| journal, `journal.rs` | `state.json`, event log | save by rename, load | a restart continues the same grid |
| events, `events.rs` | connection, backoff, channel of 256 | fills, rejects, reconnects to the loop | nothing lost silently, order kept, a stopped run is not held up |
| terminal UI, `main.rs` | form, tabs, dialogs, settings revision, pending flags, picker | `handle_event`, answers of background fetches | shows only what belongs to the settings on display; it sends no transaction, since nothing sets `execute_requested` |
| profiles, `profile.rs`; texts | one file | load, save, remove | - |

Interactions: the loop is one task; it awaits REST and the chain many times per cycle, and prices,
fills and the chain move at each await. A lock file admits one live process per subaccount; the
state file carries the pinned plan from one process to the next. The event listener is a second task
that fills a channel; the loop empties it only in the wait between two cycles. The terminal UI is
another subcommand: one thread, with its fetches on background tasks that answer in any order. Hard
parts: dying between any two awaits, a placement that lands after its wait was given up, decisions on a snapshot that is several
awaits old, five ways out of the loop that must not be confused.

## Modules

```
AptosAccount <- TxSubmitter <- BulkOrders <- MCBulkOrders     SpotGrid <- SpotVenue <- GridRun <- MCGridRun
                  |
     SlotAllocator (refined)                                  Venue <- MarketMaker <- MCMarketMaker

SeqFolds <- SpotEvents, GridPlanning;  TerminalUI, SpotEvents, GridPlanning <- GridBot <- MCGridBot

TxSubmitterProofs <- BulkOrdersProofs        GridRunProofs        MarketMakerProofs
SeqLemmas <- SpotEventsProofs;  TerminalUIProofs, SpotEventsProofs <- GridBotProofs
```

### TxSubmitter (over AptosAccount)

`AptosAccount` is the chain as the node client uses it: transactions with numbers from the
account's next one on, admitted when their number is free, executed in order, possibly evicted.
`TxSubmitter` has one action per step of `SubmitEntryFunction`: `Call`, `Lock`, `FetchInitialSeq` or
`FetchFails`, then one of `BuildFails`, `SubmitRefused`, `SubmitAccepted`, `SubmitReplyLost`, and
`Confirmed` or `WaitTimesOut`. `Return` is the common ending: `NextSeq` is the code's
`if result != nil { t.seq++ }`, and the deferred unlock. `Restart` starts a new process over the same
account. `SlotAllocator` is the promise: numbers handed out one at a time, in order, to one call
each; `ImplementsAllocator` is the refinement, with a call's number visible once it got a hash.

### BulkOrders (over TxSubmitter)

`runMultiMarket`: the loops of several markets over one submitter, and the placements and cancellations
they send. Every call of the submitter belongs to a market (`MarketOf`) and a market makes one call at a
time. `PlaceBulkOrders` synchronises the bulk sequence number from REST at the first use in a process
(any number up to the venue's: the rows may be old) and takes the next one before it submits;
`CancelBulkOrders` needs rows that show quotes. `Executes` is the transaction's turn on the chain and the
venue's rule for numbers, `SubmitterSteps` the submitter, `NewProcess` a restart. Single orders of a market
(flattening) go through the same submitter but touch no ladder.

### MarketMaker (over Venue)

`Venue` is the market and the account: inventory (its magnitude, in fills), whether bulk quotes
rest, the resting flatten orders, at most one pending transaction (two submissions with the same
live sequence number exclude each other), and the REST view, which lags field by field where the
fault `"lag"` is allowed.

`MarketMaker` has two goroutines. `req[a]` is the exchange call goroutine `a` is in, with phases
reading, sending, waiting, ok, err; `Invoke`, `CancelBulkReads`, `NotSubmitted`, `Submitted`,
`WaitGivesUp`, `TxExecutes`, `TxDiscarded` move it. The cycle goroutine's `pc` says where `Run` and
`runCycle` are. A cycle begins with one of `CycleStandsDown`, `CycleQuotes`, `CycleCancelsBulk`,
`CycleFlattens`: each is the whole decision of `runCycle` on one state snapshot, including `Recover`,
the reset below the limit. `ForceClose`, `KeepResting`, `PlaceFlatten`, the reprice and post actions
are `handleAutoFlattenAtLimit` and `forceCloseFlatten`; `Shutdown*` are the cancel attempts after
SIGTERM. `Pause`, `Resume`, `FlattenPosition`, `OperatorReply` are the operator. Durations are flags
that end at any time: the escalation clock is zero, running or due (`Deadline`), the backoff ends
with `BackoffEnds`. A cycle whose state fetch fails changes nothing and is a stutter.

### GridRun (over SpotVenue and SpotGrid)

`SpotGrid` is the plan arithmetic on a small price axis: prices are ticks, sizes are lots, a book
maps each side's prices to sizes. `BuildPlan` puts a level on each tick between the bounds except the
mid, a bound keeping its level when the mid is on it (each side of the code's plan has at least one
level); `Project` flips sides around the price; `ResizeAsks` scales the pinned asks down with
rounding; `Missing` asks for exactly the wanted size. `SpotVenue` is the market: price, ladder, free
balances, orders of other people, one pending transaction. A placement draws only the difference to
the present escrow, as `available_base_for_bulk` assumes.

`GridRun` is `run_cli`. `pc` names the awaits: fetch, orders, funding, reread, plan, submit, confirm,
and exit, cancel, cancelling, selling on the way out; `run` holds the locals, `saved` the
`spot_runtime` of the state file. One action per outcome: `StopLoss`, `Cycle`, `Breakout` or
`ExtendGrid` end the fetch; `OrdersRead` decides on funding; `Fund`, `Reread` and its four cases are the
base purchase; `ReplaceLadder` and `SkipReplacement` include the save; `SubmitSends`, `SubmitFails`,
`PlacementSucceeds`, `PlacementFails` the placement and the failure circuit; `Exit`, `CancelSends`,
`CancelFails`, `CancelSucceeds`, `Sell` the ends. `Dies` is a crash at any await, and also every `?` of
`run_cli` (a failed journal write, an impossible plan). `StopCli` is the one-shot stop command. A wait
between cycles may end at any time, so events, which only shorten it, need no action. The
trade cursor is abstracted to none, behind or current. `Start` goes on with the saved state (`LoadState`)
if the hash of the configuration is the same. The hash covers the maker fee rate that each process
fetches, so with the fault `"feeTier"` a start may find another hash and begin, and save, a new state.

### GridBot (over TerminalUI, SpotEvents, GridPlanning)

`main` dispatches on one subcommand, and so does `GridBot`: a behaviour is the terminal UI, the event
stream of a run, or the plans and orders of a run (`part`). The three share no state: the UI never
starts a run, the loop reads nothing of an event but that it came, and the loop itself is `GridRun`. Each
has its own specification (`TuiSpec`, `SpotEventsSpec`, `PlanSpec`); they are put together so that one
instance checks the rest of the process, and `AtWork` selects parts. What is not at work stands still in
an initial state, and fairness is only asked of the stream when it is at work.

`TerminalUI` is `tui_loop`. `app` is the `App` structure, its methods are functions of that record
under their own names, and `Handled` is `handle_event`: one operator per match arm, tried in the order
of the code (error dialog, picker, edit, funding dialog, password prompt, plain keys), and one per kind
of mouse event. An iteration is `Receive` (answers of tasks, any number, in any order), then one of
`LaunchPicker`, `LaunchSnapshot`, `LaunchNothing`, then `Input` (or `SubmitPassword`, `Reset`, `Quit`),
which ends with `AfterRevisionCheck`, the head of the next iteration. `flight` counts the tasks that
have not answered, by kind and argument. A text is its length: whether it is empty decides what can be
built, and two texts of one length are not told apart. The form has five fields: the product (cycled), the
market (picked), and three texts, which are edited in place as in the code, the key, a number of the grid
and the subaccount. What is made from the settings carries the form it was made from and the fields that
were half typed then (`Sources`): `configured` is what the client and the grid of the loop were built from,
`given` what the task of a revision works with (the subaccount is read when it starts, `SnapshotSource`),
and the snapshot and the funding instructions on display keep theirs. No step reads it; the properties do.

`SpotEvents` is `run_spot_event_listener` and the wait in `run_cli`. `link` is where the listener task
is: connecting, marking (sending the `Reconnected` event), listening, sending the events of a frame
one by one, in backoff, stopped. `SessionEnds` is the common ending of `run_connection` with the
bookkeeping of attempts. `consumer` is the run loop: in a cycle, waiting, or gone. `said`, `missed`,
`everMissed` are history variables for the properties.

`GridPlanning` has the arithmetic that `GridRun` leaves out: `Valid`, `ResolvedRange`, `SideCounts` with
the code's half-to-even rounding, `PricesOf` with tick rounding and removed duplicates, `SpotSizes`,
`PerpSize`, the net margin, `Project`, `ResizeAsks`, `ApplyTradeHistory`, the checks of
`prepare_bulk_order_parameters` and the matching of `reconcile`. Its filters, folds and sums are those of
`SeqFolds`, recursive functions over an index that can be reasoned about. Prices are half ticks (so that a mid
may lie between two ticks and `project_spot` can drop a level within half a tick of it), sizes are
lots, a ratio is kept as numerator and denominator until the code rounds. A price that rounds to zero makes
the code divide by it (`Priced`): there is no plan then. Its actions are the Spot
cycle, the Spot cycle in which a partial entry was accepted, the Perp cycle, the placement and its
failures, and what the market and the account's owner do meanwhile.

## What the runs show

**tx_submitter** (3 calls, 1 restart, 17k states). Submissions exclude each other (`Serialized`);
two hashes of one process never share a number, even if a wait was abandoned
(`HashedSlotsDistinct`); no number is skipped (`SlotsContiguous`), so nothing is parked for ever; a
process without lost answers and restarts is never refused (`NeverRefused`); everyone gets an answer
(`CallsReturn`); without evictions every hash is executed (`HashedCommits`); and the whole is a
sequential allocator (`ImplementsAllocator`). Three calls give every order of an abandoned wait, a
failure and a success; more calls repeat them, and the theorems cover any number.

**multi_market** (0.5M states; 3 calls of one market and 1 of another, 1 restart). `NeverInItsOwnWay`: if the venue
refuses a ladder for its number, the higher one came from another process; a process alone never sends a
number that is too low, although abandoned placements stay in the mempool and another market takes its
turns in between. `LaterDecisionWins`: what a market decided later is what rests; a placement whose wait
was given up, in this process or before a restart, never lands on top of a later ladder or after a later
cancellation. It holds because the account's numbers order the executions as the mutex ordered the
submissions; an eviction from between two transactions breaks that, since the gap it leaves is filled by
the next process before the older transactions behind it run (hence the condition). A new process may
well be refused once or more, behind a placement REST did not show.

**market_maker** (2.2M states; two order ids, positions up to 2, limit 1; three configurations:
escalation with reprice, unquotable size, no auto-flatten). Calls may fail but nothing is lost.
`QuotesOffWithoutFaults`: once the flag that suppresses further cancels is set, no quote rests or is
on its way. `OneFlattenWithoutFaults`: flatten orders of one episode do not pile up.
`ForceOnlyAtLimitIfQuotable`: a taker exit is taken only at the limit and past the deadline. `CleanExit`: `Run` returns nil only
when the quotes are off and stay off.

**market_maker_faults** (3.0M states; answers lost, waits abandoned, ids unknown; or lagging REST with
repricing; one order id; a fault may also not happen). `NoClockWhileQuoting`: a cycle that quotes carries
nothing of the last episode. `AtMostOneLatePlacement`: a pause lets at most one placement through.
`EscalationSticks`: a due escalation stays due until a cycle sees inventory below the limit.

**market_maker_liveness** (71k states; the operator is quiet): `LimitUnwinds`, a position at the limit
is unwound, although every call may fail again and again.

**grid_run** (1.1M states; 4 ticks, 2 lots per level, one process). `GeometryNeverMoves`: bounds and
bids are those of the first plan, asks only shrink. `FundingFitsGrid`: purchases and the fills of the
ladder's own bids, interleaved, never exceed what the levels can hold. `ExtensionReachesPrice`: an
extended range contains the price, however often it is extended; needs four ticks, because only the
second extension depends on the remembered bounds.

**grid_run_faults** (1.1M states; two processes one after the other, crashes anywhere, abandoned
waits, lagging balances, proceeds that settle in Cross, Ctrl+C). `LadderInSavedRange`: no level rests
or is on its way outside the range that a restart restores. `GeometryNeverMoves` across restarts. Both are
about processes with one configuration and one fee tier (`PlanIsKept`); a second configuration of the run lets
the fee tier change between the processes, for the properties that hold then as well.
`OffTheBookWhenStopped`: nothing is sold, and no process reports its ladder cancelled, while a ladder
rests or a late placement can bring it back; it holds because a pending placement makes the cancel
with the same sequence number fail. `RiskPauseKeepsAssets`: breakout and failure circuit never reach the
sale. Two processes are enough: a third starts from the same saved state as the second.

**grid_run_liveness** (59k states; 3 ticks, 2 lots, base provided). `Converges`: if price and takers
rest, a running grid that can pay ends up with every level at full size, through cooldown, partial
fills and failing calls.

**grid_bot** (1.0M states: 0.7M of the UI, 0.3M of the stream and the plans). Of the UI:
`SnapshotIsCurrent`, every setting the grid on display was computed from is the one in force, whatever was
edited, loaded or reset while it was computed; an edit in progress is not in force, the text before it is.
`FundingIsCurrent` says the same of the funding instructions as long as they are open. Both leave out a text
that was half typed when the client was built, the task was started or the instructions were opened: there
the code shows something else until the settings change (see the divergences below). One snapshot at most is
under way for the settings and the indicator is right (`OneSnapshotInFlight`), the selection and the page
lie in the grid although a new one may be smaller (`GridOnScreen`), and a detail that comes late does not
replace that of the row asked for (`DetailForRowAsked`). Of the stream: a loss is announced by a marker in the channel before the
next connection is read (`LossIsAnnounced`); without a loss the journal, the channel, the frame in hand and
the socket together are what the venue said, in its order (`JournalFollowsVenue`); Ctrl+C ends the run
without the timer (`StopsPromptly`). Of planning: plans whose levels the market allows are never refused
(`SoundPlansAreAccepted`), rounding never makes a plan cost more than its budgets (`BudgetsKept`), and the
reconciliation report is a comparison of multisets (`ReconcileIsExact`).

Violated, on purpose (details in `PROJECT.json`, findings):

- **pause_cancel**: `Pause(cancelResting)` cancels while a cycle past the pause check is about to
  place; the quotes rest, although the operator was told they are cancelled.
- **funding_once**: a process that started with enough base buys base back after its ladder sold it,
  although funding is documented as only before the first ladder.
- **stop_loss**: a sale that found no liquidity returns Ok, so the stop-loss ends as "completed" with
  the base unsold and the exit policy skipped.

Some properties carry a condition because the unconditional statement fails. Counterexamples met
while modelling: with abandoned waits a late placement brings quotes back at the limit, where
`market-maker/go/README.md:369` says they are off (`QuotesOffAtLimit`); with lagging REST a second
flatten order is placed (`OneFlattenAtATime`); with an order size the market does not take, the
escalation clock runs below the limit (`ForceOnlyAtLimit`); after a restart `ExtendGrid` shifts the
original bounds and can miss the price (`ExtensionReachesPrice`); after a lost answer to
`SubmitTransaction` the result is nil although the node has the transaction, and the number is used
again, where the comment at `tx_submitter.go:91` takes nil for "never happened" (`NeverRefused`).

## Divergences without a run

Read in the code while translating it; some are a matter of taste.

- `shadow`, `doctor` and `reconcile` build a percentage Spot grid anew around the mid (`fetch_snapshot`),
  while `run -e` keeps the plan it pinned: they report drift a live run would not act on. Shadow counts
  a cycle only when its orders could be read.
- The limit per side is applied to the plan as built. A pinned plan projected around a moved price may
  have more levels on one side; it is refused, cycle after cycle, until the failure circuit opens
  (hence the side limit inside `Sound`). Rounding prices down to a tick can move an ask below the mid,
  with the same effect at once, or give both sides one price.
- A long or short Perp grid has one level of size zero on its other side (`side_counts` clamps to one,
  `derive_sizes` sets that side's size to zero, and the minimum is only asked of sizes above zero,
  `lib.rs:2206-2261, 2386-2413`). `validate_bulk_side` refuses such a level and with it the whole order, so
  that every cycle fails until the failure circuit opens, although the bot's `README.md:622` offers these
  modes and `README.md:633` says that no order is generated that cannot be submitted.
- With fixed bounds and a total budget, a mid near a bound leaves one side less than the minimum:
  `derive_sizes` reports an error, and with it every snapshot of the loop, whose stop-loss and breakout
  checks come after it. At the bound itself that side's one level has size zero, and is refused once
  the price moves into the range. A size below a lot becomes zero and passes the minimum.
- A range that reaches below a tick gives the outer bids a price of zero (`round_down`, `lib.rs:2305`). On
  Spot `enforce_min_net_margin` divides by the lowest price, and the process panics; a Perp plan is built,
  with a level that `validate_bulk_side` refuses each time.
- `enforce_min_net_margin` takes twice the fee on the lower price; the fees paid are on both prices.
  A plan whose bids cost nothing loses the fee from its projected reserve.
- The board: its last, partial row can never be reached by scrolling. The picker: moving on while a
  detail is under way leaves "loading" set until the picker is closed; a market list asked for one
  product is stored as that of the product selected when it arrives.
- Whether a restart goes on with the saved plan is decided by a hash that includes the maker fee rate fetched
  at the start (`main.rs:2144, 2166-2200`). If the account's fee tier changed, the plan and the funding flag
  are discarded although the operator changed nothing, and a new range is pinned around the price while the
  old ladder rests, where `journal.rs:101-103` says that the saved geometry "prevents a restart from silently
  rebuilding a different range around the then-current mid price". `GridRun` has this restart (`feeTier`);
  `LadderInSavedRange` and `GeometryNeverMoves` exclude it.
- An edit in progress: a retry that falls due builds the client and the grid from half-typed text
  (`main.rs:3308-3319`), and Esc restores the text without a new revision (`main.rs:1326-1332`), so that the
  grid of the half-typed settings stays on display and requests are made with the half-typed key, where
  the bot's `README.md:281` says that Esc applies nothing. A snapshot task reads the subaccount when it
  starts (`main.rs:3266`), so that a half-typed one goes into a snapshot of the current revision. Funding
  instructions opened by a click in the middle of an edit keep the half-typed subaccount, and stay open with
  the old text when the edit is saved underneath. `SnapshotIsCurrent` and `FundingIsCurrent` leave exactly
  the field out that was being edited. An error dialog that opens takes the keys; clicks are not stopped by
  dialogs.
- `apply_profile` overrides values given on the command line; saving with an empty key drops the
  stored one.
- Events before the first subscription are not announced by a marker.
- `bulk_sequence` is the largest number REST knows plus one, and two equal but stale reads count as
  settled after a guarded order. `README.md` of the bot says 80 levels, 40 a side; the code has 40 and 30.

## Bounds

Named in the modules: `MaxRestarts`; `InvCap` and the number of `Ids` (the venue refuses more);
`late` stops at 2 (the property is about 1); `Commands`; `MaxPrice`, `FullSize`, `HalfWidth`, `Funds`,
`MaxStarts`, and the code's own limits `MaxAttempts`, `MaxFailures` at small values. Levels beyond
the price axis of `GridRun` are cut off. One lot per level suffices where only presence matters (faults); two are
needed for partial fills and resizing. `BulkOrders`: three calls of one market are a placement of an old
process and two decisions of a new one (or two abandoned ones and a restart), and one call of another
market can come between any two. Position limit 1 with cap 2 has below, at and above.

The UI: `MaxText` 1 (empty or not; a saved edit therefore changes a field from one to the other, which is
what the properties tell apart), `CommandLines` with a key and a subaccount or neither, two Perp markets and a Spot one in `Listing`, `Counts`,
`MaxColumns` and `Rows` so that a grid has one full page, or a page and a partial row, `MaxRevision` 2 (two
changes while a snapshot is under way), `MaxTasks` 3 picker tasks (a list and two details), and
`MaxSelected`, since the selected index grows while nothing is shown. A user does anything, but each of
the `Sessions` is limited to the keys of one concern (editing; the picker with
the choice of a market; the picker with a change of product, filtered and left by Esc; the board; profiles
and funding; funding opened by a click in the middle of an edit): the modes exclude one another, so that a
session over all keys repeats these. The stream: `Frames` with a fill, a price, a rejection behind a foreign record, and
two events in one; `Capacity` 2 is full after one frame; `MaxFrames` 3 and `MaxSessions` 2 give a frame
before, between and after two connections; `Backoff` has two steps. The plans: ten `Settings` (bounds,
percentage, step; budget, separate budgets, fixed size; Spot and Perp; one invalid; a lower bound under a
tick for each product); two to three levels with `MaxPerSide` 2 and `MaxTotal` 3, so that the side limit binds; `Mids` inside, at and outside the
range, on and between ticks; `Balances` that suffice or not; `MinSize` 2; `MaxFailures`, `MaxMissing`,
`MaxStandalone` small, since one missing and one foreign order meet every branch of the matching.

## Fairness

- `TxSubmitter`: strong fairness of `Lock`, which `sync.Mutex` gives by its starvation mode; the holder
  runs on, its wait ends by the 60 s timeout; the node executes the next transaction.
- `MarketMaker`: the loop has no exit but the context, so cycles recur (`SF` on the decision at hand,
  since an individual cycle may be stopped by a guard); not every submission fails for ever; an IOC
  priced through the book, tried again and again, fills once; a clock that runs becomes due.
- `GridRun`: a running process goes on, waits end, and among repeated attempts not all reads,
  affordability checks, submissions and executions fail. Nothing is assumed of market or operator.
- `SpotEvents`: weak fairness of the listener and of the loop's reaction to an event or a closed channel:
  connection attempts and backoffs end, the runtime polls both tasks, a cycle ends. The timer of the
  wait has none, so `StopsPromptly` does not rest on it; nor have the venue, disconnections and the user.

## Proofs

TLC checks the instances above; the theorems hold for every value of the constants that satisfies the
named assumptions of the modules. `PROJECT.json` lists them with the properties they state: every
invariant of every passing run, and every action property. Each inductive invariant was run through TLC
before it was proved, or is made of properties the runs check.

Assumptions, all named in the modules: numbers, sizes, widths and limits are naturals (positive where the
code divides by them or counts up to them), the limit of the position is within what the model can hold,
values that stand for absence are no members, configurations and frames are of their spaces (the fields of
a `GridConfig` are of their types, which says nothing of their values: `Valid` is in the model), the total
of levels is at most twice those of a side (40 and 30 in the code), the listing has a Perp market, and a
user's fields are fields of the form. Nothing is assumed of the number of calls,
markets, order ids, prices, processes, revisions or frames, so the bounds of the instances are no part of
the theorems.

**`TxSubmitterProofs`**: `TypeCorrect`, `SubmissionsSerialized`, `SlotsDistinct`, `NoGaps`,
`CleanProcessNeverRefused`, `Refinement`.

- `TypeOK` is inductive. `Serialized` is inductive with it.
- `SlotsDistinct` and `NoGaps` are not inductive: that the next number is fresh needs to know which
  ones were handed out. `SlotInv` adds that the numbers of the hashed calls are exactly
  `base .. seq - 1` and that the call being confirmed holds `seq`. Its step proof has one case per
  action; `ErrorAddsNoHash` and `HashAddsOne` say what the common ending does to the set of hashes.
- `CleanProcessNeverRefused` needs `RefusalInv`: everything in the mempool was sent by a call that is
  known, and the chain is not ahead of the submitter; `CleanStaysClean` shows that being without a lost
  answer or restart cannot be regained.
- `Refinement` uses `SlotInv` for the allocation step; all other steps stutter or reset.

**`BulkOrdersProofs`**: `MarketsShareTheSubmitter`, `NeverInOwnWay`, `LaterDecisionRests`.

- `MarketsShareTheSubmitter` (`MultiSpec => Spec`): each step of the markets is a step of the submitter or
  leaves it alone. What `TxSubmitterProofs` shows is thereby known of several markets, and `SlotInv`
  serves as a lemma here.
- `Inv` follows a decision from the loop to the venue: `MadeInv` orders the calls of all processes,
  `LoopInv` says the call a loop waits for is its latest, `NumberInv` that the bulk numbers of a market
  grow in that order within a process, `SlotOrderInv` that so do the account's numbers, `ChainInv` that
  the chain executes by these, `VenueInv` where what the venue remembers came from. Together: an older
  placement of the same process is always executed first.
- `LaterDecisionRests` is about several processes and needs `QueueInv`: without evictions the mempool has
  no gap, so that a new process joins the queue behind everything its predecessors left. With an eviction
  the gap is where its first transaction goes; the condition of the property is what the proof needs.

**`MarketMakerProofs`**: `TypeCorrect`, `ClockStopsBeforeQuoting`, `ForceNeedsLimit`,
`PauseLetsOneThrough`, `QuotesStayOff`, `ExitIsClean`, `FlattensDoNotAccumulate`, `DueStaysDue`.

- `TypeInv` adds to `TypeOK` what a call carries, `CallsFitPlaces` which calls the cycle can be waiting for
  at each place, `PendingIsAwaited` that without abandoned waits a transaction has someone who waits.
- `ClockInv`: with a cleared flag no clock runs and no flatten order is remembered, and every place of
  the flattening has the flag set and saw the limit; only for sizes the market takes.
- `OnePlacementInv`: while paused, a placement that is about to be sent is the first one.
- `QuotesInv` and `EpisodeInv` say at each place what a call that succeeded has achieved: the quotes are
  off once the cancel returned, the episode's flatten orders are among the one remembered.

**`GridRunProofs`** (first the lemmas on plans and books): `TypeCorrect`, `RiskPauseNeverSells`,
`StoppedIsOffTheBook`, `LadderStaysInRange`, `GeometryIsPinned`, `ExtensionReaches`, `FundingIsBounded`.

- `TypeCorrect` is already more than types: that balances stay natural and a projected ladder is a book
  needs `GridInv`, that plans have one size per level inside their bounds.
- `PauseInv` and `OffInv` tie the way out to its reasons and to the mempool: a cancel that is awaited is
  the one transaction there, one that was confirmed left neither ladder nor transaction.
- `LadderStaysInRange` and `GeometryIsPinned` share `PinnedInv`: saved and running plan have one geometry
  while the loop runs, a placement is sent only for the plan just saved, nothing rests before the first
  save. A crash may fall between any two of these. All of it is under `PlanIsKept`: a start under another
  fee tier (`StartEffect`) is the one step besides the save that writes the plan.
- `ExtendInv`: in a first process the configured and the pinned bounds move together (after a restart they
  may not; see above).
- `FundingIsBounded` needs arithmetic of sums over the price axis (`TotalOfDisjoint`, `TotalOfLess`,
  `GridSplit`): `FitsInv`, that the bids of a ladder are levels of the grid below the price, `WaitsInv`,
  that nothing is in flight outside a wait, and `FundingInv`, that what the purchase was computed from is
  not less than what is held together with the bids that may still fill.

**`TerminalUIProofs`**: `UiTypeCorrect`, `GridIsOfTheSettings`, `InstructionsAreOfTheSettings`,
`OneSnapshotUnderWay`, `SelectionStaysOnGrid`, `LoadIsAnswered` (a picker that says it is loading has a task that
will answer, `MarketLoadNotLost`, which no run checks), `DetailIsOfTheRow`, for any sessions, listing, size of
the terminal and number of revisions.

- `Touch(a, b)` is what handling an event may do to `App`: the settings change and the grid goes, or the
  grid stays with the selection inside; no load begins, no answer comes in. One lemma per method of `App`
  and per mode of `handle_event` shows it, up to `HandledTouches` for all events.
- `TuiInv` has what is on display, its sources, the detail and the selection (`ShownInv`), and of the tasks
  (`TasksInv`) the two properties and that no snapshot is under way for a revision still to come:
  without this a change of the settings could meet the answer of a task it never started.
- That the grid and the instructions agree with the settings in force needs `BuiltInv`: so do the client that was
  built and what the task of the current revision was given, half-typed fields aside. A step that changes a
  setting in force advances the revision, which drops all of them (`SettingsChanged`,
  `AfterRevisionCheck`); the instructions take the keys, so that nothing but the saving of an edit that was
  open before them can happen underneath (`FundingFits`).
- `Geometry`, `FirstIndexBound` and `KeepVisible` are the division arithmetic of the price board.

**`SeqLemmas`**: the provers cannot instantiate an induction theorem, whose parameter is an operator. Here
induction is over a set instead: a set of naturals that is not empty has a least element
(`LeastNatural`, from the well-founded order of the naturals), so the set of counterexamples is empty
(`Induction`), and a function over an index is what its recursive definition says (`Recursion`). On that
rest the laws of `Keep`, `Fold`, `SumOf`, `Power` and of `FlattenSeq` at the end of a sequence, and what they
preserve: the type, the order, the length, a bound of each element on the sum.

**`SpotEventsProofs`**: `LossReachesTheLoop`, `StreamTypeCorrect`, `JournalIsInOrder`.

- `HeldInv` (only an open connection holds frames, so that a connection that never came about loses nothing)
  and `MissedInv` (what was missed was missed after a first subscription, so that the next connection
  announces itself) make `LossIsAnnounced` inductive; the two lemmas on the channel say that a marker
  survives an append and the removal of another event.
- `EventsTypeOK` needs `SessionsInv`: sessions that were counted, and the one that is open, are at most the
  connections made, so that there is a number for the next marker; and `OutboxInv`: the listener is sending
  exactly while there is something left of a frame. That the channel stays within `Capacity` is part of
  the type.
- `JournalFollowsVenue` is an equation between concatenations. Each step moves events from one
  part of the right side to the next, or appends to both sides; the laws of `Keep` and `FlattenSeq` say
  that filtering foreign records and markers commutes with the concatenation.

**`GridBotProofs`**: `SidesFitTheVenue`, `PlansTypeCorrect`, `AcceptanceOfSoundPlans`, `BudgetsAreKept`,
`ComparisonIsExact`, `ProcessIsTheUi`, `ProcessIsTheStream`, `ProcessIsThePlans`, `ProcessTypeCorrect`,
`ProcessKeepsItsParts`, for any settings, prices, balances, limits and orders.

- `SidesFitTheVenue`, with the rounding lemma `RoundsToNearest`: however the mid divides the range, each
  side has at least one level and no more than a bulk order may have, and no configured level is dropped.
- What `build_plan` returns is followed from there through the prices (naturals, without doubles, ordered
  away from the mid, on their side of the mid of a Perp market), the sizes (what they cost at these prices is
  within the share of each side) to the plan (`PlanOfSizes`), then through `Project` (stable sorting
  keeps the levels and orders them), `ResizeAsks` (scaled down, never up) and `ApplyTradeHistory`.
- `PlanInv` adds to the types what a step needs of the last one: a loop that is not paused is below its limit of
  failures, it places only a ladder (both sides sorted away from the mid, bids not above asks), a pinned
  plan is a Spot plan that keeps the budget and has set aside the base of its asks, the plan of the last
  cycle is a ladder, and of a Perp grid within the limits of the venue and the budget. `SoundPlansAreAccepted`
  and `BudgetsKept` follow from it.
- `ReconcileIsExact` needs no invariant but the types. `SplitsUp` is the invariant of the matching, order by
  order: each wanted order of a kind took an open one or is missing, and one is missing only where all open
  orders of the kind are taken; the counts in the report follow, for any two lists.
- `ProcessIsTheUi`, `ProcessIsTheStream`, `ProcessIsThePlans`: the process implements each part, so that
  what was proved of the parts holds of the specification the run checks.

Only model-checked: liveness, for which TLAPS has no proofs under fairness here (`CallsReturn`,
`HashedCommits`, `LimitUnwinds`, `Converges`, `StopsPromptly`). Of the three violated properties
nothing is to be proved.

## Not modelled

Rendering, texts, configuration parsing, file formats, HTTP and WebSocket plumbing, cryptography, gas.
Dry-run (sends nothing).

- `MarketMaker`: prices, adaptive spread, margin statistics, the sign of the
  position. Bot state, alerts, and the log sink, which change nothing the strategy reads.
- `GridRun`: the slices inside one guarded purchase or sale, the lock file (a second process simply does
  not start), a configuration that the operator changes before a restart (it starts a new state, as a changed
  fee tier does, which is modelled). Of the Perp path,
  `GridPlanning` has the cycle up to the placement, not the exit.
- `SpotEvents`: what a record carries besides its kind.
- `TerminalUI`: scrolling and selecting text in the funding dialog, highlights, the clipboard, layout.
- Dead code: `fund_spot_base_for_grid`, `fund_spot_quote_for_grid` and with them
  `compute_spot_taker_funding` (`lib.rs`), which nothing but tests reaches, and the block of `tui_loop`
  behind `execute_requested`.
- Sub-commands that only print (`status`, `check-key`), `spot-funding-setup` (one transfer). The
  Python bot.

## Plan

Done: 1 `TxSubmitter` with its abstract allocator and proofs; 2 `MarketMaker`; 3 `GridRun`; 4 `BulkOrders`
(several markets over `TxSubmitter`, the bulk sequence number); 5 `GridPlanning` (plans, sizes, placement
checks, reconciliation); 7 `SpotEvents` and `TerminalUI`.

6. `EntryPrice` (`botstate`), quote pricing and adaptive spread against reference definitions; `SpotTaker`
   slice by slice.
8. `TeeSink` and the alert loops; the Python bot, where it differs from the Rust one.

Theorems next: an abstract ladder that is either off or inside one fixed range, implemented by `GridRun`;
an abstract market of one owner that is quoting, unwinding or paused, implemented by `MarketMaker`; the
failure circuit of the Perp cycle, which pauses after exactly its limit of failures in a row.
