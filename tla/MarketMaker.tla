---------------------------- MODULE MarketMaker ----------------------------
(***************************************************************************)
(* strategy/market_maker.go over exchange/decibel/decibel.go, one market:  *)
(* the cycle goroutine (Run, runCycle, the auto-flatten escalation and the *)
(* shutdown cancel) and the operator goroutine that Telegram and the WebUI *)
(* drive (Pause, Resume, FlattenPosition).  Every exchange call is split   *)
(* at its REST read, its submission and its wait, so that fills, the other *)
(* goroutine and a lagging REST view come in between.                      *)
(***************************************************************************)
EXTENDS Venue

CONSTANTS
  MaxInventory,   \* cfg.MaxInventory, in fills
  Configs,        \* the configurations and fault sets to explore
  Commands        \* bound: what the operator may ask for, of "pause", "resume", "flatten"

\* stall: FlattenRepriceStallCycles; force: FlattenForceSeconds > 0; quotable: the order
\* size rounds to something the market takes; faults: what the environment may do.
Faults == {"lag", "timeout", "lostReply", "noId"}
ConfigSpace ==
  [auto : BOOLEAN, force : BOOLEAN, quotable : BOOLEAN, stall : Nat, faults : SUBSET Faults]

ASSUME MarketMakerAssumption ==
  /\ Actors = {"cycle", "operator"}
  /\ MaxInventory \in 1 .. InvCap
  /\ Configs \subseteq ConfigSpace

VARIABLES
  cfg,            \* the configuration of this process
  req,            \* req[a]: the exchange call goroutine a is in
  pc,             \* where Run and runCycle are
  snap,           \* this cycle's StateSnapshot: inventory, is the last flatten order open;
                  \* NoSnap once nothing of it is used any more
  invLimitBulkCancelDone,
  lastFlattenOrderID,
  flattenStallCycles,
  flattenStuckSince,   \* "zero", "running", or "due" once FlattenForceSeconds have passed
  backoff,             \* now is before bulkOrderBackoffUntil
  stopping,            \* Run's context is cancelled
  attempt,             \* shutdown cancel attempts
  pause,               \* paused, and what became of the cancel that Pause asked for
  late,                \* history: bulk placements the node took since the last Pause
  episode              \* history: resting orders the cycle posted since inventory last recovered

flattenVars == <<lastFlattenOrderID, flattenStallCycles, flattenStuckSince>>
strategyVars == <<pc, snap, invLimitBulkCancelDone, flattenVars, backoff, attempt>>
vars == <<venueVars, cfg, req, strategyVars, stopping, pause, late, episode>>

Idle == [op |-> "none", id |-> NoId, phase |-> "idle"]

Requests ==
  [op : Ops, id : Ids \cup {NoId}, phase : {"reading", "sending", "waiting", "ok", "err"}]
    \cup {Idle}

\* paused is every state but "off".  "cancelling", "clean": a Pause(cancelResting) has its
\* cancel under way, has returned no error.
PauseStates == {"off", "on", "cancelling", "clean"}

Places == {"sleep", "cancelling", "flatten", "forceCancel", "forceIOC", "reprice",
           "posting", "placing", "shutdown", "clean exit", "failed exit"}

TypeOK ==
  /\ VenueTypeOK
  /\ cfg \in Configs
  /\ req \in [Actors -> Requests]
  /\ pc \in Places
  /\ snap \in [inv : 0 .. InvCap, open : BOOLEAN]
  /\ invLimitBulkCancelDone \in BOOLEAN
  /\ lastFlattenOrderID \in Ids \cup {NoId}
  /\ flattenStallCycles \in 0 .. cfg.stall
  /\ flattenStuckSince \in {"zero", "running", "due"}
  /\ backoff \in BOOLEAN
  /\ stopping \in BOOLEAN
  /\ attempt \in 0 .. 3
  /\ pause \in PauseStates
  /\ late \in 0 .. 2
  /\ episode \subseteq resting

NoSnap == [inv |-> 0, open |-> FALSE]

Init ==
  /\ VenueInit
  /\ cfg \in Configs
  /\ req = [a \in Actors |-> Idle]
  /\ pc = "sleep"
  /\ snap = NoSnap
  /\ invLimitBulkCancelDone = FALSE
  /\ lastFlattenOrderID = NoId
  /\ flattenStallCycles = 0
  /\ flattenStuckSince = "zero"
  /\ backoff = FALSE
  /\ stopping = FALSE
  /\ attempt = 0
  /\ pause = "off"
  /\ late = 0
  /\ episode = {}

Exited == pc \in {"clean exit", "failed exit"}

-----------------------------------------------------------------------------
\* exchange/decibel: one call of one goroutine.

\* What REST answers now.
View == IF "lag" \in cfg.faults THEN seen ELSE Book

Phase(a, p) == req' = [req EXCEPT ![a].phase = p]

\* The call is made.  A context that is already cancelled fails it before anything is sent
\* (client.go:149); CancelBulkOrders reads the bulk orders first.
Invoke(a, op, id, ctxDone) ==
  req' = [req EXCEPT ![a] =
            [op |-> op, id |-> id,
             phase |-> IF ctxDone THEN "err"
                       ELSE IF op = "cancelBulk" THEN "reading" ELSE "sending"]]

\* An id for the order the call is about to place: one nobody still refers to.
FreshId(id) ==
  /\ id \notin resting \cup seen.resting \cup {lastFlattenOrderID, pending.id}
  /\ \A a \in Actors : req[a].id # id

\* Bound: the venue has room for as many orders as there are ids; it refuses one more.
InvokePost(a, ctxDone) ==
  \/ \E id \in Ids : FreshId(id) /\ Invoke(a, "post", id, ctxDone)
  \/ (\A id \in Ids : ~FreshId(id)) /\ Invoke(a, "post", NoId, TRUE)

\* CancelBulkOrders submits nothing when REST shows no resting quotes.  The shutdown's
\* reads use a context of their own; a cycle's fail once its context is cancelled.
CancelBulkReads(a) ==
  /\ req[a].phase = "reading"
  /\ a = "cycle" /\ stopping => pc = "shutdown"
  /\ Phase(a, IF View.bulk THEN "sending" ELSE "ok")
  /\ UNCHANGED <<venueVars, cfg, strategyVars, stopping, pause, late, episode>>

\* The read, the build or the submission fails and nothing was sent.
NotSubmitted(a) ==
  /\ req[a].phase \in {"reading", "sending"}
  /\ Phase(a, "err")
  /\ UNCHANGED <<venueVars, cfg, strategyVars, stopping, pause, late, episode>>

\* The node takes the transaction; the answer may get lost.
Submitted(a) ==
  /\ req[a].phase = "sending"
  /\ Accept([op |-> req[a].op, id |-> req[a].id, by |-> a])
  /\ \/ Phase(a, "waiting")
     \/ "lostReply" \in cfg.faults /\ Phase(a, "err")
  /\ late' = IF req[a].op = "place" /\ pause # "off" /\ late < 2 THEN late + 1 ELSE late
  /\ UNCHANGED <<cfg, strategyVars, stopping, pause, episode>>

\* WaitForTransaction gives up on a transaction that is still pending.
WaitGivesUp(a) ==
  /\ req[a].phase = "waiting"
  /\ "timeout" \in cfg.faults
  /\ Phase(a, "err")
  /\ UNCHANGED <<venueVars, cfg, strategyVars, stopping, pause, late, episode>>

\* The pending transaction is settled, and its caller, if it still waits, told.
Answer(p) ==
  req' = [a \in Actors |->
            IF a = pending.by /\ req[a].phase = "waiting"
            THEN [req[a] EXCEPT !.phase = p] ELSE req[a]]

TxExecutes ==
  /\ Execute
  /\ Answer("ok")
  /\ episode' = IF pending.op = "post" /\ pending.by = "cycle"
                THEN episode \cup {pending.id} ELSE episode \cap resting'
  /\ UNCHANGED <<cfg, strategyVars, stopping, pause, late>>

\* CancelOrder counts an order that is already gone as cancelled (client.go:36-40).
TxDiscarded ==
  /\ Discard
  /\ \/ Answer("err")
     \/ /\ pending.op = "cancelOrder"
        /\ pending.id \notin resting
        /\ Answer("ok")
  /\ UNCHANGED <<cfg, strategyVars, stopping, pause, late, episode>>

-----------------------------------------------------------------------------
\* runCycle up to the exchange call it decides on.

\* Mutant: the escalation clock survives the recovery of inventory.
RecoverFlagOnly(i) ==
  /\ invLimitBulkCancelDone' = (invLimitBulkCancelDone /\ i >= MaxInventory)
  /\ UNCHANGED <<flattenVars, episode>>

\* Below the limit the flag is cleared, and with it the episode's bookkeeping.
Recover(i) ==
  /\ invLimitBulkCancelDone' = (invLimitBulkCancelDone /\ i >= MaxInventory)
  /\ IF i < MaxInventory /\ invLimitBulkCancelDone
     THEN /\ lastFlattenOrderID' = NoId
          /\ flattenStallCycles' = 0
          /\ flattenStuckSince' = "zero"
          /\ episode' = {}
     ELSE UNCHANGED <<flattenVars, episode>>

\* FetchState succeeded and the cycle goes on with what it saw.
CycleStart(to) ==
  /\ pc = "sleep"
  /\ ~stopping
  /\ snap' = IF to \in {"sleep", "placing"} THEN NoSnap
             ELSE [inv |-> View.inv, open |-> lastFlattenOrderID \in View.resting]
  /\ pc' = to
  /\ Recover(View.inv)
  /\ UNCHANGED <<venueVars, cfg, backoff, stopping, attempt, pause, late>>

\* The cycle ends without an exchange call: margin too high, no mid price, spread too
\* tight, paused, circuit breaker, or at the limit with auto-flatten off.
CycleStandsDown ==
  /\ CycleStart("sleep")
  /\ UNCHANGED req

AtLimit == View.inv >= MaxInventory

\* Mutant: the pause flag is not looked at.
MayQuoteEvenPaused == ~AtLimit /\ cfg.quotable /\ ~backoff

MayQuote == ~AtLimit /\ cfg.quotable /\ ~backoff /\ pause = "off"

CycleQuotes ==
  /\ MayQuote
  /\ CycleStart("placing")
  /\ Invoke("cycle", "place", NoId, FALSE)

\* ComputeQuotes gave nil: the bulk quotes are cancelled, at the limit only once.
CycleCancelsBulk ==
  /\ \/ AtLimit /\ ~invLimitBulkCancelDone
     \/ ~AtLimit /\ ~cfg.quotable
  /\ CycleStart("cancelling")
  /\ Invoke("cycle", "cancelBulk", NoId, FALSE)

CycleFlattens ==
  /\ AtLimit
  /\ invLimitBulkCancelDone
  /\ cfg.auto
  /\ CycleStart("flatten")
  /\ UNCHANGED req

-----------------------------------------------------------------------------
\* runCycle when the exchange call has returned.

\* The call the cycle made at place p has returned r.
CycleReply(p, r) ==
  /\ pc = p
  /\ req["cycle"].phase = r

CycleEnds(p) ==
  /\ pc' = p
  /\ snap' = IF p = "flatten" THEN snap ELSE NoSnap
  /\ req' = [req EXCEPT !["cycle"] = Idle]

CycleCalls(p) == pc' = p /\ snap' = [snap EXCEPT !.open = FALSE]

\* Mutant: the flag is set although the cancel failed.
DoneWhateverReplied(r) == snap.inv >= MaxInventory

\* "after one successful CancelBulkOrders we skip further on-chain cancels"
DoneAfter(r) == r = "ok" /\ snap.inv >= MaxInventory

CancelBulkReturns(r) ==
  /\ CycleReply("cancelling", r)
  /\ CycleEnds(IF r = "ok" /\ cfg.auto THEN "flatten" ELSE "sleep")
  /\ invLimitBulkCancelDone' = DoneAfter(r)
  /\ UNCHANGED <<venueVars, cfg, flattenVars, backoff, stopping, attempt, pause, late, episode>>

PlaceReturns(r) ==
  /\ CycleReply("placing", r)
  /\ CycleEnds("sleep")
  /\ backoff' = (r = "err")
  /\ UNCHANGED <<venueVars, cfg, invLimitBulkCancelDone, flattenVars, stopping, attempt,
                 pause, late, episode>>

-----------------------------------------------------------------------------
\* handleAutoFlattenAtLimit, with this cycle's snapshot.

flattenFrame == <<venueVars, cfg, invLimitBulkCancelDone, backoff, stopping, attempt,
                  pause, late, episode>>

LastStillOpen == lastFlattenOrderID # NoId /\ snap.open
Started == IF flattenStuckSince = "zero" THEN "running" ELSE flattenStuckSince

\* The POST_ONLY order is placed, unless there is no position to flatten.
PostFlatten ==
  \/ /\ snap.inv > 0
     /\ CycleCalls("posting")
     /\ InvokePost("cycle", stopping)
  \/ snap.inv = 0 /\ CycleEnds("sleep")

\* The forced IOC is placed, unless there is no position to flatten.
ForceIOC ==
  \/ /\ snap.inv > 0
     /\ CycleCalls("forceIOC")
     /\ Invoke("cycle", "ioc", NoId, stopping)
  \/ snap.inv = 0 /\ CycleEnds("sleep")

\* Mutant: the deadline is not looked at.
ForceEarly == cfg.force /\ flattenStuckSince # "zero"

ForceDue == cfg.force /\ flattenStuckSince = "due"

\* Past the deadline: cancel the resting flatten if it was seen open, then go IOC.
ForceClose ==
  /\ pc = "flatten"
  /\ ForceDue
  /\ IF LastStillOpen
     THEN /\ CycleCalls("forceCancel")
          /\ Invoke("cycle", "cancelOrder", lastFlattenOrderID, stopping)
          /\ UNCHANGED flattenVars
     ELSE /\ ForceIOC
          /\ lastFlattenOrderID' = NoId
          /\ flattenStallCycles' = IF lastFlattenOrderID = NoId THEN flattenStallCycles ELSE 0
          /\ UNCHANGED flattenStuckSince
  /\ UNCHANGED flattenFrame

\* A failed cancel is only logged.
ForceCancelReturns ==
  /\ \E r \in {"ok", "err"} : CycleReply("forceCancel", r)
  /\ ForceIOC
  /\ lastFlattenOrderID' = NoId
  /\ flattenStallCycles' = 0
  /\ UNCHANGED <<flattenFrame, flattenStuckSince>>

ForceReturns ==
  /\ \E r \in {"ok", "err"} : CycleReply("forceIOC", r)
  /\ CycleEnds("sleep")
  /\ UNCHANGED <<flattenFrame, flattenVars>>

\* The last order still rests: count the stall, and reprice at the limit of it.
KeepResting ==
  /\ pc = "flatten"
  /\ ~ForceDue
  /\ LastStillOpen
  /\ flattenStuckSince' = Started
  /\ UNCHANGED lastFlattenOrderID
  /\ \/ /\ cfg.stall = 0 \/ flattenStallCycles + 1 < cfg.stall
        /\ flattenStallCycles' = IF cfg.stall = 0 THEN flattenStallCycles ELSE flattenStallCycles + 1
        /\ CycleEnds("sleep")
     \/ /\ cfg.stall > 0 /\ flattenStallCycles + 1 >= cfg.stall
        /\ flattenStallCycles' = cfg.stall   \* counts on, but is only compared with the limit
        /\ CycleCalls("reprice")
        /\ Invoke("cycle", "cancelOrder", lastFlattenOrderID, stopping)
  /\ UNCHANGED flattenFrame

\* Mutant: an order that is still resting is forgotten.
PlaceFlattenAnyway ==
  /\ pc = "flatten"
  /\ ~ForceDue
  /\ PostFlatten
  /\ flattenStuckSince' = Started
  /\ lastFlattenOrderID' = NoId
  /\ flattenStallCycles' = 0
  /\ UNCHANGED flattenFrame

\* No last order, or it was not among the open orders: place one.
PlaceFlatten ==
  /\ pc = "flatten"
  /\ ~ForceDue
  /\ ~LastStillOpen
  /\ PostFlatten
  /\ flattenStuckSince' = Started
  /\ lastFlattenOrderID' = NoId
  /\ flattenStallCycles' = IF lastFlattenOrderID = NoId THEN flattenStallCycles ELSE 0
  /\ UNCHANGED flattenFrame

\* Mutant: a reprice gives the position a fresh grace period.
RepriceReturnsWithGrace ==
  /\ CycleReply("reprice", "ok")
  /\ PostFlatten
  /\ lastFlattenOrderID' = NoId
  /\ flattenStallCycles' = 0
  /\ flattenStuckSince' = "zero"
  /\ UNCHANGED flattenFrame

RepriceReturns ==
  /\ CycleReply("reprice", "ok")
  /\ PostFlatten
  /\ lastFlattenOrderID' = NoId
  /\ flattenStallCycles' = 0
  /\ UNCHANGED <<flattenFrame, flattenStuckSince>>

RepriceFails ==
  /\ CycleReply("reprice", "err")
  /\ CycleEnds("sleep")
  /\ UNCHANGED <<flattenFrame, flattenVars>>

\* The events of the transaction may not tell the order id (OrderIDFromEvents).
PostReturns ==
  /\ CycleReply("posting", "ok")
  /\ CycleEnds("sleep")
  /\ \/ lastFlattenOrderID' = req["cycle"].id
     \/ "noId" \in cfg.faults /\ lastFlattenOrderID' = NoId
  /\ flattenStallCycles' = 0
  /\ UNCHANGED <<flattenFrame, flattenStuckSince>>

PostFails ==
  /\ CycleReply("posting", "err")
  /\ CycleEnds("sleep")
  /\ UNCHANGED <<flattenFrame, flattenVars>>

-----------------------------------------------------------------------------
\* Run: the context, and the shutdown cancel.

Stop ==
  /\ ~stopping
  /\ stopping' = TRUE
  /\ UNCHANGED <<venueVars, cfg, req, strategyVars, pause, late, episode>>

\* Between two cycles Run sees the cancelled context.
ShutdownBegins ==
  /\ pc = "sleep"
  /\ stopping
  /\ pc' = "shutdown"
  /\ attempt' = 1
  /\ Invoke("cycle", "cancelBulk", NoId, FALSE)
  /\ UNCHANGED <<venueVars, cfg, snap, invLimitBulkCancelDone, flattenVars, backoff, stopping,
                 pause, late, episode>>

\* Mutant: a failed attempt ends the shutdown as if it had succeeded.
ShutdownGivesUpQuietly ==
  /\ \E r \in {"ok", "err"} : CycleReply("shutdown", r)
  /\ CycleEnds("clean exit")
  /\ UNCHANGED <<flattenFrame, flattenVars>>

ShutdownSucceeds ==
  /\ CycleReply("shutdown", "ok")
  /\ CycleEnds("clean exit")
  /\ UNCHANGED <<flattenFrame, flattenVars>>

\* Mutant: the attempts are not counted against their maximum.
ShutdownRetriesForever ==
  /\ CycleReply("shutdown", "err")
  /\ attempt' = attempt + 1
  /\ Invoke("cycle", "cancelBulk", NoId, FALSE)
  /\ UNCHANGED <<venueVars, cfg, pc, snap, invLimitBulkCancelDone, flattenVars, backoff, stopping,
                 pause, late, episode>>

\* Three attempts, unless the shutdown deadline comes first.
ShutdownRetries ==
  /\ CycleReply("shutdown", "err")
  /\ attempt < 3
  /\ attempt' = attempt + 1
  /\ Invoke("cycle", "cancelBulk", NoId, FALSE)
  /\ UNCHANGED <<venueVars, cfg, pc, snap, invLimitBulkCancelDone, flattenVars, backoff, stopping,
                 pause, late, episode>>

ShutdownFails ==
  /\ CycleReply("shutdown", "err")
  /\ CycleEnds("failed exit")
  /\ UNCHANGED <<flattenFrame, flattenVars>>

-----------------------------------------------------------------------------
\* The operator, one command at a time.

operatorFrame == <<venueVars, cfg, strategyVars, stopping, episode>>

\* The operator is free to give this command.
Command(c) == c \in Commands /\ ~Exited /\ req["operator"] = Idle

Pause(cancelResting) ==
  /\ Command("pause")
  /\ pause' = IF cancelResting THEN "cancelling" ELSE "on"
  /\ late' = 0
  /\ IF cancelResting THEN Invoke("operator", "cancelBulk", NoId, FALSE) ELSE UNCHANGED req
  /\ UNCHANGED operatorFrame

Resume ==
  /\ Command("resume")
  /\ pause # "off"
  /\ pause' = "off"
  /\ late' = 0
  /\ UNCHANGED <<operatorFrame, req>>

\* FlattenPosition works on a live snapshot and leaves lastFlattenOrderID alone.
FlattenPosition ==
  /\ Command("flatten")
  /\ View.inv > 0
  /\ InvokePost("operator", FALSE)
  /\ UNCHANGED <<operatorFrame, pause, late>>

OperatorReply ==
  /\ ~Exited
  /\ req["operator"].phase \in {"ok", "err"}
  /\ req' = [req EXCEPT !["operator"] = Idle]
  /\ pause' = IF pause # "cancelling" \/ req["operator"].op # "cancelBulk" THEN pause
              ELSE IF req["operator"].phase = "ok" THEN "clean" ELSE "on"
  /\ UNCHANGED <<operatorFrame, late>>

-----------------------------------------------------------------------------
\* Time and the market.

Deadline ==
  /\ cfg.force
  /\ flattenStuckSince = "running"
  /\ flattenStuckSince' = "due"
  /\ UNCHANGED <<venueVars, cfg, req, pc, snap, invLimitBulkCancelDone, lastFlattenOrderID,
                 flattenStallCycles, backoff, attempt, stopping, pause, late, episode>>

BackoffEnds ==
  /\ backoff
  /\ backoff' = FALSE
  /\ UNCHANGED <<venueVars, cfg, req, pc, snap, invLimitBulkCancelDone, flattenVars, attempt,
                 stopping, pause, late, episode>>

Market ==
  /\ \/ FillBulk
     \/ \E id \in Ids : FillFlatten(id) \/ VenueCancels(id)
     \/ "lag" \in cfg.faults /\ \E f \in {"inv", "bulk", "resting"} : Catchup(f)
  /\ episode' = episode \cap resting'
  /\ UNCHANGED <<cfg, req, strategyVars, stopping, pause, late>>

\* The process has exited; the market goes on.
Over == Exited /\ pending = NoTx /\ UNCHANGED vars

Exchange(a) ==
  /\ ~Exited
  /\ CancelBulkReads(a) \/ NotSubmitted(a) \/ Submitted(a) \/ WaitGivesUp(a)

Cycle ==
  \/ CycleStandsDown \/ CycleQuotes \/ CycleCancelsBulk \/ CycleFlattens
  \/ \E r \in {"ok", "err"} : CancelBulkReturns(r) \/ PlaceReturns(r)
  \/ ForceClose \/ ForceCancelReturns \/ ForceReturns
  \/ KeepResting \/ PlaceFlatten
  \/ RepriceReturns \/ RepriceFails \/ PostReturns \/ PostFails
  \/ ShutdownBegins \/ ShutdownSucceeds \/ ShutdownRetries \/ ShutdownFails

Operator == Pause(TRUE) \/ Pause(FALSE) \/ Resume \/ FlattenPosition \/ OperatorReply

Next ==
  \/ Cycle
  \/ Operator
  \/ \E a \in Actors : Exchange(a)
  \/ TxExecutes \/ TxDiscarded
  \/ Stop \/ Deadline \/ BackoffEnds \/ Market
  \/ Over

Spec == Init /\ [][Next]_vars

\* The loop keeps cycling and every call it makes comes to an end; a cycle is not stopped
\* for ever by a guard, nor every submission by an error; an IOC priced through the book
\* that is tried again and again once fills.
Fairness ==
  /\ SF_vars(CycleCancelsBulk) /\ SF_vars(CycleFlattens)
  /\ WF_vars(Cycle /\ pc # "sleep")
  /\ SF_vars(CancelBulkReads("cycle") /\ ~Exited) /\ SF_vars(Submitted("cycle") /\ ~Exited)
  /\ WF_vars(TxExecutes \/ TxDiscarded) /\ SF_vars(TxExecutes /\ pending.op = "cancelBulk")
  /\ SF_vars(TxExecutes /\ pending.op = "ioc" /\ inv' < inv)
  /\ WF_vars(Deadline)

FairSpec == Spec /\ Fairness

-----------------------------------------------------------------------------
\* Properties.

Pending(op, a) == pending.op = op /\ pending.by = a

\* README.md:369: at the inventory limit "bulk quotes are off".  Once the flag that stops
\* further cancels is set, no quote rests and none is on its way.
QuotesOffAtLimit ==
  invLimitBulkCancelDone => ~bulk /\ ~Pending("place", "cycle")

\* The same where REST is current and the outcome of every submission is learnt.
QuotesOffWithoutFaults ==
  cfg.faults \subseteq {"noId"} => QuotesOffAtLimit

\* market_maker.go:69-72: while inventory stays at the limit flatten orders do not
\* accumulate: of those the cycle placed since the last recovery at most one rests.
OneFlattenAtATime ==
  \A x, y \in episode : x = y

OneFlattenWithoutFaults ==
  cfg.faults = {} => OneFlattenAtATime

\* market_maker.go:78-85: the escalation clock is "reset only when inventory recovers below
\* MaxInventory" and then always: a cycle that quotes again finds no clock
\* running and no flatten order remembered.
NoClockWhileQuoting ==
  pc = "placing" =>
    flattenStuckSince = "zero" /\ flattenStallCycles = 0 /\ lastFlattenOrderID = NoId

\* README.md:359: the forced taker exit is for a position "stuck at the inventory limit".
ForceOnlyAtLimit ==
  pc \in {"forceCancel", "forceIOC"} =>
    flattenStuckSince = "due" /\ snap.inv >= MaxInventory

ForceOnlyAtLimitIfQuotable ==
  cfg.quotable => ForceOnlyAtLimit

\* market_maker.go:81-83: an escalation that is due stays due, through reprices, partial fills
\* and failed attempts, until a cycle sees inventory below the limit.
EscalationSticks ==
  [][flattenStuckSince = "due" /\ flattenStuckSince' # "due" => ~AtLimit]_vars

\* Pause lets at most the placement already decided on through, whatever is lost or late.
AtMostOneLatePlacement ==
  pause # "off" => late <= 1

\* market_maker.go:142 and i18n/telegram.go:289: "Paused: resting orders cancelled": after
\* a Pause(cancelResting) that returned no error no bulk quotes rest until Resume.
PauseCancelHolds ==
  pause = "clean" => ~bulk

\* Run returns nil only when the bulk quotes are off the book and stay off.
CleanExit ==
  cfg.faults \subseteq {"noId"} /\ pc = "clean exit" => ~bulk /\ pending.op # "place"

\* market_maker.go:593-595: with the escalation on, a position at the limit is unwound, as
\* long as the operator's own transactions do not keep the account busy.
LimitUnwinds ==
  (inv >= MaxInventory /\ cfg.auto /\ cfg.force /\ cfg.faults = {})
    ~> (inv < MaxInventory \/ stopping)
=============================================================================
