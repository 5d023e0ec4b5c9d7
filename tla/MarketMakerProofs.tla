------------------------- MODULE MarketMakerProofs -------------------------
(***************************************************************************)
(* Theorems about MarketMaker for any set of configurations, any inventory *)
(* limit and any number of order ids.                                      *)
(***************************************************************************)
EXTENDS MarketMaker, TLAPS

-----------------------------------------------------------------------------
(* Type correctness.  An order is posted with an id of its own: a call that *)
(* found none free has failed before anything was sent.                     *)

CallsTyped ==
  /\ req \in [Actors -> Requests]
  /\ \A a \in Actors : req[a].op = "post" /\ req[a].phase # "err" => req[a].id \in Ids

TypeInv ==
  /\ TypeOK
  /\ CallsTyped
  /\ pending.op = "post" => pending.id \in Ids

(* The calls that have been made, whatever became of them. *)
Made ==
  [op : Ops, id : Ids \cup {NoId}, phase : {"reading", "sending", "waiting", "ok", "err"}]

(* The configuration is one of the configuration space. *)
LEMMA ConfigType ==
  ASSUME cfg \in Configs
  PROVE  /\ cfg.auto \in BOOLEAN /\ cfg.force \in BOOLEAN /\ cfg.quotable \in BOOLEAN
         /\ cfg.stall \in Nat
         /\ cfg.faults \subseteq Faults
  BY MarketMakerAssumption DEF MarketMakerAssumption, ConfigSpace

(* What REST answers is a view of the market, whether it lags or not. *)
LEMMA ViewType ==
  ASSUME VenueTypeOK
  PROVE  View.inv \in 0 .. InvCap /\ View.bulk \in BOOLEAN /\ View.resting \subseteq Ids
  BY DEF VenueTypeOK, View, Views, Book

(* A call that is made is well-typed, and a post has an id unless it failed. *)
LEMMA InvokeType ==
  ASSUME TypeInv, NEW a \in Actors, NEW op \in Ops, NEW id \in Ids \cup {NoId},
         NEW ctxDone \in BOOLEAN,
         op = "post" => id \in Ids \/ ctxDone,
         Invoke(a, op, id, ctxDone)
  PROVE  /\ CallsTyped'
<1> DEFINE r == [op |-> op, id |-> id,
                 phase |-> IF ctxDone THEN "err"
                           ELSE IF op = "cancelBulk" THEN "reading" ELSE "sending"]
<1>1. r \in Requests
  BY DEF Requests, Ops
<1>2. r.op = "post" /\ r.phase # "err" => r.id \in Ids
  OBVIOUS
<1>3. req' = [req EXCEPT ![a] = r]
  BY DEF Invoke
<1>4. QED
  BY <1>1, <1>2, <1>3 DEF TypeInv, TypeOK, CallsTyped, Made

(* The same of a post with any free id, or with none. *)
LEMMA InvokePostType ==
  ASSUME TypeInv, NEW a \in Actors, NEW ctxDone \in BOOLEAN, InvokePost(a, ctxDone)
  PROVE  /\ CallsTyped'
<1>1. "post" \in Ops
  BY DEF Ops
<1>2. CASE \E id \in Ids : FreshId(id) /\ Invoke(a, "post", id, ctxDone)
  <2>1. PICK id \in Ids : Invoke(a, "post", id, ctxDone)
    BY <1>2
  <2>2. id \in Ids \cup {NoId}
    OBVIOUS
  <2>3. QED BY <1>1, <2>1, <2>2, InvokeType
<1>3. CASE Invoke(a, "post", NoId, TRUE)
  <2>1. NoId \in Ids \cup {NoId} /\ TRUE \in BOOLEAN
    OBVIOUS
  <2>2. QED BY <1>1, <1>3, <2>1, InvokeType
<1>4. QED BY <1>2, <1>3 DEF InvokePost

(* The step of a call from one phase to another keeps both. *)
LEMMA PhaseType ==
  ASSUME TypeInv, NEW a \in Actors, NEW p \in {"sending", "waiting", "ok", "err"},
         req[a].phase \in {"reading", "sending", "waiting"}, Phase(a, p)
  PROVE  /\ CallsTyped'
<1>1. req[a] \in Made
  BY DEF TypeInv, TypeOK, Requests, Made, Idle
<1>2. [req[a] EXCEPT !.phase = p] \in Requests
  BY <1>1 DEF Requests, Made
<1>3. req' = [req EXCEPT ![a] = [req[a] EXCEPT !.phase = p]]
  BY DEF Phase, TypeInv, TypeOK
<1>4. QED
  BY <1>1, <1>2, <1>3 DEF TypeInv, TypeOK, CallsTyped, Made

LEMMA TypeInit == Init => TypeInv
<1> SUFFICES ASSUME Init PROVE TypeInv
  OBVIOUS
<1> USE MarketMakerAssumption, VenueAssumption DEF MarketMakerAssumption, VenueAssumption, Init
<1>1. VenueTypeOK
  BY DEF VenueInit, VenueTypeOK, Views, Book, Txs
<1>2. Idle \in Requests /\ req = [a \in Actors |-> Idle]
  BY DEF Requests
<1>3. req \in [Actors -> Requests]
  BY <1>2
<1>4. cfg.stall \in Nat
  BY ConfigType
<1>5. snap \in [inv : 0 .. InvCap, open : BOOLEAN]
  BY DEF NoSnap
<1>6. flattenStallCycles \in 0 .. cfg.stall
  BY <1>4
<1>7. TypeOK
  <2>1. /\ pc \in Places /\ pause \in PauseStates
        /\ invLimitBulkCancelDone \in BOOLEAN /\ backoff \in BOOLEAN /\ stopping \in BOOLEAN
    BY DEF Places, PauseStates
  <2>2. late \in 0 .. 2 /\ attempt \in 0 .. 3 /\ episode \subseteq resting
    OBVIOUS
  <2>3. lastFlattenOrderID \in Ids \cup {NoId} /\ flattenStuckSince \in {"zero", "running", "due"}
    OBVIOUS
  <2>4. cfg \in Configs
    OBVIOUS
  <2>5. QED BY ONLY <1>1, <1>3, <1>5, <1>6, <2>1, <2>2, <2>3, <2>4 DEF TypeOK
<1>8. CallsTyped /\ pending.op # "post"
  BY <1>3 DEF CallsTyped, VenueInit, NoTx, Idle
<1>9. QED BY <1>7, <1>8 DEF TypeInv

(* What a cycle does to the escalation once its snapshot is taken keeps the types. *)
LEMMA CycleStartType ==
  ASSUME TypeInv, NEW p \in Places, CycleStart(p),
         CallsTyped'
  PROVE  TypeInv'
<1> USE DEF TypeInv, TypeOK, CallsTyped, CycleStart
<1>1. View.inv \in 0 .. InvCap
  BY ViewType
<1>2. VenueTypeOK'
  BY DEF VenueTypeOK, venueVars
<1>3. snap' \in [inv : 0 .. InvCap, open : BOOLEAN]
  <2>1. NoSnap \in [inv : 0 .. InvCap, open : BOOLEAN]
    BY VenueAssumption DEF VenueAssumption, NoSnap
  <2>2. (lastFlattenOrderID \in View.resting) \in BOOLEAN
    OBVIOUS
  <2>3. ASSUME NEW o \in BOOLEAN
        PROVE  [inv |-> View.inv, open |-> o] \in [inv : 0 .. InvCap, open : BOOLEAN]
    BY <1>1
  <2>4. QED BY <2>1, <2>2, <2>3
<1>4. /\ invLimitBulkCancelDone' \in BOOLEAN /\ lastFlattenOrderID' \in Ids \cup {NoId}
      /\ flattenStallCycles' \in 0 .. cfg.stall
      /\ flattenStuckSince' \in {"zero", "running", "due"}
  BY ConfigType DEF Recover, flattenVars
<1>5. episode' \subseteq resting'
  BY DEF Recover, venueVars
<1>6. QED
  BY <1>2, <1>3, <1>4, <1>5 DEF venueVars

(* What the strategy does between two steps of the venue keeps the types. *)
LEMMA StrategyType ==
  ASSUME TypeInv, UNCHANGED <<venueVars, cfg, episode>>,
         CallsTyped',
         pc' \in Places, snap' \in [inv : 0 .. InvCap, open : BOOLEAN],
         invLimitBulkCancelDone' \in BOOLEAN, lastFlattenOrderID' \in Ids \cup {NoId},
         flattenStallCycles' \in 0 .. cfg.stall,
         flattenStuckSince' \in {"zero", "running", "due"},
         backoff' \in BOOLEAN, stopping' \in BOOLEAN, attempt' \in 0 .. 3,
         pause' \in PauseStates, late' \in 0 .. 2
  PROVE  TypeInv'
  BY DEF TypeInv, TypeOK, CallsTyped, venueVars, VenueTypeOK

(* A call that has returned is forgotten; the cycle goes to p. *)
LEMMA CycleEndsType ==
  ASSUME TypeInv, NEW p \in Places, CycleEnds(p)
  PROVE  /\ CallsTyped'
         /\ pc' \in Places /\ snap' \in [inv : 0 .. InvCap, open : BOOLEAN]
<1>1. Idle \in Requests /\ Idle.op = "none"
  BY DEF Requests, Made, Idle
<1>2. NoSnap \in [inv : 0 .. InvCap, open : BOOLEAN]
  BY VenueAssumption DEF VenueAssumption, NoSnap
<1>3. req' \in [Actors -> Requests]
  BY <1>1 DEF TypeInv, TypeOK, CycleEnds
<1>4. ASSUME NEW b \in Actors, req'[b].op = "post" /\ req'[b].phase # "err"
      PROVE  req'[b].id \in Ids
  BY <1>1, <1>4 DEF TypeInv, TypeOK, CallsTyped, CycleEnds
<1>5. QED
  BY <1>2, <1>3, <1>4 DEF TypeInv, TypeOK, CallsTyped, CycleEnds

(* The cycle's next call is made from place p. *)
LEMMA CycleCallsType ==
  ASSUME TypeInv, NEW p \in Places, CycleCalls(p)
  PROVE  pc' \in Places /\ snap' \in [inv : 0 .. InvCap, open : BOOLEAN]
  BY DEF TypeInv, TypeOK, CycleCalls

(* The calls of both goroutines keep the types. *)
LEMMA ExchangeType ==
  ASSUME TypeInv, NEW a \in Actors, Exchange(a)
  PROVE  TypeInv'
<1> USE DEF TypeInv
<1>1. CASE CancelBulkReads(a)
  <2>1. PICK p \in {"sending", "ok"} : Phase(a, p)
    BY <1>1 DEF CancelBulkReads
  <2>2. p \in {"sending", "waiting", "ok", "err"} /\ req[a].phase \in {"reading", "sending", "waiting"}
    BY <1>1 DEF CancelBulkReads
  <2>3. QED BY <1>1, <2>1, <2>2, PhaseType, StrategyType DEF CancelBulkReads, TypeOK, strategyVars, flattenVars
<1>2. CASE NotSubmitted(a) \/ WaitGivesUp(a)
  <2>1. Phase(a, "err") /\ req[a].phase \in {"reading", "sending", "waiting"}
    BY <1>2 DEF NotSubmitted, WaitGivesUp
  <2>2. QED
    BY <1>2, <2>1, PhaseType, StrategyType
       DEF NotSubmitted, WaitGivesUp, TypeOK, strategyVars, flattenVars
<1>3. CASE Submitted(a)
  <2>1. req[a].phase = "sending" /\ UNCHANGED <<inv, bulk, resting, seen, episode>>
    BY <1>3 DEF Submitted, Accept
  <2>2. PICK p \in {"waiting", "err"} : Phase(a, p)
    BY <1>3 DEF Submitted
  <2>3. p \in {"sending", "waiting", "ok", "err"} /\ req[a].phase \in {"reading", "sending", "waiting"}
    BY <2>1
  <2>4. CallsTyped'
    BY <2>2, <2>3, PhaseType
  <2>5. req[a] \in Made
    BY <2>1 DEF TypeOK, Requests, Made, Idle
  <2>6. pending' = [op |-> req[a].op, id |-> req[a].id, by |-> a]
    BY <1>3 DEF Submitted, Accept
  <2>7. pending' \in Txs /\ (pending'.op = "post" => pending'.id \in Ids)
    BY <2>1, <2>5, <2>6 DEF Txs, Made, CallsTyped
  <2>8. VenueTypeOK'
    BY <2>1, <2>7 DEF TypeOK, VenueTypeOK
  <2>9. late' \in 0 .. 2
    BY <1>3 DEF Submitted, TypeOK
  <2>10. QED
    BY <1>3, <2>1, <2>4, <2>7, <2>8, <2>9 DEF Submitted, TypeOK, CallsTyped, strategyVars, flattenVars
<1>4. QED BY <1>1, <1>2, <1>3 DEF Exchange

(* Telling the caller what became of the pending transaction keeps the types. *)
LEMMA AnswerType ==
  ASSUME TypeInv, NEW p \in {"ok", "err"}, Answer(p)
  PROVE  /\ CallsTyped'
<1>1. ASSUME NEW a \in Actors, req[a].phase = "waiting"
      PROVE  [req[a] EXCEPT !.phase = p] \in Requests
  BY <1>1 DEF TypeInv, TypeOK, Requests, Made, Idle
<1>2. req' \in [Actors -> Requests]
  BY <1>1 DEF Answer, TypeInv, TypeOK
<1>3. ASSUME NEW b \in Actors, req'[b].op = "post", req'[b].phase # "err" PROVE req'[b].id \in Ids
  <2>1. req'[b] = req[b] \/ (req[b].phase = "waiting" /\ req'[b] = [req[b] EXCEPT !.phase = p])
    BY DEF Answer
  <2>2. CASE req[b].phase = "waiting" /\ req'[b] = [req[b] EXCEPT !.phase = p]
    <3>1. req[b] \in Made
      BY <2>2 DEF TypeInv, TypeOK, Requests, Made, Idle
    <3>2. req'[b].op = req[b].op /\ req'[b].id = req[b].id
      BY <2>2, <3>1 DEF Made
    <3>3. QED BY <1>3, <2>2, <3>2 DEF TypeInv, CallsTyped
  <2>3. QED BY <1>3, <2>1, <2>2 DEF TypeInv, CallsTyped
<1>4. QED BY <1>2, <1>3 DEF CallsTyped

(* The venue's steps keep the types. *)
LEMMA EnvironmentType ==
  ASSUME TypeInv, TxExecutes \/ TxDiscarded \/ Market
  PROVE  TypeInv'
<1> USE DEF TypeInv
<1>1. NoTx \in Txs /\ NoTx.op # "post"
  BY DEF Txs, NoTx
<1>2. CASE TxExecutes
  <2>1. pending # NoTx /\ Effect /\ pending' = NoTx /\ seen' = seen
    BY <1>2 DEF TxExecutes, Execute
  <2>2. pending \in [op : Ops, id : Ids \cup {NoId}, by : Actors]
    BY <2>1 DEF TypeOK, VenueTypeOK, Txs
  <2>3. inv' \in 0 .. InvCap /\ bulk' \in BOOLEAN /\ resting' \subseteq Ids
    <3>1. inv \in 0 .. InvCap /\ bulk \in BOOLEAN /\ resting \subseteq Ids /\ InvCap \in Nat
      BY VenueAssumption DEF VenueAssumption, TypeOK, VenueTypeOK
    <3>2. CASE pending.op = "place" \/ pending.op = "cancelBulk"
      BY <2>1, <3>1, <3>2 DEF Effect
    <3>3. CASE pending.op = "post"
      BY <2>1, <3>1, <3>3 DEF Effect, CallsTyped
    <3>4. CASE pending.op = "ioc"
      BY <2>1, <3>1, <3>4 DEF Effect
    <3>5. CASE pending.op = "cancelOrder"
      BY <2>1, <3>1, <3>5 DEF Effect
    <3>6. QED BY <2>2, <3>2, <3>3, <3>4, <3>5 DEF Ops
  <2>4. pending.op = "post" => resting' = resting \cup {pending.id}
    BY <2>1 DEF Effect
  <2>5. episode' \subseteq resting'
    BY <1>2, <2>4 DEF TxExecutes, TypeOK
  <2>6. VenueTypeOK'
    BY <1>1, <2>1, <2>3 DEF TypeOK, VenueTypeOK
  <2>7. CallsTyped'
    BY <1>2, AnswerType DEF TxExecutes
  <2>8. QED
    BY <1>1, <1>2, <2>1, <2>5, <2>6, <2>7 DEF TxExecutes, TypeOK, CallsTyped, strategyVars, flattenVars
<1>3. CASE TxDiscarded
  <2>1. pending' = NoTx /\ UNCHANGED <<inv, bulk, resting, seen>>
    BY <1>3 DEF TxDiscarded, Discard
  <2>2. CallsTyped'
    BY <1>3, AnswerType DEF TxDiscarded
  <2>3. QED
    BY <1>1, <1>3, <2>1, <2>2
       DEF TxDiscarded, TypeOK, VenueTypeOK, CallsTyped, strategyVars, flattenVars
<1>4. CASE Market
  <2>1. inv' \in 0 .. InvCap /\ bulk' \in BOOLEAN /\ resting' \subseteq Ids /\ pending' = pending
    BY <1>4, VenueAssumption
       DEF VenueAssumption, Market, FillBulk, FillFlatten, VenueCancels, Catchup, TypeOK, VenueTypeOK
  <2>2. seen' \in Views
    <3>1. ASSUME NEW f \in {"inv", "bulk", "resting"}, Catchup(f) PROVE seen' \in Views
      <4>1. Book.inv \in 0 .. InvCap /\ Book.bulk \in BOOLEAN /\ Book.resting \in SUBSET Ids
        BY DEF Book, TypeOK, VenueTypeOK
      <4>2. seen \in Views /\ seen' = [seen EXCEPT ![f] = Book[f]]
        BY <3>1 DEF Catchup, TypeOK, VenueTypeOK
      <4>3. CASE f = "inv"
        BY <4>1, <4>2, <4>3 DEF Views
      <4>4. CASE f = "bulk"
        BY <4>1, <4>2, <4>4 DEF Views
      <4>5. CASE f = "resting"
        BY <4>1, <4>2, <4>5 DEF Views
      <4>6. QED BY <4>3, <4>4, <4>5
    <3>2. QED
      BY <1>4, <3>1 DEF Market, FillBulk, FillFlatten, VenueCancels, TypeOK, VenueTypeOK
  <2>3. episode' \subseteq resting'
    BY <1>4 DEF Market, TypeOK
  <2>4. QED
    BY <1>4, <2>1, <2>2, <2>3 DEF Market, TypeOK, VenueTypeOK, CallsTyped, strategyVars, flattenVars
<1>5. QED BY <1>2, <1>3, <1>4

(* The operator's commands keep the types. *)
LEMMA OperatorType ==
  ASSUME TypeInv, Operator
  PROVE  TypeInv'
<1> USE DEF TypeInv
<1> "operator" \in Actors
  BY MarketMakerAssumption DEF MarketMakerAssumption
<1>1. ASSUME NEW b \in BOOLEAN, Pause(b) PROVE TypeInv'
  <2>1. "cancelBulk" \in Ops /\ NoId \in Ids \cup {NoId} /\ FALSE \in BOOLEAN
    BY DEF Ops
  <2>2. req' = req \/ Invoke("operator", "cancelBulk", NoId, FALSE)
    BY <1>1 DEF Pause
  <2>3. CallsTyped'
    <3>1. CASE req' = req
      BY <3>1 DEF TypeOK, CallsTyped
    <3>2. CASE Invoke("operator", "cancelBulk", NoId, FALSE)
      BY <2>1, <3>2, InvokeType
    <3>3. QED BY <2>2, <3>1, <3>2
  <2>4. QED
    BY <1>1, <2>3, StrategyType DEF Pause, operatorFrame, strategyVars, flattenVars, TypeOK, PauseStates
<1>2. CASE Resume
  BY <1>2 DEF Resume, operatorFrame, strategyVars, flattenVars, venueVars, TypeOK, VenueTypeOK, CallsTyped, PauseStates
<1>3. CASE FlattenPosition
  <2>1. CallsTyped'
    <3>1. FALSE \in BOOLEAN
      OBVIOUS
    <3>2. QED BY <1>3, <3>1, InvokePostType DEF FlattenPosition
  <2>2. QED
    BY <1>3, <2>1, StrategyType DEF FlattenPosition, operatorFrame, strategyVars, flattenVars, TypeOK
<1>4. CASE OperatorReply
  <2>1. Idle \in Requests /\ Idle.op = "none"
    BY DEF Requests, Made, Idle
  <2>2. req' = [req EXCEPT !["operator"] = Idle]
    BY <1>4 DEF OperatorReply
  <2>3. CallsTyped'
    BY <2>1, <2>2 DEF TypeOK, CallsTyped
  <2>4. pause' \in PauseStates
    BY <1>4 DEF OperatorReply, TypeOK, PauseStates
  <2>5. QED
    BY <1>4, <2>3, <2>4, StrategyType DEF OperatorReply, operatorFrame, strategyVars, flattenVars, TypeOK
<1>5. QED BY <1>1, <1>2, <1>3, <1>4 DEF Operator

(* A post that takes the place of whatever came before keeps the types. *)
LEMMA PostFlattenType ==
  ASSUME TypeInv, PostFlatten \/ ForceIOC
  PROVE  /\ CallsTyped'
         /\ pc' \in Places /\ snap' \in [inv : 0 .. InvCap, open : BOOLEAN]
<1>1. "cycle" \in Actors /\ stopping \in BOOLEAN
  BY MarketMakerAssumption DEF MarketMakerAssumption, TypeInv, TypeOK
<1>2. {"sleep", "posting", "forceIOC"} \subseteq Places
  BY DEF Places
<1>3. CASE CycleCalls("posting") /\ InvokePost("cycle", stopping)
  BY <1>1, <1>2, <1>3, InvokePostType, CycleCallsType
<1>4. CASE CycleCalls("forceIOC") /\ Invoke("cycle", "ioc", NoId, stopping)
  <2>1. "ioc" \in Ops /\ NoId \in Ids \cup {NoId}
    BY DEF Ops
  <2>2. QED BY <1>1, <1>2, <1>4, <2>1, InvokeType, CycleCallsType
<1>5. CASE CycleEnds("sleep")
  BY <1>2, <1>5, CycleEndsType
<1>6. QED BY <1>3, <1>4, <1>5 DEF PostFlatten, ForceIOC

(* The steps of the auto-flatten escalation keep the types. *)
LEMMA FlattenType ==
  ASSUME TypeInv,
         \/ ForceClose \/ ForceCancelReturns \/ ForceReturns \/ KeepResting \/ PlaceFlatten
         \/ RepriceReturns \/ RepriceFails \/ PostReturns \/ PostFails
  PROVE  TypeInv'
<1> USE DEF TypeInv, flattenFrame, flattenVars
<1> "cycle" \in Actors /\ stopping \in BOOLEAN
  BY MarketMakerAssumption DEF MarketMakerAssumption, TypeOK
<1> {"sleep", "forceCancel", "reprice"} \subseteq Places
  BY DEF Places
<1> cfg.stall \in Nat
  BY ConfigType DEF TypeOK
\* The order being cancelled is the one remembered.
<1>1. ASSUME NEW p \in {"forceCancel", "reprice"}, CycleCalls(p),
             Invoke("cycle", "cancelOrder", lastFlattenOrderID, stopping)
      PROVE  /\ CallsTyped'
             /\ pc' \in Places /\ snap' \in [inv : 0 .. InvCap, open : BOOLEAN]
  <2>1. "cancelOrder" \in Ops /\ lastFlattenOrderID \in Ids \cup {NoId}
    BY DEF Ops, TypeOK
  <2>2. QED BY <1>1, <2>1, InvokeType, CycleCallsType
<1>2. CASE ForceClose
  <2>1. CASE LastStillOpen
    BY <1>1, <1>2, <2>1, StrategyType DEF ForceClose, TypeOK
  <2>2. CASE ~LastStillOpen
    <3>1. ForceIOC /\ lastFlattenOrderID' = NoId /\ flattenStallCycles' \in 0 .. cfg.stall
      BY <1>2, <2>2 DEF ForceClose, TypeOK
    <3>2. QED BY <1>2, <2>2, <3>1, PostFlattenType, StrategyType DEF ForceClose, TypeOK
  <2>3. QED BY <2>1, <2>2
<1>3. CASE ForceCancelReturns
  BY <1>3, PostFlattenType, StrategyType DEF ForceCancelReturns, TypeOK
<1>4. CASE ForceReturns \/ RepriceFails \/ PostFails
  BY <1>4, CycleEndsType, StrategyType DEF ForceReturns, RepriceFails, PostFails, TypeOK
<1>5. CASE KeepResting
  <2>1. Started \in {"zero", "running", "due"}
    BY DEF Started, TypeOK
  <2>2. CASE CycleEnds("sleep")
    <3>1. flattenStallCycles' \in 0 .. cfg.stall
      BY <1>5 DEF KeepResting, TypeOK
    <3>2. QED BY <1>5, <2>1, <2>2, <3>1, CycleEndsType, StrategyType DEF KeepResting, TypeOK
  <2>3. CASE CycleCalls("reprice") /\ Invoke("cycle", "cancelOrder", lastFlattenOrderID, stopping)
    <3>1. flattenStallCycles' \in 0 .. cfg.stall
      BY <1>5 DEF KeepResting, TypeOK
    <3>2. QED BY <1>1, <1>5, <2>1, <2>3, <3>1, StrategyType DEF KeepResting, TypeOK
  <2>4. QED BY <1>5, <2>2, <2>3 DEF KeepResting
<1>6. CASE PlaceFlatten
  <2>1. Started \in {"zero", "running", "due"} /\ flattenStallCycles' \in 0 .. cfg.stall
    BY <1>6 DEF PlaceFlatten, Started, TypeOK
  <2>2. QED BY <1>6, <2>1, PostFlattenType, StrategyType DEF PlaceFlatten, TypeOK
<1>7. CASE RepriceReturns
  BY <1>7, PostFlattenType, StrategyType DEF RepriceReturns, TypeOK
<1>8. CASE PostReturns
  <2>1. req["cycle"].id \in Ids \cup {NoId}
    BY DEF TypeOK, Requests, Made, Idle
  <2>2. lastFlattenOrderID' \in Ids \cup {NoId} /\ flattenStallCycles' \in 0 .. cfg.stall
    BY <1>8, <2>1 DEF PostReturns
  <2>3. QED BY <1>8, <2>2, CycleEndsType, StrategyType DEF PostReturns, TypeOK
<1>9. QED BY <1>2, <1>3, <1>4, <1>5, <1>6, <1>7, <1>8

(* The other steps of the cycle goroutine keep the types. *)
LEMMA CycleType ==
  ASSUME TypeInv, Cycle
  PROVE  TypeInv'
<1> USE DEF TypeInv, flattenFrame, flattenVars
<1> "cycle" \in Actors /\ NoId \in Ids \cup {NoId} /\ {"place", "cancelBulk"} \subseteq Ops
  BY MarketMakerAssumption DEF MarketMakerAssumption, Ops
<1> {"sleep", "placing", "cancelling", "flatten", "shutdown", "clean exit", "failed exit"} \subseteq Places
  BY DEF Places
<1>1. CASE CycleStandsDown \/ CycleFlattens
  BY <1>1, CycleStartType DEF CycleStandsDown, CycleFlattens, TypeOK, CallsTyped
<1>2. CASE CycleQuotes \/ CycleCancelsBulk
  <2>1. PICK op \in {"place", "cancelBulk"} : Invoke("cycle", op, NoId, FALSE)
    BY <1>2 DEF CycleQuotes, CycleCancelsBulk
  <2>2. FALSE \in BOOLEAN /\ op # "post" /\ op \in Ops
    OBVIOUS
  <2>3. CallsTyped'
    BY <2>1, <2>2, InvokeType
  <2>4. QED BY <1>2, <2>3, CycleStartType DEF CycleQuotes, CycleCancelsBulk
<1>3. ASSUME NEW r \in {"ok", "err"}, CancelBulkReturns(r) \/ PlaceReturns(r)
      PROVE  TypeInv'
  <2>1. PICK p \in {"flatten", "sleep"} : CycleEnds(p)
    BY <1>3 DEF CancelBulkReturns, PlaceReturns
  <2>2. p \in Places /\ DoneAfter(r) \in BOOLEAN /\ (r = "err") \in BOOLEAN
    BY DEF DoneAfter
  <2>3. invLimitBulkCancelDone' \in BOOLEAN /\ backoff' \in BOOLEAN
    BY <1>3, <2>2 DEF CancelBulkReturns, PlaceReturns, TypeOK
  <2>4. QED
    BY <1>3, <2>1, <2>2, <2>3, CycleEndsType, StrategyType DEF CancelBulkReturns, PlaceReturns, TypeOK
<1>4. CASE ShutdownBegins \/ ShutdownRetries
  <2>1. Invoke("cycle", "cancelBulk", NoId, FALSE) /\ FALSE \in BOOLEAN
    BY <1>4 DEF ShutdownBegins, ShutdownRetries
  <2>2. CallsTyped'
    BY <2>1, InvokeType
  <2>3. attempt' \in 0 .. 3
    <3>1. attempt \in 0 .. 3
      BY DEF TypeOK
    <3>2. attempt' = 1 \/ (attempt < 3 /\ attempt' = attempt + 1)
      BY <1>4 DEF ShutdownBegins, ShutdownRetries
    <3>3. QED BY ONLY <3>1, <3>2
  <2>4. QED BY <1>4, <2>2, <2>3, StrategyType DEF ShutdownBegins, ShutdownRetries, TypeOK
<1>5. CASE ShutdownSucceeds \/ ShutdownFails
  BY <1>5, CycleEndsType, StrategyType DEF ShutdownSucceeds, ShutdownFails, TypeOK
<1>6. QED BY <1>1, <1>2, <1>3, <1>4, <1>5, FlattenType DEF Cycle

LEMMA TypeStep == TypeInv /\ [Next]_vars => TypeInv'
<1> SUFFICES ASSUME TypeInv, [Next]_vars PROVE TypeInv'
  OBVIOUS
<1>1. CASE Stop \/ Deadline \/ BackoffEnds
  BY <1>1 DEF Stop, Deadline, BackoffEnds, TypeInv, TypeOK, CallsTyped, VenueTypeOK, venueVars,
              strategyVars, flattenVars
<1>2. CASE Over \/ UNCHANGED vars
  BY <1>2 DEF Over, vars, TypeInv, TypeOK, CallsTyped, VenueTypeOK, venueVars, strategyVars, flattenVars
<1>3. QED
  BY <1>1, <1>2, CycleType, OperatorType, ExchangeType, EnvironmentType DEF Next

(* Every reachable state is well-typed; in particular the history of posted orders
   names only orders that rest, and no more than three shutdown attempts are made. *)
THEOREM TypeCorrect == Spec => []TypeOK
<1>1. Spec => []TypeInv
  BY TypeInit, TypeStep, PTL DEF Spec
<1>2. TypeInv => TypeOK
  BY DEF TypeInv
<1>3. QED BY <1>1, <1>2, PTL

-----------------------------------------------------------------------------
(* What the pieces of a call do to req, field by field. *)

(* The arguments of the calls the two goroutines make. *)
LEMMA Arguments ==
  ASSUME TypeInv
  PROVE  /\ Actors = {"cycle", "operator"}
         /\ "cycle" \in Actors /\ "operator" \in Actors
         /\ "cycle" # "operator" /\ "operator" # "cycle"
         /\ "place" \in Ops /\ "cancelBulk" \in Ops /\ "ioc" \in Ops /\ "cancelOrder" \in Ops
         /\ NoId \in Ids \cup {NoId} /\ lastFlattenOrderID \in Ids \cup {NoId}
         /\ FALSE \in BOOLEAN /\ stopping \in BOOLEAN
  BY MarketMakerAssumption DEF MarketMakerAssumption, Ops, TypeInv, TypeOK

(* A new call replaces whatever the goroutine was in. *)
LEMMA InvokeStep ==
  ASSUME TypeInv, NEW a \in Actors, NEW op \in Ops, NEW id \in Ids \cup {NoId},
         NEW ctxDone \in BOOLEAN, Invoke(a, op, id, ctxDone)
  PROVE  /\ req'[a].op = op /\ req'[a].id = id
         /\ req'[a].phase \in {"err", "reading", "sending"}
         /\ op # "cancelBulk" => req'[a].phase # "reading"
         /\ \A b \in Actors : b # a => req'[b] = req[b]
<1> DEFINE r == [op |-> op, id |-> id,
                 phase |-> IF ctxDone THEN "err"
                           ELSE IF op = "cancelBulk" THEN "reading" ELSE "sending"]
<1>1. req' = [req EXCEPT ![a] = r]
  BY DEF Invoke
<1>2. r.op = op /\ r.id = id /\ r.phase \in {"err", "reading", "sending"}
      /\ (op # "cancelBulk" => r.phase # "reading")
  OBVIOUS
<1> HIDE DEF r
<1>3. req'[a] = r /\ \A b \in Actors : b # a => req'[b] = req[b]
  BY <1>1 DEF TypeInv, TypeOK
<1>4. QED BY <1>2, <1>3

(* A post is sent with a free id; with none, or with its context cancelled, it has failed. *)
LEMMA InvokePostStep ==
  ASSUME TypeInv, NEW a \in Actors, NEW ctxDone \in BOOLEAN, InvokePost(a, ctxDone)
  PROVE  /\ req'[a].op = "post"
         /\ req'[a].phase \in {"err", "sending"}
         /\ \A b \in Actors : b # a => req'[b] = req[b]
<1> "post" \in Ops /\ TRUE \in BOOLEAN
  BY DEF Ops
<1>1. PICK id \in Ids \cup {NoId}, c \in BOOLEAN : Invoke(a, "post", id, c)
  BY DEF InvokePost
<1>2. QED BY <1>1, InvokeStep

(* A call that is under way has all its fields; only the phase of it changes. *)
LEMMA PhaseStep ==
  ASSUME TypeInv, NEW a \in Actors, NEW p, req[a].phase # "idle", Phase(a, p)
  PROVE  /\ req'[a].op = req[a].op /\ req'[a].id = req[a].id /\ req'[a].phase = p
         /\ \A b \in Actors : b # a => req'[b] = req[b]
<1>1. req[a] \in Made
  BY DEF TypeInv, TypeOK, Requests, Made, Idle
<1>2. req' = [req EXCEPT ![a] = [req[a] EXCEPT !.phase = p]]
  BY DEF Phase, TypeInv, TypeOK
<1>3. QED BY <1>1, <1>2 DEF TypeInv, TypeOK

(* An answer changes only the phase of the call that waits for it. *)
LEMMA AnswerStep ==
  ASSUME TypeInv, NEW p, Answer(p), NEW a \in Actors
  PROVE  IF a = pending.by /\ req[a].phase = "waiting"
         THEN req'[a].op = req[a].op /\ req'[a].id = req[a].id /\ req'[a].phase = p
         ELSE req'[a] = req[a]
<1>1. CASE a = pending.by /\ req[a].phase = "waiting"
  <2>1. req[a] \in Made
    BY <1>1 DEF TypeInv, TypeOK, Requests, Made, Idle
  <2>2. req'[a] = [req[a] EXCEPT !.phase = p]
    BY <1>1 DEF Answer
  <2>3. QED BY <1>1, <2>1, <2>2
<1>2. CASE ~(a = pending.by /\ req[a].phase = "waiting")
  BY <1>2 DEF Answer
<1>3. QED BY <1>1, <1>2

(* The cycle's call is forgotten, nobody else's. *)
LEMMA CycleEndsStep ==
  ASSUME TypeInv, NEW p, CycleEnds(p)
  PROVE  /\ pc' = p
         /\ req'["cycle"].op = "none" /\ req'["cycle"].phase = "idle"
         /\ req'["operator"] = req["operator"]
<1>1. Idle.op = "none" /\ Idle.phase = "idle"
  BY DEF Idle
<1>2. req'["cycle"] = Idle /\ req'["operator"] = req["operator"] /\ pc' = p
  BY MarketMakerAssumption DEF MarketMakerAssumption, CycleEnds, TypeInv, TypeOK
<1>3. QED BY <1>1, <1>2

(* The cycle's next call keeps the inventory it saw. *)
LEMMA CycleCallsStep ==
  ASSUME TypeInv, NEW p, CycleCalls(p)
  PROVE  pc' = p /\ snap'.inv = snap.inv
  BY DEF CycleCalls, TypeInv, TypeOK

-----------------------------------------------------------------------------
(* Which call each place of the cycle is in; the operator never places quotes. *)

CallsFitPlaces ==
  /\ req["cycle"].op = "cancelBulk" <=> pc \in {"cancelling", "shutdown"}
  /\ req["cycle"].op = "place" <=> pc = "placing"
  /\ req["cycle"].op = "post" <=> pc = "posting"
  /\ req["cycle"].op = "ioc" <=> pc = "forceIOC"
  /\ req["cycle"].op = "cancelOrder" <=> pc \in {"forceCancel", "reprice"}
  /\ req["operator"].op \in {"none", "cancelBulk", "post"}
  /\ \A a \in Actors : req[a].phase = "idle" <=> req[a].op = "none"
  /\ \A a \in Actors : req[a].phase = "reading" => req[a].op = "cancelBulk"

LEMMA CallsFitInit == Init => CallsFitPlaces
  BY MarketMakerAssumption DEF MarketMakerAssumption, Init, CallsFitPlaces, Idle

(* A flattening call, or its end, leaves the goroutine at the place of that call. *)
LEMMA FlattenFits ==
  ASSUME TypeInv, CallsFitPlaces, PostFlatten \/ ForceIOC
  PROVE  CallsFitPlaces'
<1> USE Arguments DEF CallsFitPlaces
<1>1. CASE CycleCalls("posting") /\ InvokePost("cycle", stopping)
  BY <1>1, InvokePostStep, CycleCallsStep
<1>2. CASE CycleCalls("forceIOC") /\ Invoke("cycle", "ioc", NoId, stopping)
  BY <1>2, InvokeStep, CycleCallsStep
<1>3. CASE CycleEnds("sleep")
  BY <1>3, CycleEndsStep DEF Idle
<1>4. QED BY <1>1, <1>2, <1>3 DEF PostFlatten, ForceIOC

LEMMA CallsFitStep == TypeInv /\ CallsFitPlaces /\ [Next]_vars => CallsFitPlaces'
<1> SUFFICES ASSUME TypeInv, CallsFitPlaces, [Next]_vars PROVE CallsFitPlaces'
  OBVIOUS
<1> USE Arguments
<1>1. ASSUME NEW p \in {"sleep", "flatten", "clean exit", "failed exit"}, CycleEnds(p)
      PROVE  CallsFitPlaces'
  BY <1>1, CycleEndsStep DEF CallsFitPlaces, Idle
<1>2. CASE CycleStandsDown \/ CycleFlattens
  <2>1. pc = "sleep" /\ pc' \in {"sleep", "flatten"} /\ req' = req
    BY <1>2 DEF CycleStandsDown, CycleFlattens, CycleStart
  <2>2. QED BY <2>1 DEF CallsFitPlaces
<1>3. CASE CycleQuotes
  <2>1. pc' = "placing" /\ Invoke("cycle", "place", NoId, FALSE)
    BY <1>3 DEF CycleQuotes, CycleStart
  <2>2. req'["cycle"].op = "place" /\ req'["cycle"].phase \in {"err", "sending"}
    BY <2>1, InvokeStep
  <2>3. req'["operator"] = req["operator"]
    BY <2>1, InvokeStep
  <2>4. QED BY <2>1, <2>2, <2>3 DEF CallsFitPlaces
<1>4. CASE CycleCancelsBulk
  <2>1. pc' = "cancelling" /\ Invoke("cycle", "cancelBulk", NoId, FALSE)
    BY <1>4 DEF CycleCancelsBulk, CycleStart
  <2>2. req'["cycle"].op = "cancelBulk" /\ req'["cycle"].phase \in {"err", "reading", "sending"}
    BY <2>1, InvokeStep
  <2>3. req'["operator"] = req["operator"]
    BY <2>1, InvokeStep
  <2>4. QED BY <2>1, <2>2, <2>3 DEF CallsFitPlaces
<1>5. ASSUME NEW r \in {"ok", "err"}, CancelBulkReturns(r) \/ PlaceReturns(r)
      PROVE  CallsFitPlaces'
  BY <1>1, <1>5 DEF CancelBulkReturns, PlaceReturns
<1>6. CASE ForceClose
  <2>1. CASE LastStillOpen
    BY <1>6, <2>1, InvokeStep, CycleCallsStep DEF ForceClose, CallsFitPlaces
  <2>2. CASE ~LastStillOpen
    BY <1>6, <2>2, FlattenFits DEF ForceClose
  <2>3. QED BY <2>1, <2>2
<1>7. CASE ForceCancelReturns \/ PlaceFlatten \/ RepriceReturns
  BY <1>7, FlattenFits DEF ForceCancelReturns, PlaceFlatten, RepriceReturns
<1>8. CASE KeepResting
  <2>1. CASE CycleCalls("reprice") /\ Invoke("cycle", "cancelOrder", lastFlattenOrderID, stopping)
    BY <2>1, InvokeStep, CycleCallsStep DEF CallsFitPlaces
  <2>2. QED BY <1>1, <1>8, <2>1 DEF KeepResting
<1>9. CASE ForceReturns \/ RepriceFails \/ PostReturns \/ PostFails \/ ShutdownSucceeds \/ ShutdownFails
  BY <1>1, <1>9 DEF ForceReturns, RepriceFails, PostReturns, PostFails, ShutdownSucceeds, ShutdownFails
<1>10. CASE ShutdownBegins \/ ShutdownRetries
  <2>1. pc' = "shutdown" /\ Invoke("cycle", "cancelBulk", NoId, FALSE)
    BY <1>10 DEF ShutdownBegins, ShutdownRetries, CycleReply
  <2>2. req'["cycle"].op = "cancelBulk" /\ req'["cycle"].phase \in {"err", "reading", "sending"}
    BY <2>1, InvokeStep
  <2>3. req'["operator"] = req["operator"]
    BY <2>1, InvokeStep
  <2>4. QED BY <2>1, <2>2, <2>3 DEF CallsFitPlaces
<1>11. CASE Operator
  <2>1. ASSUME NEW b \in BOOLEAN, Pause(b) PROVE CallsFitPlaces'
    <3>1. pc' = pc /\ (req' = req \/ Invoke("operator", "cancelBulk", NoId, FALSE))
      BY <2>1 DEF Pause, operatorFrame, strategyVars
    <3>2. CASE req' = req
      BY <3>1, <3>2 DEF CallsFitPlaces
    <3>3. CASE Invoke("operator", "cancelBulk", NoId, FALSE)
      <4>1. req'["operator"].op = "cancelBulk" /\ req'["operator"].phase \in {"err", "reading", "sending"}
        BY <3>3, InvokeStep
      <4>2. req'["cycle"] = req["cycle"]
        BY <3>3, InvokeStep
      <4>3. QED BY <3>1, <4>1, <4>2 DEF CallsFitPlaces
    <3>4. QED BY <3>1, <3>2, <3>3
  <2>2. CASE Resume
    BY <2>2 DEF Resume, operatorFrame, strategyVars, CallsFitPlaces
  <2>3. CASE FlattenPosition
    <3>1. pc' = pc
      BY <2>3 DEF FlattenPosition, operatorFrame, strategyVars
    <3> InvokePost("operator", FALSE)
      BY <2>3 DEF FlattenPosition
    <3>2. req'["operator"].op = "post" /\ req'["operator"].phase \in {"err", "sending"}
      BY InvokePostStep
    <3>3. \A b \in Actors : b # "operator" => req'[b] = req[b]
      BY InvokePostStep
    <3>4. QED BY <3>1, <3>2, <3>3 DEF CallsFitPlaces
  <2>4. CASE OperatorReply
    <3>1. req'["operator"] = Idle /\ req'["cycle"] = req["cycle"] /\ pc' = pc
      BY <2>4 DEF OperatorReply, operatorFrame, strategyVars, TypeInv, TypeOK
    <3>2. QED BY <3>1 DEF CallsFitPlaces, Idle
  <2>5. QED BY <1>11, <2>1, <2>2, <2>3, <2>4 DEF Operator
<1>12. ASSUME NEW a \in Actors, Exchange(a) PROVE CallsFitPlaces'
  <2>1. PICK p \in {"sending", "waiting", "ok", "err"} : Phase(a, p) /\ pc' = pc
    BY <1>12 DEF Exchange, CancelBulkReads, NotSubmitted, Submitted, WaitGivesUp, strategyVars
  <2>2. req[a].phase # "idle"
    BY <1>12 DEF Exchange, CancelBulkReads, NotSubmitted, Submitted, WaitGivesUp
  <2>3. QED BY <2>1, <2>2, PhaseStep DEF CallsFitPlaces
<1>13. CASE TxExecutes \/ TxDiscarded
  <2>1. PICK p \in {"ok", "err"} : Answer(p) /\ pc' = pc
    BY <1>13 DEF TxExecutes, TxDiscarded, strategyVars
  <2>2. ASSUME NEW a \in Actors
        PROVE  /\ req'[a].op = req[a].op
               /\ req'[a].phase = "idle" <=> req[a].phase = "idle"
               /\ req'[a].phase = "reading" => req[a].phase = "reading"
    BY <2>1, AnswerStep
  <2>3. QED BY <2>1, <2>2 DEF CallsFitPlaces
<1>14. CASE Stop \/ Deadline \/ BackoffEnds \/ Market \/ Over \/ UNCHANGED vars
  BY <1>14 DEF Stop, Deadline, BackoffEnds, Market, Over, vars, strategyVars, CallsFitPlaces
<1>15. QED
  BY <1>2, <1>3, <1>4, <1>5, <1>6, <1>7, <1>8, <1>9, <1>10, <1>11, <1>12, <1>13, <1>14 DEF Next, Cycle

-----------------------------------------------------------------------------
(***************************************************************************)
(* The escalation clock.  With an order size the market takes, the flag    *)
(* says exactly when the escalation may have state: it is set before a     *)
(* cycle flattens, and the cycle that clears it clears the state with it.  *)
(***************************************************************************)
FlattenPlaces == {"flatten", "forceCancel", "forceIOC", "reprice", "posting"}

ClockStopped ==
  flattenStuckSince = "zero" /\ flattenStallCycles = 0 /\ lastFlattenOrderID = NoId

ClockInv ==
  /\ cfg.quotable =>
       /\ ~invLimitBulkCancelDone => ClockStopped
       /\ pc \in FlattenPlaces => invLimitBulkCancelDone /\ snap.inv >= MaxInventory
       /\ pc = "cancelling" => ~invLimitBulkCancelDone /\ snap.inv >= MaxInventory
  /\ pc = "placing" => cfg.quotable /\ ~invLimitBulkCancelDone
  /\ pc \in {"forceCancel", "forceIOC"} => ForceDue

LEMMA ClockInit == Init => ClockInv
  BY DEF Init, ClockInv, ClockStopped, FlattenPlaces

(* A cycle that takes a new snapshot. *)
LEMMA CycleStartClock ==
  ASSUME TypeInv, ClockInv, NEW p \in {"sleep", "placing", "cancelling", "flatten"}, CycleStart(p),
         p = "placing" => ~AtLimit /\ cfg.quotable,
         p = "cancelling" => (AtLimit /\ ~invLimitBulkCancelDone) \/ (~AtLimit /\ ~cfg.quotable),
         p = "flatten" => AtLimit /\ invLimitBulkCancelDone
  PROVE  ClockInv'
<1> USE DEF AtLimit
<1>1. /\ invLimitBulkCancelDone' <=> invLimitBulkCancelDone /\ AtLimit
      /\ ~AtLimit /\ invLimitBulkCancelDone => ClockStopped'
      /\ AtLimit \/ ~invLimitBulkCancelDone => UNCHANGED flattenVars
  <2>1. View.inv >= MaxInventory <=> ~(View.inv < MaxInventory)
    BY ViewType, MarketMakerAssumption, VenueAssumption
       DEF MarketMakerAssumption, VenueAssumption, TypeInv, TypeOK
  <2>2. QED BY <2>1 DEF CycleStart, Recover, ClockStopped
<1>2. cfg' = cfg /\ pc' = p
  BY DEF CycleStart
<1>3. p \in {"cancelling", "flatten"} => snap'.inv = View.inv
  <2>1. ASSUME NEW o PROVE [inv |-> View.inv, open |-> o].inv = View.inv
    OBVIOUS
  <2>2. QED BY <2>1 DEF CycleStart
<1>4. ~invLimitBulkCancelDone' /\ cfg.quotable => ClockStopped'
  BY <1>1 DEF ClockInv, ClockStopped, flattenVars
<1>5. QED BY <1>1, <1>2, <1>3, <1>4 DEF ClockInv, FlattenPlaces

LEMMA ClockStep == TypeInv /\ ClockInv /\ [Next]_vars => ClockInv'
<1> SUFFICES ASSUME TypeInv, ClockInv, [Next]_vars PROVE ClockInv'
  OBVIOUS
<1> USE DEF flattenVars
<1>1. ASSUME UNCHANGED <<cfg, pc, snap, invLimitBulkCancelDone, flattenVars>> PROVE ClockInv'
  BY <1>1 DEF ClockInv, ClockStopped, ForceDue
\* Back to sleep, or out: nothing of the escalation is needed but what the flag says.
<1>2. ASSUME NEW p \in {"sleep", "shutdown", "clean exit", "failed exit"}, pc' = p, cfg' = cfg,
             cfg.quotable /\ ~invLimitBulkCancelDone' => ClockStopped'
      PROVE  ClockInv'
  BY <1>2 DEF ClockInv, FlattenPlaces
\* A step of the escalation at the limit.
<1>3. ASSUME pc \in FlattenPlaces, NEW p \in FlattenPlaces \cup {"sleep"}, pc' = p,
             snap'.inv = snap.inv \/ p = "sleep",
             p \in {"forceCancel", "forceIOC"} => ForceDue',
             UNCHANGED <<cfg, invLimitBulkCancelDone>>
      PROVE  ClockInv'
  BY <1>3 DEF ClockInv, FlattenPlaces
<1>4. CASE CycleStandsDown
  BY <1>4, CycleStartClock DEF CycleStandsDown
<1>5. CASE CycleQuotes
  BY <1>5, CycleStartClock DEF CycleQuotes, MayQuote
<1>6. CASE CycleCancelsBulk
  BY <1>6, CycleStartClock DEF CycleCancelsBulk
<1>7. CASE CycleFlattens
  BY <1>7, CycleStartClock DEF CycleFlattens
<1>8. ASSUME NEW r \in {"ok", "err"}, CancelBulkReturns(r) PROVE ClockInv'
  <2>1. PICK p \in {"sleep", "flatten"} :
             /\ CycleEnds(p)
             /\ p = "flatten" => r = "ok"
    BY <1>8 DEF CancelBulkReturns
  <2>2. pc = "cancelling" /\ pc' = p /\ UNCHANGED <<cfg, flattenVars>>
        /\ (invLimitBulkCancelDone' <=> r = "ok" /\ snap.inv >= MaxInventory)
        /\ (p = "flatten" => snap' = snap)
    BY <1>8, <2>1 DEF CancelBulkReturns, DoneAfter, CycleReply, CycleEnds
  <2>3. QED BY <2>1, <2>2 DEF ClockInv, ClockStopped, FlattenPlaces
<1>9. ASSUME NEW r \in {"ok", "err"}, PlaceReturns(r) PROVE ClockInv'
  <2>1. pc' = "sleep" /\ UNCHANGED <<cfg, invLimitBulkCancelDone, flattenVars>>
    BY <1>9, CycleEndsStep DEF PlaceReturns
  <2>2. QED BY <1>2, <2>1 DEF ClockInv, ClockStopped
<1>10. ASSUME PostFlatten \/ ForceIOC
       PROVE  \E p \in {"posting", "forceIOC", "sleep"} :
                /\ pc' = p
                /\ snap'.inv = snap.inv \/ p = "sleep"
                /\ p = "forceIOC" => ForceIOC
  BY <1>10, CycleCallsStep, CycleEndsStep DEF PostFlatten, ForceIOC
<1>11. CASE ForceClose
  <2>1. pc = "flatten" /\ UNCHANGED <<cfg, invLimitBulkCancelDone>> /\ ForceDue'
    BY <1>11 DEF ForceClose, ForceDue, flattenFrame
  <2>2. CASE LastStillOpen
    <3>1. pc' = "forceCancel" /\ snap'.inv = snap.inv
      BY <1>11, <2>2, CycleCallsStep DEF ForceClose
    <3>2. QED BY <1>3, <2>1, <3>1 DEF FlattenPlaces
  <2>3. CASE ~LastStillOpen
    <3>1. ForceIOC
      BY <1>11, <2>3 DEF ForceClose
    <3>2. QED BY <1>3, <1>10, <2>1, <3>1 DEF FlattenPlaces
  <2>4. QED BY <2>2, <2>3
<1>12. CASE ForceCancelReturns
  <2>1. pc = "forceCancel" /\ UNCHANGED <<cfg, invLimitBulkCancelDone>> /\ ForceIOC
        /\ flattenStuckSince' = flattenStuckSince
    BY <1>12 DEF ForceCancelReturns, CycleReply, flattenFrame
  <2>2. ForceDue'
    BY <2>1 DEF ClockInv, ForceDue
  <2>3. QED BY <1>3, <1>10, <2>1, <2>2 DEF FlattenPlaces
<1>13. CASE ForceReturns \/ RepriceFails \/ PostReturns \/ PostFails
  <2>1. pc \in FlattenPlaces /\ pc' = "sleep" /\ UNCHANGED <<cfg, invLimitBulkCancelDone>>
    BY <1>13, CycleEndsStep
       DEF ForceReturns, RepriceFails, PostReturns, PostFails, CycleReply, flattenFrame, FlattenPlaces
  <2>2. QED BY <1>3, <2>1
<1>14. CASE KeepResting
  <2>1. pc = "flatten" /\ UNCHANGED <<cfg, invLimitBulkCancelDone>>
        /\ (pc' = "sleep" \/ (pc' = "reprice" /\ snap'.inv = snap.inv))
    BY <1>14, CycleEndsStep, CycleCallsStep DEF KeepResting, flattenFrame
  <2>2. QED BY <1>3, <2>1 DEF FlattenPlaces
<1>15. CASE PlaceFlatten \/ RepriceReturns
  <2>1. pc \in {"flatten", "reprice"} /\ UNCHANGED <<cfg, invLimitBulkCancelDone>>
        /\ (pc' = "sleep" \/ (pc' = "posting" /\ snap'.inv = snap.inv))
    BY <1>15, CycleEndsStep, CycleCallsStep
       DEF PlaceFlatten, RepriceReturns, PostFlatten, CycleReply, flattenFrame
  <2>2. QED BY <1>3, <2>1 DEF FlattenPlaces
<1>16. CASE ShutdownBegins \/ ShutdownSucceeds \/ ShutdownRetries \/ ShutdownFails
  <2>1. pc' \in {"shutdown", "clean exit", "failed exit"}
        /\ UNCHANGED <<cfg, invLimitBulkCancelDone, flattenVars>>
    BY <1>16, CycleEndsStep
       DEF ShutdownBegins, ShutdownSucceeds, ShutdownRetries, ShutdownFails, CycleReply, flattenFrame
  <2>2. QED BY <1>2, <2>1 DEF ClockInv, ClockStopped
<1>17. CASE Deadline
  BY <1>17 DEF Deadline, ClockInv, ClockStopped, ForceDue
<1>18. CASE Operator
  <2>1. UNCHANGED strategyVars /\ cfg' = cfg
    BY <1>18 DEF Operator, Pause, Resume, FlattenPosition, OperatorReply, operatorFrame
  <2>2. QED BY <1>1, <2>1 DEF strategyVars
<1>19. ASSUME NEW a \in Actors, Exchange(a) PROVE ClockInv'
  <2>1. UNCHANGED strategyVars /\ cfg' = cfg
    BY <1>19 DEF Exchange, CancelBulkReads, NotSubmitted, Submitted, WaitGivesUp
  <2>2. QED BY <1>1, <2>1 DEF strategyVars
<1>20. CASE TxExecutes \/ TxDiscarded \/ Stop \/ Market \/ Over \/ UNCHANGED vars
  <2>1. UNCHANGED strategyVars /\ cfg' = cfg
    BY <1>20 DEF TxExecutes, TxDiscarded, Stop, Market, Over, vars
  <2>2. QED BY <1>1, <2>1 DEF strategyVars
<1>21. CASE BackoffEnds
  BY <1>1, <1>21 DEF BackoffEnds
<1>22. QED
  BY <1>4, <1>5, <1>6, <1>7, <1>8, <1>9, <1>11, <1>12, <1>13, <1>14, <1>15, <1>16, <1>17, <1>18,
     <1>19, <1>20, <1>21 DEF Next, Cycle

-----------------------------------------------------------------------------
(***************************************************************************)
(* Pause.  A placement that was decided on before the pause may still be   *)
(* sent; while paused no other is decided on, so once it is sent none is   *)
(* left to send.                                                           *)
(***************************************************************************)
AboutToPlace == req["cycle"].op = "place" /\ req["cycle"].phase = "sending"

OnePlacementInv ==
  pause # "off" => late <= 1 /\ (AboutToPlace => late = 0)

LEMMA OnePlacementInit == Init => OnePlacementInv
  BY DEF Init, OnePlacementInv

LEMMA OnePlacementStep ==
  TypeInv /\ CallsFitPlaces /\ OnePlacementInv /\ [Next]_vars => OnePlacementInv'
<1> SUFFICES ASSUME TypeInv, CallsFitPlaces, OnePlacementInv, [Next]_vars PROVE OnePlacementInv'
  OBVIOUS
<1> USE Arguments
\* A step that lets no new placement begin.
<1>1. ASSUME AboutToPlace' => AboutToPlace, UNCHANGED <<pause, late>> PROVE OnePlacementInv'
  BY <1>1 DEF OnePlacementInv
<1>2. ASSUME NEW p, CycleEnds(p) PROVE ~AboutToPlace'
  <2>1. req'["cycle"].op = "none"
    BY <1>2, CycleEndsStep
  <2>2. QED BY <2>1 DEF AboutToPlace
<1>3. ASSUME NEW op \in Ops \ {"place"}, NEW id \in Ids \cup {NoId}, NEW c \in BOOLEAN,
             Invoke("cycle", op, id, c)
      PROVE  ~AboutToPlace'
  <2>1. op \in Ops /\ op # "place"
    BY <1>3
  <2>2. req'["cycle"].op = op
    BY <1>3, <2>1, InvokeStep
  <2>3. QED BY <2>1, <2>2 DEF AboutToPlace
<1>4. ASSUME PostFlatten \/ ForceIOC PROVE ~AboutToPlace'
  <2>1. CASE InvokePost("cycle", stopping)
    <3>1. req'["cycle"].op = "post"
      BY <2>1, InvokePostStep
    <3>2. QED BY <3>1 DEF AboutToPlace
  <2>2. CASE Invoke("cycle", "ioc", NoId, stopping)
    <3>1. "ioc" \in Ops \ {"place"}
      OBVIOUS
    <3>2. QED BY <1>3, <2>2, <3>1
  <2>3. QED BY <1>2, <1>4, <2>1, <2>2 DEF PostFlatten, ForceIOC
<1>5. "cancelBulk" \in Ops \ {"place"} /\ "cancelOrder" \in Ops \ {"place"}
  OBVIOUS
<1>6. CASE CycleStandsDown \/ CycleFlattens
  <2>1. req' = req /\ UNCHANGED <<pause, late>>
    BY <1>6 DEF CycleStandsDown, CycleFlattens, CycleStart
  <2>2. QED BY <1>1, <2>1 DEF AboutToPlace
<1>7. CASE CycleQuotes
  BY <1>7 DEF CycleQuotes, CycleStart, MayQuote, OnePlacementInv
<1>8. CASE CycleCancelsBulk
  BY <1>1, <1>3, <1>5, <1>8 DEF CycleCancelsBulk, CycleStart
<1>9. ASSUME NEW r \in {"ok", "err"}, CancelBulkReturns(r) \/ PlaceReturns(r) PROVE OnePlacementInv'
  BY <1>1, <1>2, <1>9 DEF CancelBulkReturns, PlaceReturns
<1>10. CASE ForceClose \/ ForceCancelReturns \/ ForceReturns \/ KeepResting \/ PlaceFlatten
            \/ RepriceReturns \/ RepriceFails \/ PostReturns \/ PostFails
            \/ ShutdownSucceeds \/ ShutdownFails
  <2>1. UNCHANGED <<pause, late>>
    BY <1>10 DEF ForceClose, ForceCancelReturns, ForceReturns, KeepResting, PlaceFlatten,
                 RepriceReturns, RepriceFails, PostReturns, PostFails, ShutdownSucceeds,
                 ShutdownFails, flattenFrame
  <2>2. \/ PostFlatten \/ ForceIOC \/ Invoke("cycle", "cancelOrder", lastFlattenOrderID, stopping)
        \/ \E p \in {"sleep", "clean exit", "failed exit"} : CycleEnds(p)
    BY <1>10 DEF ForceClose, ForceCancelReturns, ForceReturns, KeepResting, PlaceFlatten,
                 RepriceReturns, RepriceFails, PostReturns, PostFails, ShutdownSucceeds, ShutdownFails
  <2>3. ~AboutToPlace'
    BY <1>2, <1>3, <1>4, <1>5, <2>2
  <2>4. QED BY <1>1, <2>1, <2>3
<1>11. CASE ShutdownBegins \/ ShutdownRetries
  BY <1>1, <1>3, <1>5, <1>11 DEF ShutdownBegins, ShutdownRetries
<1>12. CASE Operator
  <2>1. ASSUME NEW b \in BOOLEAN, Pause(b) PROVE OnePlacementInv'
    BY <2>1 DEF Pause, OnePlacementInv
  <2>2. CASE Resume
    BY <2>2 DEF Resume, OnePlacementInv
  <2>3. CASE FlattenPosition
    <3>1. \A b \in Actors : b # "operator" => req'[b] = req[b]
      BY <2>3, InvokePostStep DEF FlattenPosition
    <3>2. req'["cycle"] = req["cycle"] /\ UNCHANGED <<pause, late>>
      BY <2>3, <3>1 DEF FlattenPosition
    <3>3. QED BY <1>1, <3>2 DEF AboutToPlace
  <2>4. CASE OperatorReply
    <3>1. req'["cycle"] = req["cycle"] /\ late' = late /\ (pause' # "off" => pause # "off")
      BY <2>4 DEF OperatorReply, TypeInv, TypeOK
    <3>2. QED BY <3>1 DEF OnePlacementInv, AboutToPlace
  <2>5. QED BY <1>12, <2>1, <2>2, <2>3, <2>4 DEF Operator
<1>13. ASSUME NEW a \in Actors, Exchange(a) PROVE OnePlacementInv'
  <2>1. req[a].phase \in {"reading", "sending", "waiting"}
    BY <1>13 DEF Exchange, CancelBulkReads, NotSubmitted, Submitted, WaitGivesUp
  <2>2. CASE CancelBulkReads(a)
    <3>1. PICK p \in {"sending", "ok"} : Phase(a, p) /\ req[a].phase = "reading" /\ UNCHANGED <<pause, late>>
      BY <2>2 DEF CancelBulkReads
    <3>2. \A b \in Actors : req'[b].op = req[b].op /\ (b # a => req'[b] = req[b])
      BY <3>1, PhaseStep
    <3>3. req[a].op = "cancelBulk"
      BY <3>1 DEF CallsFitPlaces
    <3>4. QED BY <1>1, <3>1, <3>2, <3>3 DEF AboutToPlace
  <2>3. CASE NotSubmitted(a) \/ WaitGivesUp(a)
    <3>1. Phase(a, "err") /\ UNCHANGED <<pause, late>>
      BY <2>3 DEF NotSubmitted, WaitGivesUp
    <3>2. req'[a].phase = "err" /\ \A b \in Actors : b # a => req'[b] = req[b]
      BY <2>1, <3>1, PhaseStep
    <3>3. QED BY <1>1, <3>1, <3>2 DEF AboutToPlace
  <2>4. CASE Submitted(a)
    <3>1. PICK p \in {"waiting", "err"} : Phase(a, p)
      BY <2>4 DEF Submitted
    <3>2. req'[a].phase = p /\ \A b \in Actors : b # a => req'[b] = req[b]
      BY <2>1, <3>1, PhaseStep
    <3>3. pause' = pause /\ req[a].phase = "sending"
          /\ late' = IF req[a].op = "place" /\ pause # "off" /\ late < 2 THEN late + 1 ELSE late
      BY <2>4 DEF Submitted
    <3>4. req[a].op = "place" => a = "cycle"
      BY DEF CallsFitPlaces
    <3>5. CASE req[a].op = "place" /\ pause # "off"
      BY <3>1, <3>2, <3>3, <3>4, <3>5 DEF OnePlacementInv, AboutToPlace
    <3>6. CASE ~(req[a].op = "place" /\ pause # "off")
      <4>1. late' = late
        BY <3>3, <3>6
      <4>2. AboutToPlace' => AboutToPlace
        BY <3>1, <3>2 DEF AboutToPlace
      <4>3. QED BY <1>1, <3>3, <4>1, <4>2
    <3>7. QED BY <3>5, <3>6
  <2>5. QED BY <1>13, <2>2, <2>3, <2>4 DEF Exchange
<1>14. CASE TxExecutes \/ TxDiscarded
  <2>1. PICK p \in {"ok", "err"} : Answer(p) /\ UNCHANGED <<pause, late>>
    BY <1>14 DEF TxExecutes, TxDiscarded
  <2>2. req'["cycle"] = req["cycle"] \/ req'["cycle"].phase = p
    BY <2>1, AnswerStep
  <2>3. QED BY <1>1, <2>1, <2>2 DEF AboutToPlace
<1>15. CASE Stop \/ Deadline \/ BackoffEnds \/ Market \/ Over \/ UNCHANGED vars
  <2>1. UNCHANGED <<req, pause, late>>
    BY <1>15 DEF Stop, Deadline, BackoffEnds, Market, Over, vars
  <2>2. QED BY <1>1, <2>1 DEF AboutToPlace
<1>16. QED
  BY <1>6, <1>7, <1>8, <1>9, <1>10, <1>11, <1>12, <1>13, <1>14, <1>15 DEF Next, Cycle

-----------------------------------------------------------------------------
(* The two goroutines touch req and the market as follows, whatever they do. *)

LEMMA CycleFrame ==
  ASSUME TypeInv, CallsFitPlaces, Cycle
  PROVE  /\ UNCHANGED <<venueVars, cfg, pause, late>>
         /\ req["cycle"].phase \in {"idle", "ok", "err"}
         /\ req'["cycle"].phase \in {"idle", "err", "reading", "sending"}
         /\ req'["operator"] = req["operator"]
<1> USE Arguments
<1>1. ASSUME NEW p, CycleEnds(p)
      PROVE  req'["cycle"].phase = "idle" /\ req'["operator"] = req["operator"]
  BY <1>1, CycleEndsStep
<1>2. ASSUME NEW op \in Ops, NEW id \in Ids \cup {NoId}, NEW c \in BOOLEAN, Invoke("cycle", op, id, c)
      PROVE  req'["cycle"].phase \in {"err", "reading", "sending"} /\ req'["operator"] = req["operator"]
  BY <1>2, InvokeStep
<1>3. ASSUME PostFlatten \/ ForceIOC
      PROVE  req'["cycle"].phase \in {"idle", "err", "reading", "sending"}
             /\ req'["operator"] = req["operator"]
  <2>1. CASE InvokePost("cycle", stopping)
    BY <2>1, InvokePostStep
  <2>2. CASE Invoke("cycle", "ioc", NoId, stopping)
    BY <1>2, <2>2
  <2>3. QED BY <1>1, <1>3, <2>1, <2>2 DEF PostFlatten, ForceIOC
<1>4. pc \in {"sleep", "flatten"} => req["cycle"].phase = "idle"
  <2>1. req["cycle"].op \in Ops \cup {"none"}
    BY DEF TypeInv, TypeOK, Requests, Made, Idle
  <2>2. QED BY <2>1 DEF CallsFitPlaces, Ops
<1>5. ASSUME CycleStandsDown \/ CycleQuotes \/ CycleCancelsBulk \/ CycleFlattens
      PROVE  /\ UNCHANGED <<venueVars, cfg, pause, late>> /\ pc = "sleep"
             /\ req' = req \/ \E op \in {"place", "cancelBulk"} : Invoke("cycle", op, NoId, FALSE)
  BY <1>5 DEF CycleStandsDown, CycleQuotes, CycleCancelsBulk, CycleFlattens, CycleStart
<1>6. ASSUME NEW r \in {"ok", "err"}, CancelBulkReturns(r) \/ PlaceReturns(r)
      PROVE  /\ UNCHANGED <<venueVars, cfg, pause, late>>
             /\ req["cycle"].phase = r
             /\ \E p \in Places : CycleEnds(p)
  BY <1>6 DEF CancelBulkReturns, PlaceReturns, CycleReply, Places
<1>7. ASSUME ForceClose \/ ForceCancelReturns \/ ForceReturns \/ KeepResting \/ PlaceFlatten
             \/ RepriceReturns \/ RepriceFails \/ PostReturns \/ PostFails
             \/ ShutdownSucceeds \/ ShutdownFails
      PROVE  /\ UNCHANGED <<venueVars, cfg, pause, late>>
             /\ pc = "flatten" \/ req["cycle"].phase \in {"ok", "err"}
             /\ \/ PostFlatten \/ ForceIOC
                \/ Invoke("cycle", "cancelOrder", lastFlattenOrderID, stopping)
                \/ \E p \in Places : CycleEnds(p)
  BY <1>7 DEF ForceClose, ForceCancelReturns, ForceReturns, KeepResting, PlaceFlatten,
              RepriceReturns, RepriceFails, PostReturns, PostFails, ShutdownSucceeds,
              ShutdownFails, flattenFrame, CycleReply, Places
<1>8. ASSUME ShutdownBegins \/ ShutdownRetries
      PROVE  /\ UNCHANGED <<venueVars, cfg, pause, late>>
             /\ pc = "sleep" \/ req["cycle"].phase = "err"
             /\ Invoke("cycle", "cancelBulk", NoId, FALSE)
  BY <1>8 DEF ShutdownBegins, ShutdownRetries, CycleReply
<1>9. CASE CycleStandsDown \/ CycleQuotes \/ CycleCancelsBulk \/ CycleFlattens
  <2>1. UNCHANGED <<venueVars, cfg, pause, late>> /\ req["cycle"].phase = "idle"
    BY <1>4, <1>5, <1>9
  <2>2. CASE req' = req
    BY <2>1, <2>2
  <2>3. CASE req' # req
    BY <1>2, <1>5, <1>9, <2>1, <2>3
  <2>4. QED BY <2>2, <2>3
<1>10. CASE \E r \in {"ok", "err"} : CancelBulkReturns(r) \/ PlaceReturns(r)
  BY <1>1, <1>6, <1>10
<1>11. CASE ForceClose \/ ForceCancelReturns \/ ForceReturns \/ KeepResting \/ PlaceFlatten
            \/ RepriceReturns \/ RepriceFails \/ PostReturns \/ PostFails
            \/ ShutdownSucceeds \/ ShutdownFails
  <2>1. req'["cycle"].phase \in {"idle", "err", "reading", "sending"} /\ req'["operator"] = req["operator"]
    BY <1>1, <1>2, <1>3, <1>7, <1>11
  <2>2. QED BY <1>4, <1>7, <1>11, <2>1
<1>12. CASE ShutdownBegins \/ ShutdownRetries
  <2>1. req'["cycle"].phase \in {"idle", "err", "reading", "sending"} /\ req'["operator"] = req["operator"]
    BY <1>2, <1>8, <1>12
  <2>2. QED BY <1>4, <1>8, <1>12, <2>1
<1>13. QED BY <1>9, <1>10, <1>11, <1>12 DEF Cycle

LEMMA OperatorFrame ==
  ASSUME TypeInv, Operator
  PROVE  /\ UNCHANGED operatorFrame
         /\ req["operator"].phase \in {"idle", "ok", "err"}
         /\ req'["operator"].phase \in {"idle", "err", "reading", "sending"}
         /\ req'["cycle"] = req["cycle"]
<1> USE Arguments
<1>1. UNCHANGED operatorFrame
  BY DEF Operator, Pause, Resume, FlattenPosition, OperatorReply
<1>2. Idle.phase = "idle"
  BY DEF Idle
<1>3. CASE OperatorReply
  BY <1>1, <1>2, <1>3 DEF OperatorReply, TypeInv, TypeOK
<1>4. CASE ~OperatorReply
  <2>1. req["operator"].phase = "idle"
    BY <1>2, <1>4 DEF Operator, Pause, Resume, FlattenPosition, Command
  <2>2. req' = req \/ InvokePost("operator", FALSE) \/ Invoke("operator", "cancelBulk", NoId, FALSE)
    BY <1>4 DEF Operator, Pause, Resume, FlattenPosition
  <2>3. CASE req' = req
    BY <1>1, <2>1, <2>3
  <2>4. CASE InvokePost("operator", FALSE)
    <3>1. /\ req'["operator"].phase \in {"err", "sending"}
          /\ \A b \in Actors : b # "operator" => req'[b] = req[b]
      BY <2>4, InvokePostStep
    <3>2. QED BY <1>1, <2>1, <3>1
  <2>5. CASE Invoke("operator", "cancelBulk", NoId, FALSE)
    <3>1. req'["operator"].phase \in {"err", "reading", "sending"}
      BY <2>5, InvokeStep
    <3>2. req'["cycle"] = req["cycle"]
      BY <2>5, InvokeStep
    <3>3. QED BY <1>1, <2>1, <3>1, <3>2
  <2>6. QED BY <2>2, <2>3, <2>4, <2>5
<1>5. QED BY <1>3, <1>4

-----------------------------------------------------------------------------
(***************************************************************************)
(* Where the outcome of every submission is learnt: the pending            *)
(* transaction is the one call that still waits.                           *)
(***************************************************************************)
Learnt == cfg.faults \subseteq {"noId"}

PendingIsAwaited ==
  Learnt =>
    /\ pending # NoTx =>
         /\ pending.by \in Actors
         /\ req[pending.by].phase = "waiting"
         /\ req[pending.by].op = pending.op
         /\ req[pending.by].id = pending.id
    /\ \A a \in Actors : req[a].phase = "waiting" => pending # NoTx /\ pending.by = a

LEMMA AwaitedInit == Init => PendingIsAwaited
  BY MarketMakerAssumption DEF MarketMakerAssumption, Init, VenueInit, PendingIsAwaited, Idle

(* A call goes on without the market: it neither was nor is waiting. *)
LEMMA AwaitedKept ==
  ASSUME TypeInv, PendingIsAwaited, cfg' = cfg, pending' = pending, NEW a \in Actors,
         req[a].phase # "waiting", req'[a].phase # "waiting",
         \A b \in Actors : b # a => req'[b] = req[b]
  PROVE  PendingIsAwaited'
<1>1. CASE ~Learnt
  BY <1>1 DEF PendingIsAwaited, Learnt
<1>2. CASE Learnt
  BY <1>2 DEF PendingIsAwaited, Learnt
<1>3. QED BY <1>1, <1>2

LEMMA AwaitedStep ==
  TypeInv /\ CallsFitPlaces /\ PendingIsAwaited /\ [Next]_vars => PendingIsAwaited'
<1> SUFFICES ASSUME TypeInv, CallsFitPlaces, PendingIsAwaited, [Next]_vars PROVE PendingIsAwaited'
  OBVIOUS
<1> USE Arguments
<1>1. ASSUME UNCHANGED <<cfg, pending, req>> PROVE PendingIsAwaited'
  BY <1>1 DEF PendingIsAwaited, Learnt
<1>2. CASE Cycle
  <2>1. cfg' = cfg /\ pending' = pending
    BY <1>2, CycleFrame DEF venueVars
  <2>2. /\ req["cycle"].phase # "waiting" /\ req'["cycle"].phase # "waiting"
        /\ \A b \in Actors : b # "cycle" => req'[b] = req[b]
    BY <1>2, CycleFrame
  <2>3. QED BY <2>1, <2>2, AwaitedKept
<1>3. CASE Operator
  <2>1. cfg' = cfg /\ pending' = pending
    BY <1>3, OperatorFrame DEF operatorFrame, venueVars
  <2>2. /\ req["operator"].phase # "waiting" /\ req'["operator"].phase # "waiting"
        /\ \A b \in Actors : b # "operator" => req'[b] = req[b]
    BY <1>3, OperatorFrame
  <2>3. QED BY <2>1, <2>2, AwaitedKept
<1>4. ASSUME NEW a \in Actors, Exchange(a) PROVE PendingIsAwaited'
  <2>1. CASE CancelBulkReads(a) \/ NotSubmitted(a)
    <3>1. PICK p \in {"sending", "ok", "err"} : Phase(a, p) /\ req[a].phase \in {"reading", "sending"}
      BY <2>1 DEF CancelBulkReads, NotSubmitted
    <3>2. req'[a].phase = p /\ \A b \in Actors : b # a => req'[b] = req[b]
      BY <3>1, PhaseStep
    <3>3. cfg' = cfg /\ pending' = pending
      BY <2>1 DEF CancelBulkReads, NotSubmitted, venueVars
    <3>4. req[a].phase # "waiting" /\ req'[a].phase # "waiting"
      BY <3>1, <3>2
    <3>5. QED BY <3>2, <3>3, <3>4, AwaitedKept
  <2>2. CASE Submitted(a)
    <3>1. SUFFICES ASSUME Learnt PROVE PendingIsAwaited'
      BY <2>2 DEF Submitted, PendingIsAwaited, Learnt
    <3>2. Phase(a, "waiting") /\ req[a].phase = "sending" /\ cfg' = cfg
      BY <2>2, <3>1 DEF Submitted, Learnt
    <3>3. /\ req'[a].op = req[a].op /\ req'[a].id = req[a].id /\ req'[a].phase = "waiting"
          /\ \A b \in Actors : b # a => req'[b] = req[b]
      BY <3>2, PhaseStep
    <3>4. pending = NoTx /\ pending' = [op |-> req[a].op, id |-> req[a].id, by |-> a]
      BY <2>2 DEF Submitted, Accept
    <3>5. \A b \in Actors : req[b].phase # "waiting"
      BY <3>1, <3>4 DEF PendingIsAwaited
    <3>6. pending'.op = req[a].op /\ pending'.id = req[a].id /\ pending'.by = a
      BY <3>4
    <3>7. req[a].op \in Ops
      BY <3>2 DEF TypeInv, TypeOK, Requests, Made, Idle
    <3>8. pending' # NoTx
      BY <3>6, <3>7 DEF NoTx, Ops
    <3>9. QED BY <3>3, <3>5, <3>6, <3>8 DEF PendingIsAwaited
  <2>3. CASE WaitGivesUp(a)
    BY <2>3 DEF WaitGivesUp, PendingIsAwaited, Learnt
  <2>4. QED BY <1>4, <2>1, <2>2, <2>3 DEF Exchange
<1>5. CASE TxExecutes \/ TxDiscarded
  <2>1. SUFFICES ASSUME Learnt PROVE PendingIsAwaited'
    BY <1>5 DEF TxExecutes, TxDiscarded, PendingIsAwaited, Learnt
  <2>2. PICK p \in {"ok", "err"} : Answer(p)
    BY <1>5 DEF TxExecutes, TxDiscarded
  <2>3. pending # NoTx /\ pending' = NoTx
    BY <1>5 DEF TxExecutes, TxDiscarded, Execute, Discard
  <2>4. ASSUME NEW a \in Actors PROVE req'[a].phase # "waiting"
    <3>1. req[a].phase = "waiting" => pending.by = a
      BY <2>1 DEF PendingIsAwaited
    <3>2. IF a = pending.by /\ req[a].phase = "waiting" THEN req'[a].phase = p ELSE req'[a] = req[a]
      BY <2>2, AnswerStep
    <3>3. QED BY <3>1, <3>2
  <2>5. QED BY <2>3, <2>4 DEF PendingIsAwaited
<1>6. CASE Stop \/ Deadline \/ BackoffEnds \/ Market \/ Over \/ UNCHANGED vars
  <2>1. UNCHANGED <<cfg, pending, req>>
    BY <1>6 DEF Stop, Deadline, BackoffEnds, Market, Over, vars, venueVars,
                FillBulk, FillFlatten, VenueCancels, Catchup
  <2>2. QED BY <1>1, <2>1
<1>7. QED BY <1>2, <1>3, <1>4, <1>5, <1>6 DEF Next

-----------------------------------------------------------------------------
(***************************************************************************)
(* Quotes off.  The quotes are off from the moment a cancel is answered    *)
(* well, and only a placement could bring them back: which is pending only *)
(* at a cycle that quotes, and that one has the flag cleared.              *)
(***************************************************************************)
QuotesOff == ~bulk /\ pending.op # "place"

QuotesInv ==
  Learnt =>
    /\ invLimitBulkCancelDone => QuotesOff
    /\ pc \in {"cancelling", "shutdown"} /\ req["cycle"].phase = "ok" => QuotesOff
    /\ pc = "clean exit" => QuotesOff

LEMMA QuotesInit == Init => QuotesInv
  BY DEF Init, QuotesInv

(* A placement is on its way only while the cycle waits for it. *)
LEMMA PlacingWhilePending ==
  ASSUME TypeInv, CallsFitPlaces, PendingIsAwaited, Learnt, pending.op = "place"
  PROVE  pc = "placing"
<1>1. pending # NoTx
  BY DEF NoTx
<1>2. pending.by \in Actors /\ req[pending.by].op = "place"
  BY <1>1 DEF PendingIsAwaited
<1>3. QED BY <1>2, Arguments DEF CallsFitPlaces

LEMMA QuotesStep ==
  TypeInv /\ CallsFitPlaces /\ ClockInv /\ PendingIsAwaited /\ QuotesInv /\ [Next]_vars
    => QuotesInv'
<1> SUFFICES ASSUME TypeInv, CallsFitPlaces, ClockInv, PendingIsAwaited, QuotesInv, [Next]_vars
             PROVE  QuotesInv'
  OBVIOUS
<1>1. cfg' = cfg
  BY CycleFrame, OperatorFrame
     DEF Next, operatorFrame, Exchange, CancelBulkReads, NotSubmitted, Submitted, WaitGivesUp,
         TxExecutes, TxDiscarded, Stop, Deadline, BackoffEnds, Market, Over, vars
<1>2. SUFFICES ASSUME Learnt PROVE QuotesInv'
  BY <1>1 DEF QuotesInv, Learnt
<1> USE Arguments
\* Nothing brings quotes back, and nothing new relies on their being off.
<1>3. ASSUME QuotesOff => QuotesOff', UNCHANGED <<pc, invLimitBulkCancelDone>>,
             req'["cycle"].phase = "ok" /\ pc \in {"cancelling", "shutdown"}
               => QuotesOff' \/ req["cycle"].phase = "ok"
      PROVE  QuotesInv'
  BY <1>2, <1>3 DEF QuotesInv
<1>4. CASE Cycle
  <2>1. QuotesOff' <=> QuotesOff
    BY <1>4, CycleFrame DEF venueVars, QuotesOff
  <2>2. req'["cycle"].phase # "ok"
    BY <1>4, CycleFrame
  <2>3. \/ invLimitBulkCancelDone' => invLimitBulkCancelDone
        \/ pc = "cancelling" /\ req["cycle"].phase = "ok"
    BY <1>4 DEF Cycle, CycleStandsDown, CycleQuotes, CycleCancelsBulk, CycleFlattens, CycleStart,
                Recover, CancelBulkReturns, PlaceReturns, CycleReply, DoneAfter, ForceClose,
                ForceCancelReturns, ForceReturns, KeepResting, PlaceFlatten, RepriceReturns,
                RepriceFails, PostReturns, PostFails, ShutdownBegins, ShutdownSucceeds,
                ShutdownRetries, ShutdownFails, flattenFrame
  <2>4. pc' = "clean exit" => pc = "shutdown" /\ req["cycle"].phase = "ok"
    <3>1. CASE PostFlatten \/ ForceIOC
      <4>1. pc' \in {"posting", "forceIOC", "sleep"}
        BY <3>1 DEF PostFlatten, ForceIOC, CycleCalls, CycleEnds
      <4>2. QED BY <4>1
    <3>2. CASE ShutdownSucceeds
      BY <3>2 DEF ShutdownSucceeds, CycleReply
    <3>3. CASE ~(PostFlatten \/ ForceIOC \/ ShutdownSucceeds)
      <4>1. \/ \E p \in {"sleep", "flatten", "failed exit"} : CycleEnds(p)
            \/ \E p \in {"forceCancel", "reprice"} : CycleCalls(p)
            \/ \E p \in {"sleep", "placing", "cancelling", "flatten"} : CycleStart(p)
            \/ pc' = "shutdown"
        BY <1>4, <3>3
           DEF Cycle, CycleStandsDown, CycleQuotes, CycleCancelsBulk, CycleFlattens,
               CancelBulkReturns, PlaceReturns, CycleReply, ForceClose, ForceCancelReturns,
               ForceReturns, KeepResting, PlaceFlatten, RepriceReturns, RepriceFails, PostReturns,
               PostFails, ShutdownBegins, ShutdownRetries, ShutdownFails
      <4>2. QED BY <4>1 DEF CycleEnds, CycleCalls, CycleStart
    <3>4. QED BY <3>1, <3>2, <3>3
  <2>5. QED BY <1>2, <2>1, <2>2, <2>3, <2>4 DEF QuotesInv
<1>5. CASE Operator
  <2>1. UNCHANGED <<pc, invLimitBulkCancelDone, bulk, pending>> /\ req'["cycle"] = req["cycle"]
    BY <1>5, OperatorFrame DEF operatorFrame, strategyVars, venueVars
  <2>2. QED BY <1>3, <2>1 DEF QuotesOff
<1>6. ASSUME NEW a \in Actors, Exchange(a) PROVE QuotesInv'
  <2>1. UNCHANGED <<pc, invLimitBulkCancelDone, bulk>>
    BY <1>6 DEF Exchange, CancelBulkReads, NotSubmitted, Submitted, WaitGivesUp, strategyVars,
                venueVars, Accept
  <2>2. CASE CancelBulkReads(a)
    <3>1. PICK p \in {"sending", "ok"} : /\ Phase(a, p) /\ req[a].phase = "reading"
                                         /\ p = "ok" => ~View.bulk
      BY <2>2 DEF CancelBulkReads
    <3>2. req'[a].phase = p /\ \A b \in Actors : b # a => req'[b] = req[b]
      BY <3>1, PhaseStep
    <3>3. View.bulk = bulk
      BY <1>2 DEF View, Learnt, Book
    <3>4. req["cycle"].op = "cancelBulk" => pending.op # "place"
      BY <1>2, PlacingWhilePending DEF CallsFitPlaces
    <3>5. req[a].op = "cancelBulk" /\ pending' = pending
      BY <2>2, <3>1 DEF CallsFitPlaces, CancelBulkReads, venueVars
    <3>6. CASE a = "cycle" /\ p = "ok"
      BY <1>3, <2>1, <3>1, <3>3, <3>4, <3>5, <3>6 DEF QuotesOff
    <3>7. CASE ~(a = "cycle" /\ p = "ok")
      <4>1. req'["cycle"].phase = "ok" => req["cycle"].phase = "ok"
        BY <3>2, <3>7
      <4>2. QuotesOff' <=> QuotesOff
        BY <2>1, <3>5 DEF QuotesOff
      <4>3. QED BY <1>3, <2>1, <4>1, <4>2
    <3>8. QED BY <3>6, <3>7
  <2>3. CASE NotSubmitted(a) \/ WaitGivesUp(a)
    <3>1. Phase(a, "err") /\ req[a].phase # "idle" /\ pending' = pending
      BY <2>3 DEF NotSubmitted, WaitGivesUp, venueVars
    <3>2. req'["cycle"].phase = "ok" => req["cycle"].phase = "ok"
      BY <3>1, PhaseStep
    <3>3. QuotesOff' <=> QuotesOff
      BY <2>1, <3>1 DEF QuotesOff
    <3>4. QED BY <1>3, <2>1, <3>2, <3>3
  <2>4. CASE Submitted(a)
    <3>1. PICK p \in {"waiting", "err"} : Phase(a, p) /\ req[a].phase # "idle"
      BY <2>4 DEF Submitted
    <3>2. req'["cycle"].phase = "ok" => req["cycle"].phase = "ok"
      BY <3>1, PhaseStep
    <3>3. pending'.op = req[a].op
      BY <2>4 DEF Submitted, Accept
    <3>4. CASE req[a].op = "place"
      <4>1. pc = "placing" /\ ~invLimitBulkCancelDone
        BY <3>4 DEF CallsFitPlaces, ClockInv
      <4>2. QED BY <2>1, <4>1 DEF QuotesInv
    <3>5. CASE req[a].op # "place"
      <4>1. QuotesOff => QuotesOff'
        BY <2>1, <3>3, <3>5 DEF QuotesOff
      <4>2. QED BY <1>3, <2>1, <3>2, <4>1
    <3>6. QED BY <3>4, <3>5
  <2>5. QED BY <1>6, <2>2, <2>3, <2>4 DEF Exchange
<1>7. CASE TxExecutes \/ TxDiscarded
  <2>1. UNCHANGED <<pc, invLimitBulkCancelDone>> /\ pending # NoTx /\ pending' = NoTx
    BY <1>7 DEF TxExecutes, TxDiscarded, Execute, Discard, strategyVars
  <2>2. pending'.op # "place"
    BY <2>1 DEF NoTx
  <2>3. CASE pending.op = "place"
    <3>1. pc = "placing" /\ ~invLimitBulkCancelDone
      BY <1>2, <2>3, PlacingWhilePending DEF ClockInv
    <3>2. QED BY <2>1, <3>1 DEF QuotesInv
  <2>4. CASE pending.op # "place"
    <3>1. pending.op \in Ops
      BY <2>1 DEF TypeInv, TypeOK, VenueTypeOK, Txs
    <3>2. bulk' = bulk \/ (bulk' = FALSE /\ pending.op = "cancelBulk")
      <4>1. CASE TxDiscarded
        BY <4>1 DEF TxDiscarded, Discard
      <4>2. CASE TxExecutes
        <5>1. Effect
          BY <4>2 DEF TxExecutes, Execute
        <5>2. CASE pending.op = "cancelBulk"
          BY <5>1, <5>2 DEF Effect
        <5>3. CASE pending.op \in {"post", "ioc", "cancelOrder"}
          BY <5>1, <5>3 DEF Effect
        <5>4. QED BY <2>4, <3>1, <5>2, <5>3 DEF Ops
      <4>3. QED BY <1>7, <4>1, <4>2
    <3>3. QuotesOff => QuotesOff'
      BY <2>2, <3>2 DEF QuotesOff
    <3>4. ASSUME req'["cycle"].phase = "ok", pc \in {"cancelling", "shutdown"}
          PROVE  QuotesOff' \/ req["cycle"].phase = "ok"
      <4>1. PICK p \in {"ok", "err"} : Answer(p) /\ (p = "ok" => TxExecutes \/ pending.op = "cancelOrder")
        BY <1>7 DEF TxExecutes, TxDiscarded
      <4>2. CASE req'["cycle"] = req["cycle"]
        BY <3>4, <4>2
      <4>3. CASE pending.by = "cycle" /\ p = "ok"
        <5>1. pending.op = "cancelBulk"
          BY <1>2, <2>1, <3>4, <4>3 DEF PendingIsAwaited, CallsFitPlaces
        <5>2. TxExecutes /\ Effect
          BY <4>1, <4>3, <5>1 DEF TxExecutes, Execute
        <5>3. bulk' = FALSE
          BY <5>1, <5>2 DEF Effect
        <5>4. QED BY <2>2, <5>3 DEF QuotesOff
      <4>4. req'["cycle"] = req["cycle"] \/ (pending.by = "cycle" /\ req'["cycle"].phase = p)
        BY <4>1, AnswerStep
      <4>5. QED BY <3>4, <4>2, <4>3, <4>4
    <3>5. QED BY <1>3, <2>1, <3>3, <3>4
  <2>5. QED BY <2>3, <2>4
<1>8. CASE Market
  <2>1. UNCHANGED <<pc, invLimitBulkCancelDone, req, pending>> /\ (bulk' => bulk)
    BY <1>8 DEF Market, FillBulk, FillFlatten, VenueCancels, Catchup, strategyVars
  <2>2. QED BY <1>3, <2>1 DEF QuotesOff
<1>9. CASE Stop \/ Deadline \/ BackoffEnds \/ Over \/ UNCHANGED vars
  <2>1. UNCHANGED <<pc, invLimitBulkCancelDone, req, pending, bulk>>
    BY <1>9 DEF Stop, Deadline, BackoffEnds, Over, vars, strategyVars, venueVars
  <2>2. QED BY <1>3, <2>1 DEF QuotesOff
<1>10. QED BY <1>4, <1>5, <1>6, <1>7, <1>8, <1>9 DEF Next

-----------------------------------------------------------------------------
(***************************************************************************)
(* One flatten order at a time, in a faultless environment.  What the      *)
(* cycle posted and what still rests of it is the order it remembers.      *)
(* Only past the deadline may it forget one that rests (a failed cancel is *)
(* only logged), and then it posts no other until inventory recovers.      *)
(***************************************************************************)
EpisodeInv ==
  cfg.faults = {} =>
    /\ OneFlattenAtATime
    /\ pc = "posting" =>
         IF req["cycle"].phase = "ok" THEN episode \subseteq {req["cycle"].id} ELSE episode = {}
    /\ pc = "reprice" =>
         /\ req["cycle"].id = lastFlattenOrderID
         /\ episode \subseteq {lastFlattenOrderID}
         /\ req["cycle"].phase = "ok" => episode = {}
    /\ ~ForceDue /\ pc # "posting" => episode \subseteq {lastFlattenOrderID}
    /\ ~ForceDue /\ pc \in {"cancelling", "flatten"} /\ ~snap.open => episode = {}

LEMMA EpisodeInit == Init => EpisodeInv
  BY DEF Init, EpisodeInv, OneFlattenAtATime

\* The market can only take from the episode.
LEMMA EpisodeShrinks ==
  ASSUME EpisodeInv, episode' \subseteq episode, UNCHANGED <<cfg, pc, snap, flattenVars>>,
         req'["cycle"] = req["cycle"]
  PROVE  EpisodeInv'
<1> USE DEF flattenVars
<1>1. CASE cfg.faults # {}
  BY <1>1 DEF EpisodeInv
<1>2. CASE cfg.faults = {}
  <2>1. ForceDue' <=> ForceDue
    BY DEF ForceDue
  <2>2. OneFlattenAtATime'
    BY <1>2 DEF EpisodeInv, OneFlattenAtATime
  <2>3. QED BY <1>2, <2>1, <2>2 DEF EpisodeInv
<1>3. QED BY <1>1, <1>2

\* Nothing of the episode rests, and the cycle does not reprice.
LEMMA EpisodeEmpty ==
  ASSUME episode' = {}, pc' # "reprice"
  PROVE  EpisodeInv'
  BY DEF EpisodeInv, OneFlattenAtATime

\* Between two calls, with all that rests remembered.
LEMMA EpisodeRemembered ==
  ASSUME EpisodeInv, cfg' = cfg, cfg.faults = {}, episode' = episode,
         ForceDue' \/ episode \subseteq {lastFlattenOrderID'},
         pc' \notin {"posting", "reprice", "cancelling", "flatten"}
  PROVE  EpisodeInv'
  BY DEF EpisodeInv, OneFlattenAtATime

\* A cycle that takes a new snapshot knows whether what it remembers rests.
LEMMA CycleStartEpisode ==
  ASSUME TypeInv, EpisodeInv, NEW p \in {"sleep", "placing", "cancelling", "flatten"}, CycleStart(p)
  PROVE  EpisodeInv'
<1>1. CASE cfg.faults # {}
  BY <1>1 DEF EpisodeInv, CycleStart
<1>2. CASE cfg.faults = {} /\ episode' = {}
  <2>1. pc' # "reprice"
    BY DEF CycleStart
  <2>2. QED BY <1>2, <2>1, EpisodeEmpty
<1>3. CASE cfg.faults = {} /\ episode' # {}
  <2>1. UNCHANGED <<flattenVars, episode, cfg>> /\ pc = "sleep" /\ pc' = p
    BY <1>3 DEF CycleStart, Recover
  <2>2. ForceDue' <=> ForceDue
    BY <2>1 DEF ForceDue, flattenVars
  <2>3. OneFlattenAtATime' /\ (~ForceDue => episode' \subseteq {lastFlattenOrderID'})
    BY <1>3, <2>1 DEF EpisodeInv, OneFlattenAtATime, flattenVars
  <2>4. ASSUME p \in {"cancelling", "flatten"}, ~snap'.open, ~ForceDue PROVE episode' = {}
    <3>1. ASSUME NEW o \in BOOLEAN PROVE [inv |-> View.inv, open |-> o].open = o
      OBVIOUS
    <3>2. snap'.open = (lastFlattenOrderID \in View.resting)
      BY <2>4, <3>1 DEF CycleStart
    <3>3. View.resting = resting
      BY <1>3 DEF View, Book
    <3>4. episode \subseteq resting
      BY DEF TypeInv, TypeOK
    <3>5. QED BY <2>1, <2>3, <2>4, <3>2, <3>3, <3>4 DEF flattenVars
  <2>5. QED BY <2>1, <2>2, <2>3, <2>4 DEF EpisodeInv
<1>4. QED BY <1>1, <1>2, <1>3

\* At the limit, before the deadline, with no order seen open: nothing rests.
LEMMA NothingRests ==
  ASSUME TypeInv, EpisodeInv, cfg.faults = {}, pc = "flatten", ~ForceDue, ~LastStillOpen
  PROVE  episode = {}
<1>1. episode \subseteq {lastFlattenOrderID} /\ (~snap.open => episode = {})
  BY DEF EpisodeInv
<1>2. episode \subseteq Ids
  BY DEF TypeInv, TypeOK, VenueTypeOK
<1>3. QED BY <1>1, <1>2, VenueAssumption DEF LastStillOpen, VenueAssumption

LEMMA EpisodeStep ==
  TypeInv /\ CallsFitPlaces /\ ClockInv /\ PendingIsAwaited /\ EpisodeInv /\ [Next]_vars
    => EpisodeInv'
<1> SUFFICES ASSUME TypeInv, CallsFitPlaces, ClockInv, PendingIsAwaited, EpisodeInv, [Next]_vars
             PROVE  EpisodeInv'
  OBVIOUS
<1>1. cfg' = cfg
  BY CycleFrame, OperatorFrame
     DEF Next, operatorFrame, Exchange, CancelBulkReads, NotSubmitted, Submitted, WaitGivesUp,
         TxExecutes, TxDiscarded, Stop, Deadline, BackoffEnds, Market, Over, vars
<1>2. SUFFICES ASSUME cfg.faults = {} PROVE EpisodeInv'
  BY <1>1 DEF EpisodeInv
<1> USE Arguments
<1>3. CASE CycleStandsDown \/ CycleQuotes \/ CycleCancelsBulk \/ CycleFlattens
  <2>1. \E p \in {"sleep", "placing", "cancelling", "flatten"} : CycleStart(p)
    BY <1>3 DEF CycleStandsDown, CycleQuotes, CycleCancelsBulk, CycleFlattens
  <2>2. QED BY <2>1, CycleStartEpisode
<1>4. ASSUME NEW r \in {"ok", "err"}, CancelBulkReturns(r) \/ PlaceReturns(r) PROVE EpisodeInv'
  <2>1. /\ UNCHANGED <<flattenVars, episode>>
        /\ pc = "cancelling" \/ pc = "placing"
        /\ pc' = "sleep" \/ (pc = "cancelling" /\ pc' = "flatten" /\ snap' = snap)
    BY <1>4 DEF CancelBulkReturns, PlaceReturns, CycleReply, CycleEnds
  <2>2. (ForceDue' <=> ForceDue) /\ (~ForceDue => episode \subseteq {lastFlattenOrderID})
    BY <1>1, <1>2, <2>1 DEF ForceDue, flattenVars, EpisodeInv
  <2>3. CASE pc' = "sleep"
    BY <1>1, <1>2, <2>1, <2>2, <2>3, EpisodeRemembered DEF flattenVars
  <2>4. CASE pc' = "flatten"
    BY <1>1, <1>2, <2>1, <2>2, <2>4 DEF EpisodeInv, OneFlattenAtATime, flattenVars
  <2>5. QED BY <2>1, <2>3, <2>4
<1>5. CASE ForceClose \/ ForceCancelReturns \/ ForceReturns
  <2>1. ForceDue' /\ episode' = episode
    BY <1>1, <1>5 DEF ForceClose, ForceCancelReturns, ForceReturns, CycleReply, ClockInv, ForceDue,
                      flattenFrame, flattenVars
  <2>2. pc' \in {"forceCancel", "forceIOC", "sleep"}
    BY <1>5 DEF ForceClose, ForceCancelReturns, ForceReturns, ForceIOC, CycleEnds, CycleCalls
  <2>3. QED BY <1>1, <1>2, <2>1, <2>2, EpisodeRemembered
<1>6. CASE KeepResting
  <2>1. /\ pc = "flatten" /\ ~ForceDue /\ LastStillOpen
        /\ episode' = episode /\ lastFlattenOrderID' = lastFlattenOrderID
    BY <1>6 DEF KeepResting, flattenFrame
  <2>2. episode \subseteq {lastFlattenOrderID} /\ OneFlattenAtATime'
    BY <1>2, <2>1 DEF EpisodeInv, OneFlattenAtATime
  <2>3. CASE CycleEnds("sleep")
    <3>1. pc' = "sleep"
      BY <2>3, CycleEndsStep
    <3>2. QED BY <1>1, <1>2, <2>1, <2>2, <3>1, EpisodeRemembered
  <2>4. CASE CycleCalls("reprice") /\ Invoke("cycle", "cancelOrder", lastFlattenOrderID, stopping)
    <3>1. req'["cycle"].id = lastFlattenOrderID /\ req'["cycle"].phase \in {"err", "reading", "sending"}
      BY <2>4, InvokeStep
    <3>2. pc' = "reprice"
      BY <2>4, CycleCallsStep
    <3>3. QED BY <2>1, <2>2, <3>1, <3>2 DEF EpisodeInv
  <2>5. QED BY <1>6, <2>3, <2>4 DEF KeepResting
<1>7. CASE PlaceFlatten \/ RepriceReturns
  <2>1. episode' = episode /\ PostFlatten
    BY <1>7 DEF PlaceFlatten, RepriceReturns, flattenFrame
  <2>2. episode = {}
    BY <1>2, <1>7, NothingRests DEF PlaceFlatten, RepriceReturns, CycleReply, EpisodeInv
  <2>3. pc' # "reprice"
    BY <2>1 DEF PostFlatten, CycleEnds, CycleCalls
  <2>4. QED BY <2>1, <2>2, <2>3, EpisodeEmpty
<1>8. CASE RepriceFails
  <2>1. pc = "reprice" /\ pc' = "sleep" /\ UNCHANGED <<episode, flattenVars>>
    BY <1>8, CycleEndsStep DEF RepriceFails, CycleReply, flattenFrame
  <2>2. episode \subseteq {lastFlattenOrderID}
    BY <1>2, <2>1 DEF EpisodeInv
  <2>3. QED BY <1>1, <1>2, <2>1, <2>2, EpisodeRemembered DEF flattenVars
<1>9. CASE PostReturns
  <2>1. pc = "posting" /\ req["cycle"].phase = "ok" /\ pc' = "sleep" /\ episode' = episode
    BY <1>9, CycleEndsStep DEF PostReturns, CycleReply, flattenFrame
  <2>2. lastFlattenOrderID' = req["cycle"].id
    BY <1>2, <1>9 DEF PostReturns
  <2>3. episode \subseteq {lastFlattenOrderID'}
    BY <1>2, <2>1, <2>2 DEF EpisodeInv
  <2>4. QED BY <1>1, <1>2, <2>1, <2>3, EpisodeRemembered
<1>10. CASE PostFails
  <2>1. pc = "posting" /\ req["cycle"].phase = "err" /\ pc' = "sleep" /\ episode' = episode
    BY <1>10, CycleEndsStep DEF PostFails, CycleReply, flattenFrame
  <2>2. episode = {} /\ pc' # "reprice"
    BY <1>2, <2>1 DEF EpisodeInv
  <2>3. QED BY <2>1, <2>2, EpisodeEmpty
<1>11. CASE ShutdownBegins \/ ShutdownSucceeds \/ ShutdownRetries \/ ShutdownFails
  <2>1. pc \in {"sleep", "shutdown"} /\ pc' \in {"shutdown", "clean exit", "failed exit"}
        /\ UNCHANGED <<episode, flattenVars>>
    BY <1>11, CycleEndsStep DEF ShutdownBegins, ShutdownSucceeds, ShutdownRetries, ShutdownFails,
                                CycleReply, flattenFrame
  <2>2. ForceDue' \/ episode \subseteq {lastFlattenOrderID'}
    BY <1>1, <1>2, <2>1 DEF EpisodeInv, ForceDue, flattenVars
  <2>3. QED BY <1>1, <1>2, <2>1, <2>2, EpisodeRemembered
<1>12. CASE Operator
  <2>1. UNCHANGED <<cfg, strategyVars, episode>> /\ req'["cycle"] = req["cycle"]
    BY <1>12, OperatorFrame DEF operatorFrame
  <2>2. QED BY <2>1, EpisodeShrinks DEF strategyVars
<1>13. ASSUME NEW a \in Actors, Exchange(a) PROVE EpisodeInv'
  <2>1. UNCHANGED <<cfg, strategyVars, episode>>
    BY <1>13 DEF Exchange, CancelBulkReads, NotSubmitted, Submitted, WaitGivesUp
  <2>2. PICK p \in {"sending", "waiting", "ok", "err"} :
             Phase(a, p) /\ (p = "ok" => req[a].phase = "reading")
    BY <1>13 DEF Exchange, CancelBulkReads, NotSubmitted, Submitted, WaitGivesUp
  <2>3. req[a].phase \in {"reading", "sending", "waiting"}
    BY <1>13 DEF Exchange, CancelBulkReads, NotSubmitted, Submitted, WaitGivesUp
  <2>4. /\ req'[a].id = req[a].id /\ req'[a].phase = p
        /\ \A b \in Actors : b # a => req'[b] = req[b]
    BY <2>2, <2>3, PhaseStep
  <2>5. CASE a # "cycle"
    <3>1. req'["cycle"] = req["cycle"]
      BY <2>4, <2>5
    <3>2. QED BY <2>1, <3>1, EpisodeShrinks DEF strategyVars
  <2>6. CASE a = "cycle"
    <3>1. req'["cycle"].phase = "ok" => pc \notin {"posting", "reprice"}
      BY <2>2, <2>4, <2>6 DEF CallsFitPlaces
    <3>2. ForceDue' <=> ForceDue
      BY <2>1 DEF ForceDue, strategyVars, flattenVars
    <3>3. UNCHANGED <<pc, snap, lastFlattenOrderID, episode>> /\ (OneFlattenAtATime' <=> OneFlattenAtATime)
      BY <2>1 DEF strategyVars, flattenVars, OneFlattenAtATime
    <3>4. req["cycle"].phase # "ok" /\ req'["cycle"].id = req["cycle"].id
      BY <2>3, <2>4, <2>6
    <3>5. QED BY <1>2, <3>1, <3>2, <3>3, <3>4 DEF EpisodeInv
  <2>7. QED BY <2>5, <2>6
<1>14. CASE TxExecutes \/ TxDiscarded
  <2>1. UNCHANGED <<cfg, strategyVars>> /\ pending # NoTx
    BY <1>14 DEF TxExecutes, TxDiscarded, Execute, Discard
  <2>2. PICK p \in {"ok", "err"} : Answer(p) /\ (p = "ok" => TxExecutes \/ (TxDiscarded /\ pending.op = "cancelOrder" /\ pending.id \notin resting))
    BY <1>14 DEF TxExecutes, TxDiscarded
  <2>3. /\ pending.by \in Actors /\ req[pending.by].phase = "waiting"
        /\ req[pending.by].op = pending.op /\ req[pending.by].id = pending.id
    BY <1>2, <2>1 DEF PendingIsAwaited, Learnt
  <2>4. episode \subseteq resting
    BY DEF TypeInv, TypeOK
  <2>5. CASE pending.by # "cycle"
    <3>1. req'["cycle"] = req["cycle"]
      BY <2>2, <2>5, AnswerStep
    <3>2. episode' \subseteq episode
      BY <1>14, <2>5 DEF TxExecutes, TxDiscarded
    <3>3. QED BY <2>1, <3>1, <3>2, EpisodeShrinks DEF strategyVars
  <2>6. CASE pending.by = "cycle"
    <3>1. req'["cycle"].op = req["cycle"].op /\ req'["cycle"].id = req["cycle"].id
          /\ req'["cycle"].phase = p
      BY <2>2, <2>3, <2>6, AnswerStep
    <3>2. UNCHANGED <<pc, snap, lastFlattenOrderID>> /\ (ForceDue' <=> ForceDue)
      BY <2>1 DEF ForceDue, strategyVars, flattenVars
    <3>3. CASE pc = "posting"
      <4>1. pending.op = "post" /\ episode = {}
        BY <1>2, <2>3, <2>6, <3>3 DEF CallsFitPlaces, EpisodeInv
      <4>2. CASE TxExecutes
        <5>1. episode' = {req["cycle"].id} /\ p = "ok"
          <6>1. episode' = {req["cycle"].id}
            BY <2>3, <2>6, <4>1, <4>2 DEF TxExecutes
          <6>2. Answer("ok")
            BY <4>2 DEF TxExecutes
          <6>3. req'["cycle"].phase = "ok"
            BY <2>3, <2>6, <6>2, AnswerStep
          <6>4. QED BY <3>1, <6>1, <6>3
        <5>2. QED BY <3>1, <3>2, <3>3, <5>1 DEF EpisodeInv, OneFlattenAtATime
      <4>3. CASE TxDiscarded
        <5>1. episode' = {}
          BY <4>1, <4>3 DEF TxDiscarded
        <5>2. QED BY <3>2, <3>3, <5>1, EpisodeEmpty
      <4>4. QED BY <1>14, <4>2, <4>3
    <3>4. CASE pc # "posting"
      <4>1. pending.op # "post"
        BY <2>3, <2>6, <3>4 DEF CallsFitPlaces
      <4>2. episode' \subseteq episode
        BY <1>14, <4>1 DEF TxExecutes, TxDiscarded
      <4>3. CASE pc = "reprice" /\ p = "ok"
        <5>1. pending.op = "cancelOrder" /\ pending.id = lastFlattenOrderID
              /\ episode \subseteq {lastFlattenOrderID}
          BY <1>2, <2>3, <2>6, <4>3 DEF CallsFitPlaces, EpisodeInv
        <5>2. CASE TxExecutes
          <6>1. resting' = resting \ {pending.id}
            BY <5>1, <5>2 DEF TxExecutes, Execute, Effect
          <6>2. episode' = episode \cap resting'
            BY <4>1, <5>2 DEF TxExecutes
          <6>3. episode' = {}
            BY <5>1, <6>1, <6>2
          <6>4. QED BY <1>2, <2>1, <3>1, <3>2, <4>3, <5>1, <6>3 DEF EpisodeInv, OneFlattenAtATime
        <5>3. CASE TxDiscarded /\ pending.id \notin resting
          <6>1. episode' = {}
            BY <2>4, <4>2, <5>1, <5>3
          <6>2. QED BY <1>2, <2>1, <3>1, <3>2, <4>3, <5>1, <6>1 DEF EpisodeInv, OneFlattenAtATime
        <5>4. QED BY <2>2, <4>3, <5>2, <5>3
      <4>4. CASE ~(pc = "reprice" /\ p = "ok")
        <5>1. OneFlattenAtATime'
          BY <1>2, <4>2 DEF EpisodeInv, OneFlattenAtATime
        <5>2. QED BY <1>2, <3>1, <3>2, <3>4, <4>2, <4>4, <5>1 DEF EpisodeInv
      <4>5. QED BY <4>3, <4>4
    <3>5. QED BY <3>3, <3>4
  <2>7. QED BY <2>5, <2>6
<1>15. CASE Market
  BY <1>15, EpisodeShrinks DEF Market, strategyVars
<1>16. CASE Deadline
  <2>1. ForceDue' /\ UNCHANGED <<cfg, req, pc, lastFlattenOrderID, episode>>
    BY <1>16 DEF Deadline, ForceDue
  <2>2. QED BY <1>2, <2>1 DEF EpisodeInv, OneFlattenAtATime
<1>17. CASE Stop \/ BackoffEnds \/ Over \/ UNCHANGED vars
  <2>1. UNCHANGED <<cfg, req, pc, snap, flattenVars, episode>>
    BY <1>17 DEF Stop, BackoffEnds, Over, vars, strategyVars
  <2>2. QED BY <2>1, EpisodeShrinks
<1>18. QED
  BY <1>3, <1>4, <1>5, <1>6, <1>7, <1>8, <1>9, <1>10, <1>11, <1>12, <1>13, <1>14, <1>15, <1>16, <1>17
     DEF Next, Cycle

-----------------------------------------------------------------------------
(***************************************************************************)
(* The theorems.                                                           *)
(***************************************************************************)

(* The inductive invariant, layer on layer. *)
LEMMA MarketMakerInvariants ==
  Spec => [](/\ TypeInv /\ CallsFitPlaces /\ ClockInv /\ OnePlacementInv
             /\ PendingIsAwaited /\ QuotesInv /\ EpisodeInv)
<1>1. Spec => []TypeInv
  BY TypeInit, TypeStep, PTL DEF Spec
<1>2. Spec => []CallsFitPlaces
  BY <1>1, CallsFitInit, CallsFitStep, PTL DEF Spec
<1>3. Spec => []ClockInv
  BY <1>1, ClockInit, ClockStep, PTL DEF Spec
<1>4. Spec => []PendingIsAwaited
  BY <1>1, <1>2, AwaitedInit, AwaitedStep, PTL DEF Spec
<1>5. Spec => []QuotesInv
  BY <1>1, <1>2, <1>3, <1>4, QuotesInit, QuotesStep, PTL DEF Spec
<1>6. Spec => []EpisodeInv
  BY <1>1, <1>2, <1>3, <1>4, EpisodeInit, EpisodeStep, PTL DEF Spec
<1>7. Spec => []OnePlacementInv
  BY <1>1, <1>2, OnePlacementInit, OnePlacementStep, PTL DEF Spec
<1>8. QED BY <1>1, <1>2, <1>3, <1>4, <1>5, <1>6, <1>7, PTL

(* A cycle that quotes again finds the escalation clock stopped and no flatten
   order remembered, under every fault of the environment. *)
THEOREM ClockStopsBeforeQuoting == Spec => []NoClockWhileQuoting
<1>1. ClockInv => NoClockWhileQuoting
  BY DEF ClockInv, ClockStopped, NoClockWhileQuoting
<1>2. QED BY <1>1, MarketMakerInvariants, PTL

(* The forced taker exit is tried only past the deadline and on a position the cycle
   saw at the limit, as long as the market takes the order size. *)
THEOREM ForceNeedsLimit == Spec => []ForceOnlyAtLimitIfQuotable
<1>1. ClockInv => ForceOnlyAtLimitIfQuotable
  BY DEF ClockInv, ForceDue, FlattenPlaces, ForceOnlyAtLimitIfQuotable, ForceOnlyAtLimit
<1>2. QED BY <1>1, MarketMakerInvariants, PTL

(* After a Pause the node takes at most one more bulk placement, the one already
   decided on, whatever is lost, late or retried. *)
THEOREM PauseLetsOneThrough == Spec => []AtMostOneLatePlacement
<1>1. OnePlacementInv => AtMostOneLatePlacement
  BY DEF OnePlacementInv, AtMostOneLatePlacement
<1>2. QED BY <1>1, MarketMakerInvariants, PTL

(* At the inventory limit no quote rests and none is on its way, where REST is current
   and the outcome of every submission is learnt. *)
THEOREM QuotesStayOff == Spec => []QuotesOffWithoutFaults
<1>1. QuotesInv => QuotesOffWithoutFaults
  BY DEF QuotesInv, QuotesOff, Learnt, QuotesOffWithoutFaults, QuotesOffAtLimit, Pending
<1>2. QED BY <1>1, MarketMakerInvariants, PTL

(* A clean exit leaves no quotes and no placement behind, under the same condition. *)
THEOREM ExitIsClean == Spec => []CleanExit
<1>1. QuotesInv => CleanExit
  BY DEF QuotesInv, QuotesOff, Learnt, CleanExit
<1>2. QED BY <1>1, MarketMakerInvariants, PTL

(* Of the flatten orders the cycle posted since inventory last recovered at most one
   rests, in a faultless environment. *)
THEOREM FlattensDoNotAccumulate == Spec => []OneFlattenWithoutFaults
<1>1. EpisodeInv => OneFlattenWithoutFaults
  BY DEF EpisodeInv, OneFlattenWithoutFaults
<1>2. QED BY <1>1, MarketMakerInvariants, PTL

(* An escalation that is due stays due through every step but a cycle that sees
   inventory below the limit, under every fault of the environment. *)
THEOREM DueStaysDue == Spec => EscalationSticks
<1>1. TypeInv /\ [Next]_vars => (flattenStuckSince = "due" /\ flattenStuckSince' # "due" => ~AtLimit)
  <2> SUFFICES ASSUME TypeInv, [Next]_vars, flattenStuckSince = "due", flattenStuckSince' # "due"
               PROVE  ~AtLimit
    OBVIOUS
  <2> USE DEF flattenVars
  <2>1. View.inv < MaxInventory => ~AtLimit
    BY ViewType, MarketMakerAssumption, VenueAssumption
       DEF MarketMakerAssumption, VenueAssumption, TypeInv, TypeOK, AtLimit
  <2>2. CASE Cycle
    BY <2>1, <2>2
       DEF Cycle, CycleStandsDown, CycleQuotes, CycleCancelsBulk, CycleFlattens, CycleStart,
           Recover, CancelBulkReturns, PlaceReturns, ForceClose, ForceCancelReturns, ForceReturns,
           KeepResting, PlaceFlatten, Started, RepriceReturns, RepriceFails, PostReturns, PostFails,
           ShutdownBegins, ShutdownSucceeds, ShutdownRetries, ShutdownFails
  <2>3. CASE Operator
    BY <2>3, OperatorFrame DEF operatorFrame, strategyVars
  <2>4. ASSUME NEW a \in Actors, Exchange(a) PROVE ~AtLimit
    BY <2>4 DEF Exchange, CancelBulkReads, NotSubmitted, Submitted, WaitGivesUp, strategyVars
  <2>5. CASE TxExecutes \/ TxDiscarded \/ Stop \/ BackoffEnds \/ Market \/ Over \/ UNCHANGED vars
    BY <2>5 DEF TxExecutes, TxDiscarded, Stop, BackoffEnds, Market, Over, vars, strategyVars
  <2>6. CASE Deadline
    BY <2>6 DEF Deadline
  <2>7. QED BY <2>2, <2>3, <2>4, <2>5, <2>6 DEF Next
<1>2. Spec => []TypeInv
  BY TypeInit, TypeStep, PTL DEF Spec
<1>3. QED BY <1>1, <1>2, PTL DEF Spec, EscalationSticks
=============================================================================
