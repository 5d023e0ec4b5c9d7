------------------------------- MODULE Venue -------------------------------
(***************************************************************************)
(* One market of the Decibel exchange and the fullnode in front of it, as  *)
(* the market maker depends on them: the position, the bulk quotes, the    *)
(* single resting orders, the one transaction of the account that may be   *)
(* pending, and the REST views that may lag behind all of these.  None of  *)
(* it is in the repository; it is modelled from how exchange/decibel and   *)
(* api use it.  A pending transaction holds the account's next sequence    *)
(* number, so while one is pending the node refuses the next, which is     *)
(* built with the same live number (aptos/client.go, SubmitEntryFunction). *)
(***************************************************************************)
EXTENDS Integers

CONSTANTS
  Ids,          \* order ids, reused once nobody remembers them
  NoId,         \* the empty order id
  Actors,       \* the goroutines that submit: the cycle and the operator
  InvCap        \* bound on the position

ASSUME VenueAssumption == NoId \notin Ids /\ InvCap \in Nat

VARIABLES
  inv,          \* size of the position, in fills
  bulk,         \* the bulk quotes rest on the book
  resting,      \* reduce-only orders resting on the book
  seen,         \* what REST answers when it lags
  pending       \* the account's transaction in the mempool, or NoTx

venueVars == <<inv, bulk, resting, seen, pending>>

Ops == {"place", "cancelBulk", "post", "ioc", "cancelOrder"}

NoTx == [op |-> "none", id |-> NoId, by |-> "nobody"]

Txs == [op : Ops, id : Ids \cup {NoId}, by : Actors] \cup {NoTx}

Views == [inv : 0 .. InvCap, bulk : BOOLEAN, resting : SUBSET Ids]

VenueTypeOK ==
  /\ inv \in 0 .. InvCap
  /\ bulk \in BOOLEAN
  /\ resting \subseteq Ids
  /\ seen \in Views
  /\ pending \in Txs

Book == [inv |-> inv, bulk |-> bulk, resting |-> resting]

VenueInit ==
  /\ inv \in 0 .. InvCap
  /\ bulk \in BOOLEAN
  /\ resting = {}
  /\ seen = Book
  /\ pending = NoTx

-----------------------------------------------------------------------------

\* The node takes a transaction when none is pending.
Accept(tx) ==
  /\ pending = NoTx
  /\ pending' = tx
  /\ UNCHANGED <<inv, bulk, resting, seen>>

\* What the pending transaction does when it succeeds; an IOC may fill partially.
Effect ==
  CASE pending.op = "place" -> bulk' = TRUE /\ UNCHANGED <<inv, resting>>
    [] pending.op = "cancelBulk" -> bulk' = FALSE /\ UNCHANGED <<inv, resting>>
    [] pending.op = "post" ->
         inv > 0 /\ resting' = resting \cup {pending.id} /\ UNCHANGED <<inv, bulk>>
    [] pending.op = "ioc" -> inv' \in 0 .. inv /\ UNCHANGED <<bulk, resting>>
    [] pending.op = "cancelOrder" ->
         /\ pending.id \in resting
         /\ resting' = resting \ {pending.id}
         /\ UNCHANGED <<inv, bulk>>

\* The pending transaction executes, or is aborted by the VM or dropped.
Execute == pending # NoTx /\ Effect /\ pending' = NoTx /\ UNCHANGED seen
Discard == pending # NoTx /\ pending' = NoTx /\ UNCHANGED <<inv, bulk, resting, seen>>

\* One side of the bulk quotes is hit; what is left of them rests on or is used up.
FillBulk ==
  /\ bulk
  /\ inv' \in {inv - 1, inv + 1} \cap (0 .. InvCap)
  /\ bulk' \in BOOLEAN
  /\ UNCHANGED <<resting, seen, pending>>

\* A resting reduce-only order is filled by one and is used up or rests on.
FillFlatten(id) ==
  /\ id \in resting
  /\ inv > 0
  /\ inv' = inv - 1
  /\ resting' \in {resting, resting \ {id}}
  /\ UNCHANGED <<bulk, seen, pending>>

\* The venue or the account's owner cancels a resting order.
VenueCancels(id) ==
  /\ id \in resting
  /\ resting' = resting \ {id}
  /\ UNCHANGED <<inv, bulk, seen, pending>>

\* The indexer behind one REST endpoint catches up.
Catchup(field) ==
  /\ seen[field] # Book[field]
  /\ seen' = [seen EXCEPT ![field] = Book[field]]
  /\ UNCHANGED <<inv, bulk, resting, pending>>

=============================================================================
