----------------------------- MODULE SpotVenue -----------------------------
(***************************************************************************)
(* The Spot market a grid trades on, as grid-bot/rust/src/lib.rs uses it:  *)
(* the price, the one bulk ladder of the subaccount, its free balances in  *)
(* the primary store (PFS) and the signer's transaction in the mempool.    *)
(* Not part of the repository: it is modelled from SpotFunds,              *)
(* execute_bulk_grid, cancel_bulk_ladder and spot_taker.                   *)
(*   - A bulk placement replaces the whole ladder; its escrow is credited  *)
(*     against the new one and only the difference is drawn from PFS.      *)
(*   - Transactions are signed with the account's live sequence number, so *)
(*     a second one is refused while one is pending.                       *)
(***************************************************************************)
EXTENDS SpotGrid

CONSTANTS
  InitialMid,   \* the price when the model starts
  Funds,        \* the initial balances to explore: records [base, quote]
  Histories     \* whether the account has traded before: what to explore of BOOLEAN

ASSUME SpotVenueAssumption ==
  /\ InitialMid \in Prices
  /\ Funds \subseteq [base : Nat, quote : Nat]
  /\ Histories \subseteq BOOLEAN

VARIABLES
  mid,          \* the market price
  ladder,       \* what rests of the bulk ladder
  free,         \* free PFS balances; escrowed amounts are those of the ladder
  standalone,   \* an individually placed order rests on this market
  pending       \* the signer's transaction in the mempool, or NoTx

venueVars == <<mid, ladder, free, standalone, pending>>

NoTx == [op |-> "none", book |-> EmptyBook]
Transactions == [op : {"none", "place", "cancel"}, book : Books]
Balances == [base : Nat, quote : Nat]

VenueInit ==
  /\ mid = InitialMid
  /\ ladder = EmptyBook
  /\ free \in Funds
  /\ standalone = FALSE
  /\ pending = NoTx

\* What a replacement of the ladder can use: PFS and the escrow of the present one.
Spendable == [base |-> free.base + Total(ladder.asks), quote |-> free.quote + Total(ladder.bids)]

Covers(funds, book) ==
  funds.base >= BaseRequired(book) /\ funds.quote >= QuoteRequired(book)

-----------------------------------------------------------------------------
\* The chain.

\* The transaction enters the mempool.
Admit(op, book) ==
  /\ pending = NoTx
  /\ pending' = [op |-> op, book |-> book]
  /\ UNCHANGED <<mid, ladder, free, standalone>>

\* Post-only: no level may cross the market.
Crosses(book) ==
  \E p \in Prices : (book.bids[p] > 0 /\ p > mid) \/ (book.asks[p] > 0 /\ p < mid)

Replace(book) ==
  /\ ladder' = book
  /\ free' = [base |-> Spendable.base - BaseRequired(book),
              quote |-> Spendable.quote - QuoteRequired(book)]

Execute ==
  /\ \/ /\ pending.op = "place"
        /\ Covers(Spendable, pending.book) /\ ~Crosses(pending.book)
        /\ Replace(pending.book)
     \/ pending.op = "cancel" /\ Replace(EmptyBook)
  /\ pending' = NoTx
  /\ UNCHANGED <<mid, standalone>>

\* Aborted by the VM, or expired.
Discard ==
  /\ pending # NoTx
  /\ pending' = NoTx
  /\ UNCHANGED <<mid, ladder, free, standalone>>

-----------------------------------------------------------------------------
\* The market.

MidMoves ==
  /\ \E m \in Prices :
       /\ m = mid - 1 \/ m = mid + 1
       /\ \A p \in Prices : (p > m => ladder.bids[p] = 0) /\ (p < m => ladder.asks[p] = 0)
       /\ mid' = m
  /\ UNCHANGED <<ladder, free, standalone, pending>>

\* A taker trades one lot with the level at the market price.
BidFills ==
  /\ ladder.bids[mid] > 0
  /\ ladder' = [ladder EXCEPT !.bids[mid] = @ - 1]
  /\ free' = [free EXCEPT !.base = @ + 1]
  /\ UNCHANGED <<mid, standalone, pending>>

\* The proceeds of a sale settle in PFS, or in Cross where the grid cannot use them.
AskFills(proceeds) ==
  /\ ladder.asks[mid] > 0
  /\ ladder' = [ladder EXCEPT !.asks[mid] = @ - 1]
  /\ free' = [free EXCEPT !.quote = @ + proceeds]
  /\ UNCHANGED <<mid, standalone, pending>>

\* Someone places or removes an order of their own.
StandaloneChanges ==
  /\ standalone' = ~standalone
  /\ UNCHANGED <<mid, ladder, free, pending>>

\* Immediate-or-cancel orders of the bot itself: size lots are bought or sold.
Takes(bought, sold) ==
  /\ free' = [base |-> free.base + bought - sold, quote |-> free.quote + sold - bought]
  /\ UNCHANGED <<mid, ladder, standalone, pending>>

=============================================================================
