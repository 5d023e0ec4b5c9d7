----------------------------- MODULE BulkOrders -----------------------------
(***************************************************************************)
(* Several markets of one market maker over the shared submitter           *)
(* (market-maker/go/main.go, runMultiMarket; exchange/decibel/decibel.go,  *)
(* PlaceBulkOrders and CancelBulkOrders).  Two counters order what a       *)
(* market sends: the account's sequence number, shared by all markets and  *)
(* kept by the submitter, and the bulk sequence number, one per market,    *)
(* kept by its exchange adapter and synchronised from REST once per        *)
(* process.  The venue takes a ladder only if its number is higher than    *)
(* the last one it took for the market; it is not part of the repository   *)
(* and modelled by that rule, which syncBulkSeqFromREST relies on.         *)
(*                                                                         *)
(* A call of SubmitEntryFunction is one placement or one cancellation of   *)
(* one market.  The loop of a market makes one call at a time, the loops   *)
(* of different markets compete for the submitter.                         *)
(***************************************************************************)
EXTENDS TxSubmitter, FiniteSets

CONSTANTS
  Markets,
  MarketOf,   \* the market that makes each call
  Nothing     \* no call

ASSUME MarketsAssumption ==
  /\ MarketOf \in [Calls -> Markets]
  /\ Nothing \notin Calls

VARIABLES
  bulkSeq,    \* DecibelExchange.bulkSeq of each market
  synced,     \* DecibelExchange.bulkSeqSynced
  number,     \* the bulk sequence number a call sends, 0 for a cancellation
  venueSeq,   \* the number of the last ladder the venue took, of each market
  decided,    \* the call that put up or took down what rests on each market
  refused,    \* calls executed but aborted by the venue for their number
  born        \* history: how many calls were made before each one, and in which process

bulkVars == <<bulkSeq, synced, number, venueSeq, decided, refused, born>>
multiVars == <<vars, bulkVars>>

MultiInit ==
  /\ Init
  /\ bulkSeq = [m \in Markets |-> 0] /\ synced = [m \in Markets |-> FALSE]
  /\ number = [c \in Calls |-> 0]
  /\ venueSeq = [m \in Markets |-> 0]
  /\ decided = [m \in Markets |-> Nothing]
  /\ refused = {}
  /\ born = [c \in Calls |-> [order |-> 0, process |-> 0]]

-----------------------------------------------------------------------------
(* The loop of a market.                                                   *)

UnderWay(m) == \E c \in Calls : MarketOf[c] = m /\ pc[c] \in {"waiting", "locked", "confirming"}

\* The loop that makes call c asks the submitter to send n.
Sends(c, n) ==
  /\ ~UnderWay(MarketOf[c])
  /\ Call(c)
  /\ number' = [number EXCEPT ![c] = n]
  /\ born' = [born EXCEPT ![c] = [order |-> Cardinality({d \in Calls : pc[d] # "idle"}), process |-> restarts]]

\* syncBulkSeqFromREST, once per process: the highest number in the rows, which may be behind the
\* venue.  Nothing happens between the read and the call but encoding.
KnownBulkSeq(m) == IF synced[m] THEN {bulkSeq[m]} ELSE 0 .. venueSeq[m]

\* Mutant: the number of a placement whose wait was given up is used again.
NextBulkSeqReusing(m, known) ==
  IF synced[m] /\ \E d \in Calls : MarketOf[d] = m /\ number[d] = known /\ reply[d] = "pending"
  THEN known ELSE known + 1

\* The number is taken whatever becomes of the transaction.
NextBulkSeq(m, known) == known + 1

PlaceBulkOrders(c) ==
  /\ \E known \in KnownBulkSeq(MarketOf[c]) : \E next \in {NextBulkSeq(MarketOf[c], known)} :
       /\ bulkSeq' = [bulkSeq EXCEPT ![MarketOf[c]] = next]
       /\ Sends(c, next)
  /\ synced' = [synced EXCEPT ![MarketOf[c]] = TRUE]
  /\ UNCHANGED <<venueSeq, decided, refused>>

\* CancelBulkOrders, if its rows, old or new, show quotes.
CancelBulkOrders(c) ==
  /\ venueSeq[MarketOf[c]] > 0
  /\ Sends(c, 0)
  /\ UNCHANGED <<bulkSeq, synced, venueSeq, decided, refused>>

-----------------------------------------------------------------------------
(* The chain, the submitter and the process.                               *)

\* The transaction whose turn it is runs on the venue, which takes a cancellation or a higher number.
Executes(c) ==
  /\ CommitTx(c)
  /\ LET m == MarketOf[c]
     IN IF number[c] = 0 \/ number[c] > venueSeq[m]
        THEN /\ decided' = [decided EXCEPT ![m] = c]
             /\ venueSeq' = [venueSeq EXCEPT ![m] = IF number[c] = 0 THEN @ ELSE number[c]]
             /\ UNCHANGED refused
        ELSE refused' = refused \cup {c} /\ UNCHANGED <<decided, venueSeq>>
  /\ UNCHANGED <<submitterVars, bulkSeq, synced, number, born>>

Expires(c) == Evict(c) /\ UNCHANGED <<submitterVars, bulkVars>>

\* The steps of SubmitEntryFunction.
SubmitterSteps(c) ==
  /\ Lock(c) \/ Submit(c) \/ Confirmed(c) \/ WaitTimesOut(c)
  /\ UNCHANGED bulkVars

NewProcess ==
  /\ Restart
  /\ synced' = [m \in Markets |-> FALSE]
  /\ bulkSeq' = [m \in Markets |-> 0]
  /\ UNCHANGED <<number, venueSeq, decided, refused, born>>

AllAnswered == Quiescent /\ UNCHANGED bulkVars

MultiNext ==
  \/ \E c \in Calls :
       \/ PlaceBulkOrders(c) \/ CancelBulkOrders(c)
       \/ SubmitterSteps(c) \/ Executes(c) \/ Expires(c)
  \/ NewProcess
  \/ AllAnswered

MultiSpec == MultiInit /\ [][MultiNext]_multiVars

-----------------------------------------------------------------------------

\* A process is never in its own way: when the venue refuses a ladder for its number, the ladder it
\* took before came from another process, whose placement REST did not show yet or whose transaction
\* ran late.  It holds although placements are abandoned in the mempool and markets take turns
\* (decibel.go:256-293, 346-366).
NeverInItsOwnWay ==
  \A c \in refused :
    \E d \in Calls :
      /\ MarketOf[d] = MarketOf[c] /\ fate[d] = "committed"
      /\ number[d] >= number[c]
      /\ born[d].process # born[c].process

\* What a market decided later is what rests: no placement that was given up, and none of an
\* earlier process, puts its ladder over a later one or back after a later cancellation, as long
\* as no transaction is evicted from between two others (decibel.go:297-402, tx_submitter.go:45-49).
LaterDecisionWins ==
  [][\A m \in Markets :
       decided'[m] # decided[m] /\ decided[m] # Nothing /\ (\A c \in Calls : fate[c] # "dropped") =>
         born[decided'[m]].order > born[decided[m]].order]_multiVars
=============================================================================
