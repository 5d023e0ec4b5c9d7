-------------------------- MODULE BulkOrdersProofs --------------------------
(***************************************************************************)
(* Theorems about BulkOrders for any set of calls, any number of markets,  *)
(* and any number of restarts.  The steps of several markets are steps of  *)
(* the submitter they share, so what TxSubmitterProofs shows of it holds   *)
(* here too; on top of it stand the order in which the loop of a market    *)
(* makes its calls and the order in which the chain runs them.             *)
(***************************************************************************)
EXTENDS BulkOrders, TxSubmitterProofs, FiniteSetTheorems

(* A step of the markets is a step of the submitter or leaves it alone. *)
LEMMA MultiStepIsSubmitterStep == [MultiNext]_multiVars => [Next]_vars
<1> SUFFICES ASSUME [MultiNext]_multiVars PROVE [Next]_vars
  OBVIOUS
<1>1. ASSUME NEW c \in Calls, PlaceBulkOrders(c) \/ CancelBulkOrders(c) PROVE Call(c)
  BY <1>1 DEF PlaceBulkOrders, CancelBulkOrders, Sends
<1>2. ASSUME NEW c \in Calls, SubmitterSteps(c)
      PROVE  Lock(c) \/ Submit(c) \/ Confirmed(c) \/ WaitTimesOut(c)
  BY <1>2 DEF SubmitterSteps
<1>3. ASSUME NEW c \in Calls, Executes(c) \/ Expires(c) PROVE NodeStep(c)
  BY <1>3 DEF Executes, Expires, NodeStep
<1>4. NewProcess => Restart
  BY DEF NewProcess
<1>5. AllAnswered => Quiescent
  BY DEF AllAnswered
<1>6. UNCHANGED multiVars => UNCHANGED vars
  BY DEF multiVars
<1>7. QED BY <1>1, <1>2, <1>3, <1>4, <1>5, <1>6 DEF MultiNext, Next

(* Several markets over the shared submitter are just callers of it: a run of the
   multi-market bot is a run of the submitter (main.go, runMultiMarket). *)
THEOREM MarketsShareTheSubmitter == MultiSpec => Spec
<1>1. MultiInit => Init
  BY DEF MultiInit
<1>2. QED BY <1>1, MultiStepIsSubmitterStep, PTL DEF MultiSpec, Spec

-----------------------------------------------------------------------------
(***************************************************************************)
(* The inductive invariant.                                                *)
(***************************************************************************)
Made == {c \in Calls : pc[c] # "idle"}

Sent(c) == fate[c] # "none"

Before(c, d) == born[c].order < born[d].order

\* Calls of one market in one process.
Siblings(c, d) == MarketOf[c] = MarketOf[d] /\ born[c].process = born[d].process

BulkTypeOK ==
  /\ number \in [Calls -> Nat]
  /\ born \in [Calls -> [order : Nat, process : Nat]]
  /\ bulkSeq \in [Markets -> Nat]
  /\ synced \in [Markets -> BOOLEAN]
  /\ venueSeq \in [Markets -> Nat]
  /\ decided \in [Markets -> Calls \cup {Nothing}]
  /\ refused \subseteq Made

\* Calls are made one after the other, those of a later process later.
MadeInv ==
  /\ IsFiniteSet(Made)
  /\ \A c \in Made : born[c].order < Cardinality(Made) /\ born[c].process <= restarts
  /\ \A c \in Made : pc[c] = "past" <=> born[c].process # restarts
  /\ \A c, d \in Made : c # d => Before(c, d) \/ Before(d, c)
  /\ \A c, d \in Made : Before(c, d) => born[c].process <= born[d].process

\* A transaction was sent by a call that is past its submission, and every call with a hash sent one.
SentInv ==
  /\ \A c \in Calls : Sent(c) => pc[c] \in {"confirming", "returned", "past"}
  /\ \A c \in Calls : c \in Hashed \/ pc[c] = "confirming" => Sent(c)

\* The call a market's loop waits for is the latest it made.
LoopInv ==
  \A c, d \in Made :
    pc[c] \in {"waiting", "locked", "confirming"} /\ Siblings(c, d) => ~Before(c, d)

\* In one process the ladders of a market carry growing numbers.
NumberInv ==
  /\ \A c \in Made : born[c].process = restarts /\ number[c] > 0 =>
       synced[MarketOf[c]] /\ number[c] <= bulkSeq[MarketOf[c]]
  /\ \A c, d \in Made : Siblings(c, d) /\ Before(c, d) /\ number[c] > 0 /\ number[d] > 0 =>
       number[c] < number[d]

\* In one process later calls of a market have later places in the account's queue.
SlotOrderInv ==
  /\ \A c \in Made : Sent(c) /\ born[c].process = restarts => seqSet /\ slot[c] <= seq
  /\ \A c, d \in Made : Siblings(c, d) /\ Before(c, d) /\ Sent(c) /\ Sent(d) => slot[c] <= slot[d]

\* The chain is past what it ran and not past what it holds, one transaction for each number.
ChainInv ==
  /\ \A c \in Calls : fate[c] = "committed" => slot[c] < chainSeq
  /\ \A c \in Calls : fate[c] = "mempool" => slot[c] >= chainSeq
  /\ \A c, d \in Calls : fate[c] = "mempool" /\ fate[d] = "mempool" /\ slot[c] = slot[d] => c = d

\* What the venue remembers of a market comes from transactions of the market that ran.
VenueInv ==
  /\ \A m \in Markets : venueSeq[m] > 0 =>
       \E d \in Calls : MarketOf[d] = m /\ fate[d] = "committed" /\ number[d] = venueSeq[m]
  /\ \A m \in Markets : decided[m] # Nothing =>
       MarketOf[decided[m]] = m /\ fate[decided[m]] = "committed"

NothingDropped == \A c \in Calls : fate[c] # "dropped"

\* As long as nothing is evicted, the account's queue has no gap, so a new process joins it at the end.
QueueInv ==
  /\ seqSet => base <= chainSeq
  /\ NothingDropped =>
       /\ \A c \in Mempool : \A s \in chainSeq .. slot[c] : \E d \in Mempool : slot[d] = s
       /\ \A c \in Mempool, d \in Made :
            Sent(d) /\ born[c].process < born[d].process => slot[c] < slot[d]

Inv ==
  /\ BulkTypeOK /\ MadeInv /\ SentInv /\ LoopInv /\ NumberInv
  /\ SlotOrderInv /\ ChainInv /\ VenueInv /\ QueueInv /\ NeverInItsOwnWay

-----------------------------------------------------------------------------
(***************************************************************************)
(* What the steps do.                                                      *)
(***************************************************************************)

(* A market's loop makes a call while none of its calls is under way: nothing the
   submitter, the chain or the venue keeps changes, and the call is the latest one. *)
LEMMA MakesCall ==
  ASSUME TypeOK, BulkTypeOK, MadeInv, NEW c \in Calls, PlaceBulkOrders(c) \/ CancelBulkOrders(c)
  PROVE  /\ pc[c] = "idle" /\ pc'[c] = "waiting"
         /\ \A d \in Calls : d # c => pc'[d] = pc[d] /\ number'[d] = number[d] /\ born'[d] = born[d]
         /\ ~UnderWay(MarketOf[c])
         /\ born'[c] = [order |-> Cardinality(Made), process |-> restarts]
         /\ Cardinality(Made) \in Nat
         /\ born' \in [Calls -> [order : Nat, process : Nat]]
         /\ UNCHANGED <<accountVars, mu, seq, seqSet, reply, base, restarts, venueSeq, decided, refused>>
<1>1. PICK n : Sends(c, n)
  BY DEF PlaceBulkOrders, CancelBulkOrders
<1>2. Call(c) /\ ~UnderWay(MarketOf[c])
  BY <1>1 DEF Sends
<1>3. Cardinality(Made) \in Nat
  BY FS_CardinalityType DEF MadeInv
<1>4. born' = [born EXCEPT ![c] = [order |-> Cardinality(Made), process |-> restarts]]
  BY <1>1 DEF Sends, Made
<1>5. /\ born'[c] = [order |-> Cardinality(Made), process |-> restarts]
      /\ \A d \in Calls : d # c => born'[d] = born[d]
  BY <1>4 DEF BulkTypeOK
<1>6. [order |-> Cardinality(Made), process |-> restarts] \in [order : Nat, process : Nat]
  BY <1>3 DEF TypeOK
<1>7. born' \in [Calls -> [order : Nat, process : Nat]]
  BY <1>4, <1>6 DEF BulkTypeOK
<1>8. \A d \in Calls : d # c => number'[d] = number[d]
  BY <1>1 DEF Sends, BulkTypeOK
<1>9. /\ pc[c] = "idle" /\ pc'[c] = "waiting"
      /\ \A d \in Calls : d # c => pc'[d] = pc[d]
      /\ UNCHANGED <<accountVars, mu, seq, seqSet, reply, base, restarts>>
  BY <1>2 DEF Call, TypeOK
<1>10. UNCHANGED <<venueSeq, decided, refused>>
  BY DEF PlaceBulkOrders, CancelBulkOrders
<1>11. QED BY <1>2, <1>3, <1>5, <1>7, <1>8, <1>9, <1>10

(* A ladder takes a number above every number its market sent in this process. *)
LEMMA MakesNumber ==
  ASSUME BulkTypeOK, NEW c \in Calls, PlaceBulkOrders(c) \/ CancelBulkOrders(c)
  PROVE  LET m == MarketOf[c]
         IN /\ m \in Markets
            /\ number'[c] \in Nat /\ number' \in [Calls -> Nat]
            /\ bulkSeq' \in [Markets -> Nat] /\ synced' \in [Markets -> BOOLEAN]
            /\ number'[c] > 0 => synced'[m] /\ number'[c] <= bulkSeq'[m]
            /\ number'[c] > 0 /\ synced[m] => bulkSeq[m] < number'[c]
            /\ synced[m] => synced'[m] /\ bulkSeq[m] <= bulkSeq'[m]
            /\ \A k \in Markets : k # m => synced'[k] = synced[k] /\ bulkSeq'[k] = bulkSeq[k]
<1> DEFINE m == MarketOf[c]
<1>1. m \in Markets
  BY MarketsAssumption DEF MarketsAssumption
<1>2. CASE PlaceBulkOrders(c)
  <2>1. PICK known \in KnownBulkSeq(m) : \E next \in {NextBulkSeq(m, known)} :
          /\ bulkSeq' = [bulkSeq EXCEPT ![m] = next]
          /\ Sends(c, next)
    BY <1>2 DEF PlaceBulkOrders
  <2>2. known \in Nat /\ (synced[m] => known = bulkSeq[m])
    BY <1>1, <2>1 DEF KnownBulkSeq, BulkTypeOK
  <2>3. bulkSeq' = [bulkSeq EXCEPT ![m] = known + 1] /\ Sends(c, known + 1)
    BY <2>1 DEF NextBulkSeq
  <2>4. number'[c] = known + 1 /\ number' \in [Calls -> Nat]
    BY <2>2, <2>3 DEF Sends, BulkTypeOK
  <2>5. /\ bulkSeq'[m] = known + 1 /\ bulkSeq' \in [Markets -> Nat]
        /\ \A k \in Markets : k # m => bulkSeq'[k] = bulkSeq[k]
    BY <1>1, <2>2, <2>3 DEF BulkTypeOK
  <2>6. /\ synced'[m] /\ synced' \in [Markets -> BOOLEAN]
        /\ \A k \in Markets : k # m => synced'[k] = synced[k]
    BY <1>1, <1>2 DEF PlaceBulkOrders, BulkTypeOK
  <2>7. synced[m] => bulkSeq[m] < number'[c] /\ bulkSeq[m] <= bulkSeq'[m]
    BY <2>2, <2>4, <2>5
  <2>8. QED BY <1>1, <2>2, <2>4, <2>5, <2>6, <2>7
<1>3. CASE CancelBulkOrders(c)
  <2>1. number'[c] = 0 /\ number' \in [Calls -> Nat]
    BY <1>3 DEF CancelBulkOrders, Sends, BulkTypeOK
  <2>2. UNCHANGED <<bulkSeq, synced>>
    BY <1>3 DEF CancelBulkOrders
  <2>3. bulkSeq[m] \in Nat
    BY <1>1 DEF BulkTypeOK
  <2>4. QED BY <1>1, <2>1, <2>2, <2>3 DEF BulkTypeOK
<1>4. QED BY <1>2, <1>3

(* A step of SubmitEntryFunction moves one call that is under way, and sends its
   transaction with the current number or sends nothing. *)
LEMMA SubmitterStepEffect ==
  ASSUME TypeOK, NEW c \in Calls, SubmitterSteps(c)
  PROVE  /\ UNCHANGED <<bulkVars, chainSeq, restarts>>
         /\ pc[c] \in {"waiting", "locked", "confirming"}
         /\ pc'[c] \in {"locked", "confirming", "returned"}
         /\ \A d \in Calls : d # c => pc'[d] = pc[d] /\ reply'[d] = reply[d]
         /\ pc'[c] = "returned" /\ reply'[c] # "error" => pc[c] = "confirming"
         /\ pc[c] = "confirming" => pc'[c] = "returned" /\ UNCHANGED <<slot, fate>>
         /\ seqSet => seqSet' /\ seq <= seq' /\ base' = base
         /\ ~seqSet /\ seqSet' => base' = chainSeq /\ UNCHANGED <<slot, fate>>
<1> USE DEF TypeOK, AccountTypeOK
<1>1. UNCHANGED bulkVars
  BY DEF SubmitterSteps
<1>2. CASE Lock(c)
  BY <1>1, <1>2 DEF Lock, accountVars
<1>3. CASE FetchInitialSeq(c)
  BY <1>1, <1>3 DEF FetchInitialSeq, accountVars
<1>4. CASE FetchFails(c) \/ BuildFails(c) \/ SubmitRefused(c)
  <2>1. pc[c] = "locked" /\ Return(c, "error") /\ UNCHANGED <<accountVars, seqSet, base, restarts>>
    BY <1>4 DEF FetchFails, BuildFails, SubmitRefused
  <2>2. seq' = seq
    BY <2>1 DEF Return, NextSeq
  <2>3. QED BY <1>1, <2>1, <2>2 DEF Return, accountVars
<1>5. CASE SubmitAccepted(c)
  BY <1>1, <1>5 DEF SubmitAccepted, Admit
<1>6. CASE SubmitReplyLost(c)
  <2>1. pc[c] = "locked" /\ seqSet /\ Return(c, "error") /\ UNCHANGED <<chainSeq, seqSet, base, restarts>>
    BY <1>6 DEF SubmitReplyLost, Admit
  <2>2. seq' = seq
    BY <2>1 DEF Return, NextSeq
  <2>3. QED BY <1>1, <2>1, <2>2 DEF Return
<1>7. CASE Confirmed(c) \/ WaitTimesOut(c)
  <2>1. PICK r \in {"pending", "executed"} : Return(c, r)
    BY <1>7 DEF Confirmed, WaitTimesOut
  <2>2. pc[c] = "confirming" /\ UNCHANGED <<accountVars, seqSet, base, restarts>>
    BY <1>7 DEF Confirmed, WaitTimesOut
  <2>3. seq' = seq + 1
    BY <2>1 DEF Return, NextSeq
  <2>4. QED BY <1>1, <2>1, <2>2, <2>3 DEF Return, accountVars
<1>8. QED BY <1>2, <1>3, <1>4, <1>5, <1>6, <1>7 DEF SubmitterSteps, Submit

(* What such a step does to the account's queue. *)
LEMMA SubmitterStepSends ==
  ASSUME TypeOK, NEW c \in Calls, SubmitterSteps(c)
  PROVE  \/ UNCHANGED <<slot, fate>> /\ (pc'[c] = "confirming" => pc[c] = "confirming")
         \/ /\ pc[c] = "locked" /\ pc'[c] \in {"confirming", "returned"}
            /\ seqSet /\ seqSet' /\ seq' = seq /\ base' = base
            /\ seq >= chainSeq
            /\ \A d \in Mempool : slot[d] # seq
            /\ slot'[c] = seq /\ fate'[c] = "mempool"
            /\ \A d \in Calls : d # c => slot'[d] = slot[d] /\ fate'[d] = fate[d]
<1> USE DEF TypeOK, AccountTypeOK
<1>1. CASE SubmitAccepted(c) \/ SubmitReplyLost(c)
  <2>1. pc[c] = "locked" /\ Admit(c, seq) /\ seqSet /\ UNCHANGED <<seqSet, base>>
    BY <1>1 DEF SubmitAccepted, SubmitReplyLost
  <2>2. seq' = seq /\ pc'[c] \in {"confirming", "returned"}
    BY <1>1 DEF SubmitAccepted, SubmitReplyLost, Return, NextSeq
  <2>3. /\ seq >= chainSeq
        /\ \A d \in Mempool : slot[d] # seq
    BY <2>1 DEF Admit, SlotFree
  <2>4. /\ slot'[c] = seq /\ fate'[c] = "mempool"
        /\ \A d \in Calls : d # c => slot'[d] = slot[d] /\ fate'[d] = fate[d]
    BY <2>1 DEF Admit
  <2>5. QED BY <2>1, <2>2, <2>3, <2>4
<1>2. CASE Lock(c) \/ FetchInitialSeq(c)
  BY <1>2 DEF Lock, FetchInitialSeq, accountVars
<1>3. CASE FetchFails(c) \/ BuildFails(c) \/ SubmitRefused(c) \/ Confirmed(c) \/ WaitTimesOut(c)
  BY <1>3 DEF FetchFails, BuildFails, SubmitRefused, Confirmed, WaitTimesOut, Return, accountVars
<1>4. QED BY <1>1, <1>2, <1>3 DEF SubmitterSteps, Submit

(* The chain's steps move one pending transaction. *)
LEMMA ExecutesEffect ==
  ASSUME TypeOK, NEW c \in Calls, Executes(c)
  PROVE  /\ UNCHANGED <<mu, seq, seqSet, pc, reply, base, restarts, slot>>
         /\ UNCHANGED <<bulkSeq, synced, number, born>>
         /\ fate[c] = "mempool" /\ fate'[c] = "committed"
         /\ \A d \in Calls : d # c => fate'[d] = fate[d]
         /\ slot[c] = chainSeq /\ chainSeq' = chainSeq + 1
  BY DEF Executes, CommitTx, TypeOK, AccountTypeOK, submitterVars

LEMMA ExpiresEffect ==
  ASSUME TypeOK, NEW c \in Calls, Expires(c)
  PROVE  /\ UNCHANGED <<mu, seq, seqSet, pc, reply, base, restarts, slot, chainSeq>>
         /\ UNCHANGED bulkVars
         /\ fate[c] = "mempool" /\ fate'[c] = "dropped"
         /\ \A d \in Calls : d # c => fate'[d] = fate[d]
  BY DEF Expires, Evict, TypeOK, AccountTypeOK, submitterVars

LEMMA NewProcessEffect ==
  ASSUME TypeOK, NewProcess
  PROVE  /\ UNCHANGED <<accountVars, reply, number, venueSeq, decided, refused, born>>
         /\ \A c \in Calls : pc'[c] = IF pc[c] = "idle" THEN "idle" ELSE "past"
         /\ ~seqSet' /\ restarts' = restarts + 1
         /\ \A m \in Markets : ~synced'[m]
         /\ synced' \in [Markets -> BOOLEAN] /\ bulkSeq' \in [Markets -> Nat]
<1>1. Restart
  BY DEF NewProcess
<1>2. synced' = [m \in Markets |-> FALSE] /\ bulkSeq' = [m \in Markets |-> 0]
  BY DEF NewProcess
<1>3. UNCHANGED <<number, venueSeq, decided, refused, born>>
  BY DEF NewProcess
<1>4. /\ UNCHANGED <<accountVars, reply>>
      /\ \A c \in Calls : pc'[c] = IF pc[c] = "idle" THEN "idle" ELSE "past"
  BY <1>1 DEF Restart
<1>5. ~seqSet' /\ restarts' = restarts + 1
  BY <1>1 DEF Restart
<1>6. QED BY <1>2, <1>3, <1>4, <1>5

(* A step that makes no call leaves the calls made. *)
LEMMA MadeGrows ==
  ASSUME TypeOK, BulkTypeOK, MadeInv, NEW c \in Calls, PlaceBulkOrders(c) \/ CancelBulkOrders(c)
  PROVE  /\ Made' = Made \cup {c} /\ c \notin Made
         /\ IsFiniteSet(Made') /\ Cardinality(Made') = Cardinality(Made) + 1
<1>1. Made' = Made \cup {c} /\ c \notin Made
  BY MakesCall DEF Made
<1>2. IsFiniteSet(Made)
  BY DEF MadeInv
<1>3. QED BY <1>1, <1>2, FS_AddElement

LEMMA MadeStays ==
  ASSUME TypeOK, NEW c \in Calls,
         SubmitterSteps(c) \/ Executes(c) \/ Expires(c) \/ NewProcess \/ UNCHANGED multiVars
  PROVE  Made' = Made /\ UNCHANGED <<number, born>>
<1>1. CASE SubmitterSteps(c)
  BY <1>1, SubmitterStepEffect DEF Made, bulkVars
<1>2. CASE Executes(c)
  BY <1>2, ExecutesEffect DEF Made
<1>3. CASE Expires(c)
  BY <1>3, ExpiresEffect DEF Made, bulkVars
<1>4. CASE NewProcess
  BY <1>4, NewProcessEffect DEF Made
<1>5. CASE UNCHANGED multiVars
  BY <1>5 DEF Made, multiVars, vars, submitterVars, bulkVars
<1>6. QED BY <1>1, <1>2, <1>3, <1>4, <1>5

-----------------------------------------------------------------------------
(***************************************************************************)
(* The initial states.                                                     *)
(***************************************************************************)
LEMMA InvInit == MultiInit => Inv
<1> SUFFICES ASSUME MultiInit PROVE Inv
  OBVIOUS
<1>1. Init
  BY DEF MultiInit
<1>2. \A c \in Calls : pc[c] = "idle" /\ fate[c] = "none"
  BY <1>1 DEF Init, AccountInit
<1>3. Made = {} /\ Mempool = {} /\ Hashed = {}
  BY <1>2 DEF Made, Mempool, Hashed
<1>4. ~seqSet
  BY <1>1 DEF Init
<1>5. refused = {}
  BY DEF MultiInit
<1>6. BulkTypeOK
  <2>1. [order |-> 0, process |-> 0] \in [order : Nat, process : Nat]
    OBVIOUS
  <2>2. born \in [Calls -> [order : Nat, process : Nat]]
    BY <2>1 DEF MultiInit
  <2>3. number \in [Calls -> Nat] /\ bulkSeq \in [Markets -> Nat] /\ venueSeq \in [Markets -> Nat]
    BY DEF MultiInit
  <2>4. synced \in [Markets -> BOOLEAN] /\ decided \in [Markets -> Calls \cup {Nothing}]
    BY DEF MultiInit
  <2>5. QED BY <1>5, <2>2, <2>3, <2>4 DEF BulkTypeOK
<1>7. MadeInv /\ LoopInv /\ NumberInv /\ SlotOrderInv
  BY <1>3, FS_EmptySet DEF MadeInv, LoopInv, NumberInv, SlotOrderInv
<1>8. SentInv /\ ChainInv
  BY <1>2, <1>3 DEF SentInv, ChainInv, Sent
<1>9. VenueInv
  BY DEF MultiInit, VenueInv
<1>10. QueueInv
  BY <1>3, <1>4 DEF QueueInv
<1>11. NeverInItsOwnWay
  BY <1>5 DEF NeverInItsOwnWay
<1>12. QED BY <1>6, <1>7, <1>8, <1>9, <1>10, <1>11 DEF Inv

-----------------------------------------------------------------------------
(***************************************************************************)
(* Each part of the invariant, step by step.                               *)
(***************************************************************************)
LEMMA BulkTypeStep == TypeOK /\ BulkTypeOK /\ MadeInv /\ SentInv /\ [MultiNext]_multiVars => BulkTypeOK'
<1> SUFFICES ASSUME TypeOK, BulkTypeOK, MadeInv, SentInv, [MultiNext]_multiVars PROVE BulkTypeOK'
  OBVIOUS
<1>1. ASSUME NEW c \in Calls, PlaceBulkOrders(c) \/ CancelBulkOrders(c) PROVE BulkTypeOK'
  <2>1. born' \in [Calls -> [order : Nat, process : Nat]] /\ UNCHANGED <<venueSeq, decided, refused>>
    BY <1>1, MakesCall
  <2>2. /\ number' \in [Calls -> Nat] /\ bulkSeq' \in [Markets -> Nat]
        /\ synced' \in [Markets -> BOOLEAN]
    BY <1>1, MakesNumber
  <2>3. refused' \subseteq Made'
    BY <1>1, <2>1, MadeGrows DEF BulkTypeOK
  <2>4. QED BY <2>1, <2>2, <2>3 DEF BulkTypeOK
<1>2. ASSUME NEW c \in Calls, SubmitterSteps(c) \/ Expires(c) PROVE BulkTypeOK'
  <2>1. UNCHANGED bulkVars
    BY <1>2, SubmitterStepEffect, ExpiresEffect
  <2>2. Made' = Made
    BY <1>2, MadeStays
  <2>3. QED BY <2>1, <2>2 DEF BulkTypeOK, bulkVars
<1>3. ASSUME NEW c \in Calls, Executes(c) PROVE BulkTypeOK'
  <2> DEFINE m == MarketOf[c]
  <2>1. m \in Markets
    BY MarketsAssumption DEF MarketsAssumption
  <2>2. Made' = Made /\ UNCHANGED <<bulkSeq, synced, number, born>>
    BY <1>3, MadeStays, ExecutesEffect
  <2>3. c \in Made
    BY <1>3, ExecutesEffect DEF Made, SentInv, Sent
  <2>4. CASE number[c] = 0 \/ number[c] > venueSeq[m]
    <3>1. /\ decided' = [decided EXCEPT ![m] = c]
          /\ venueSeq' = [venueSeq EXCEPT ![m] = IF number[c] = 0 THEN @ ELSE number[c]]
          /\ refused' = refused
      BY <1>3, <2>4 DEF Executes
    <3>2. decided' \in [Markets -> Calls \cup {Nothing}]
      BY <2>1, <3>1 DEF BulkTypeOK
    <3>3. (IF number[c] = 0 THEN venueSeq[m] ELSE number[c]) \in Nat
      BY <2>1 DEF BulkTypeOK
    <3>4. venueSeq' \in [Markets -> Nat]
      BY <2>1, <3>1, <3>3 DEF BulkTypeOK
    <3>5. QED BY <2>2, <3>1, <3>2, <3>4 DEF BulkTypeOK
  <2>5. CASE ~(number[c] = 0 \/ number[c] > venueSeq[m])
    <3>1. refused' = refused \cup {c} /\ UNCHANGED <<decided, venueSeq>>
      BY <1>3, <2>5 DEF Executes
    <3>2. QED BY <2>2, <2>3, <3>1 DEF BulkTypeOK
  <2>6. QED BY <2>4, <2>5
<1>4. CASE NewProcess
  <2>1. /\ UNCHANGED <<number, venueSeq, decided, refused, born>>
        /\ synced' \in [Markets -> BOOLEAN] /\ bulkSeq' \in [Markets -> Nat]
    BY <1>4, NewProcessEffect
  <2>2. Made' = Made
    BY <1>4, NewProcessEffect DEF Made
  <2>3. QED BY <2>1, <2>2 DEF BulkTypeOK
<1>5. CASE AllAnswered \/ UNCHANGED multiVars
  BY <1>5 DEF BulkTypeOK, Made, AllAnswered, Quiescent, multiVars, vars, submitterVars, bulkVars
<1>6. QED BY <1>1, <1>2, <1>3, <1>4, <1>5 DEF MultiNext

LEMMA MadeStep == TypeOK /\ BulkTypeOK /\ MadeInv /\ [MultiNext]_multiVars => MadeInv'
<1> SUFFICES ASSUME TypeOK, BulkTypeOK, MadeInv, [MultiNext]_multiVars PROVE MadeInv'
  OBVIOUS
<1>0. restarts \in Nat /\ \A c \in Calls : born[c].order \in Nat /\ born[c].process \in Nat
  BY DEF TypeOK, BulkTypeOK
<1>1. ASSUME NEW c \in Calls, PlaceBulkOrders(c) \/ CancelBulkOrders(c) PROVE MadeInv'
  <2>1. /\ Made' = Made \cup {c} /\ c \notin Made
        /\ IsFiniteSet(Made') /\ Cardinality(Made') = Cardinality(Made) + 1
    BY <1>1, MadeGrows
  <2>2. /\ pc'[c] = "waiting" /\ restarts' = restarts /\ Cardinality(Made) \in Nat
        /\ born'[c] = [order |-> Cardinality(Made), process |-> restarts]
        /\ \A d \in Calls : d # c => pc'[d] = pc[d] /\ born'[d] = born[d]
    BY <1>1, MakesCall
  <2>3. born'[c].order = Cardinality(Made) /\ born'[c].process = restarts
    BY <2>2
  <2>4. \A d \in Made : /\ d \in Calls /\ d # c /\ pc'[d] = pc[d] /\ born'[d] = born[d]
                        /\ born'[d].order < Cardinality(Made) /\ born'[d].process <= restarts
    BY <2>1, <2>2 DEF MadeInv, Made
  <2>5. \A d \in Made' : born'[d].order < Cardinality(Made)' /\ born'[d].process <= restarts'
    <3> SUFFICES ASSUME NEW d \in Made'
                 PROVE  born'[d].order < Cardinality(Made') /\ born'[d].process <= restarts'
      OBVIOUS
    <3>1. CASE d = c
      BY <3>1, <1>0, <2>1, <2>2, <2>3
    <3>2. CASE d \in Made
      BY <3>2, <1>0, <2>1, <2>2, <2>4
    <3>3. QED BY <2>1, <3>1, <3>2
  <2>6. \A d \in Made' : pc'[d] = "past" <=> born'[d].process # restarts'
    BY <2>1, <2>2, <2>3, <2>4 DEF MadeInv
  <2>7. \A d, e \in Made' : d # e => Before(d, e)' \/ Before(e, d)'
    BY <2>1, <2>3, <2>4 DEF MadeInv, Before
  <2>8. \A d, e \in Made' : Before(d, e)' => born'[d].process <= born'[e].process
    <3> SUFFICES ASSUME NEW d \in Made', NEW e \in Made', born'[d].order < born'[e].order
                 PROVE  born'[d].process <= born'[e].process
      BY DEF Before
    <3>1. CASE d = c
      <4>1. e # c
        BY <3>1, <2>2, <2>3
      <4>2. born'[e].order < Cardinality(Made) /\ born'[e].order \in Nat
        BY <4>1, <2>1, <2>4, <1>0
      <4>3. QED BY <3>1, <4>2, <2>2, <2>3
    <3>2. CASE d # c /\ e = c
      BY <3>2, <2>1, <2>3, <2>4
    <3>3. CASE d # c /\ e # c
      BY <3>3, <2>1, <2>4 DEF MadeInv, Before
    <3>4. QED BY <3>1, <3>2, <3>3
  <2>9. QED BY <2>1, <2>5, <2>6, <2>7, <2>8 DEF MadeInv
<1>2. ASSUME NEW c \in Calls, SubmitterSteps(c) \/ Executes(c) \/ Expires(c) PROVE MadeInv'
  <2>1. Made' = Made /\ born' = born
    BY <1>2, MadeStays
  <2>2. restarts' = restarts
    BY <1>2, SubmitterStepEffect, ExecutesEffect, ExpiresEffect
  <2>3. \A d \in Calls : pc'[d] = "past" <=> pc[d] = "past"
    BY <1>2, SubmitterStepEffect, ExecutesEffect, ExpiresEffect
  <2>4. QED BY <2>1, <2>2, <2>3 DEF MadeInv, Made, Before
<1>3. CASE NewProcess
  <2>1. /\ born' = born /\ restarts' = restarts + 1
        /\ \A c \in Calls : pc'[c] = IF pc[c] = "idle" THEN "idle" ELSE "past"
    BY <1>3, NewProcessEffect
  <2>2. Made' = Made
    BY <2>1 DEF Made
  <2>3. \A c \in Made : pc'[c] = "past" /\ born[c].process <= restarts
    BY <2>1 DEF Made, MadeInv
  <2>4. \A c \in Made : born'[c].process # restarts' /\ born'[c].process <= restarts'
    <3> SUFFICES ASSUME NEW c \in Made
                 PROVE  born[c].process # restarts + 1 /\ born[c].process <= restarts + 1
      BY <2>1
    <3>1. born[c].process \in Nat
      BY <1>0 DEF Made
    <3>2. QED BY <1>0, <2>3, <3>1
  <2>5. QED BY <2>1, <2>2, <2>3, <2>4 DEF MadeInv, Before
<1>4. CASE AllAnswered \/ UNCHANGED multiVars
  BY <1>4 DEF MadeInv, Made, Before, AllAnswered, Quiescent, multiVars, vars, submitterVars, bulkVars
<1>5. QED BY <1>1, <1>2, <1>3, <1>4 DEF MultiNext

LEMMA SentStep == TypeOK /\ BulkTypeOK /\ MadeInv /\ SentInv /\ [MultiNext]_multiVars => SentInv'
<1> SUFFICES ASSUME TypeOK, BulkTypeOK, MadeInv, SentInv, [MultiNext]_multiVars PROVE SentInv'
  OBVIOUS
<1>1. ASSUME NEW c \in Calls, PlaceBulkOrders(c) \/ CancelBulkOrders(c) PROVE SentInv'
  <2>1. /\ pc[c] = "idle" /\ pc'[c] = "waiting" /\ UNCHANGED <<fate, reply>>
        /\ \A d \in Calls : d # c => pc'[d] = pc[d]
    BY <1>1, MakesCall DEF accountVars
  <2>2. QED BY <2>1 DEF SentInv, Sent, Hashed
<1>2. ASSUME NEW c \in Calls, SubmitterSteps(c) PROVE SentInv'
  <2>1. /\ pc[c] \in {"waiting", "locked", "confirming"}
        /\ pc'[c] \in {"locked", "confirming", "returned"}
        /\ \A d \in Calls : d # c => pc'[d] = pc[d] /\ reply'[d] = reply[d]
        /\ pc'[c] = "returned" /\ reply'[c] # "error" => pc[c] = "confirming"
        /\ pc[c] = "confirming" => pc'[c] = "returned" /\ UNCHANGED <<slot, fate>>
    BY <1>2, SubmitterStepEffect
  <2>2. CASE UNCHANGED <<slot, fate>> /\ (pc'[c] = "confirming" => pc[c] = "confirming")
    BY <2>1, <2>2 DEF SentInv, Sent, Hashed
  <2>3. CASE /\ pc'[c] \in {"confirming", "returned"} /\ fate'[c] = "mempool"
             /\ \A d \in Calls : d # c => fate'[d] = fate[d]
    BY <2>1, <2>3 DEF SentInv, Sent, Hashed
  <2>4. QED BY <1>2, <2>2, <2>3, SubmitterStepSends
<1>3. ASSUME NEW c \in Calls, Executes(c) \/ Expires(c) PROVE SentInv'
  <2>1. /\ UNCHANGED <<pc, reply>> /\ fate[c] = "mempool" /\ fate'[c] # "none"
        /\ \A d \in Calls : d # c => fate'[d] = fate[d]
    BY <1>3, ExecutesEffect, ExpiresEffect
  <2>2. QED BY <2>1 DEF SentInv, Sent, Hashed
<1>4. CASE NewProcess
  <2>1. /\ UNCHANGED fate
        /\ \A c \in Calls : pc'[c] = IF pc[c] = "idle" THEN "idle" ELSE "past"
    BY <1>4, NewProcessEffect DEF accountVars
  <2>2. QED BY <2>1 DEF SentInv, Sent, Hashed
<1>5. CASE AllAnswered \/ UNCHANGED multiVars
  BY <1>5 DEF SentInv, Sent, Hashed, AllAnswered, Quiescent, multiVars, vars, accountVars, submitterVars
<1>6. QED BY <1>1, <1>2, <1>3, <1>4, <1>5 DEF MultiNext

(* The call just made is the latest, and its market has no other under way. *)
LEMMA LatestCall ==
  ASSUME TypeOK, BulkTypeOK, MadeInv, NEW c \in Calls, PlaceBulkOrders(c) \/ CancelBulkOrders(c)
  PROVE  /\ \A d \in Made : /\ d \in Calls /\ d # c /\ pc'[d] = pc[d]
                            /\ born'[d] = born[d] /\ number'[d] = number[d]
                            /\ born'[d].order < born'[c].order
         /\ born'[c].process = restarts
         /\ \A d \in Made : MarketOf[d] = MarketOf[c] => pc[d] \notin {"waiting", "locked", "confirming"}
<1>1. /\ Made' = Made \cup {c} /\ c \notin Made
  BY MadeGrows
<1>2. /\ born'[c] = [order |-> Cardinality(Made), process |-> restarts]
      /\ \A d \in Calls : d # c => pc'[d] = pc[d] /\ born'[d] = born[d] /\ number'[d] = number[d]
      /\ ~UnderWay(MarketOf[c])
  BY MakesCall
<1>3. born'[c].order = Cardinality(Made) /\ born'[c].process = restarts
  BY <1>2
<1>4. \A d \in Made : d \in Calls /\ d # c /\ born[d].order < Cardinality(Made)
  BY <1>1 DEF MadeInv, Made
<1>5. \A d \in Made : MarketOf[d] = MarketOf[c] => pc[d] \notin {"waiting", "locked", "confirming"}
  BY <1>2, <1>4 DEF UnderWay
<1>6. QED BY <1>2, <1>3, <1>4, <1>5

LEMMA LoopStep ==
  TypeOK /\ BulkTypeOK /\ MadeInv /\ LoopInv /\ [MultiNext]_multiVars => LoopInv'
<1> SUFFICES ASSUME TypeOK, BulkTypeOK, MadeInv, LoopInv, [MultiNext]_multiVars PROVE LoopInv'
  OBVIOUS
<1>1. ASSUME NEW c \in Calls, PlaceBulkOrders(c) \/ CancelBulkOrders(c) PROVE LoopInv'
  <2>1. Made' = Made \cup {c} /\ c \notin Made
    BY <1>1, MadeGrows
  <2>2. /\ \A d \in Made : /\ d \in Calls /\ d # c /\ pc'[d] = pc[d] /\ born'[d] = born[d]
                           /\ born'[d].order < born'[c].order
        /\ \A d \in Made : MarketOf[d] = MarketOf[c] => pc[d] \notin {"waiting", "locked", "confirming"}
    BY <1>1, LatestCall
  <2>3. \A d \in Made' : born'[d].order \in Nat
    BY <1>1, BulkTypeStep, MakesCall DEF Made
  <2>4. SUFFICES ASSUME NEW d \in Made', NEW e \in Made',
                        pc'[d] \in {"waiting", "locked", "confirming"},
                        MarketOf[d] = MarketOf[e], born'[d].process = born'[e].process,
                        born'[d].order < born'[e].order
                 PROVE  FALSE
    BY DEF LoopInv, Siblings, Before
  <2>5. CASE e = c
    <3>1. d # c
      BY <2>3, <2>4, <2>5
    <3>2. QED BY <3>1, <2>1, <2>2, <2>4, <2>5
  <2>6. CASE e # c /\ d = c
    BY <2>1, <2>2, <2>3, <2>4, <2>6
  <2>7. CASE e # c /\ d # c
    BY <2>1, <2>2, <2>4, <2>7 DEF LoopInv, Siblings, Before
  <2>8. QED BY <2>5, <2>6, <2>7
<1>2. ASSUME NEW c \in Calls, SubmitterSteps(c) \/ Executes(c) \/ Expires(c) PROVE LoopInv'
  <2>1. Made' = Made /\ UNCHANGED born
    BY <1>2, MadeStays
  <2>2. \A d \in Made : pc'[d] \in {"waiting", "locked", "confirming"}
                     => pc[d] \in {"waiting", "locked", "confirming"}
    BY <1>2, SubmitterStepEffect, ExecutesEffect, ExpiresEffect DEF Made
  <2>3. QED BY <2>1, <2>2 DEF LoopInv, Siblings, Before
<1>3. ASSUME NewProcess PROVE LoopInv'
  BY <1>3, NewProcessEffect DEF LoopInv, Made
<1>4. CASE AllAnswered \/ UNCHANGED multiVars
  BY <1>4 DEF LoopInv, Siblings, Before, Made, AllAnswered, Quiescent, multiVars, vars,
              submitterVars, bulkVars
<1>5. QED BY <1>1, <1>2, <1>3, <1>4 DEF MultiNext

LEMMA NumberStep ==
  TypeOK /\ BulkTypeOK /\ MadeInv /\ NumberInv /\ [MultiNext]_multiVars => NumberInv'
<1> SUFFICES ASSUME TypeOK, BulkTypeOK, MadeInv, NumberInv, [MultiNext]_multiVars PROVE NumberInv'
  OBVIOUS
<1>1. ASSUME NEW c \in Calls, PlaceBulkOrders(c) \/ CancelBulkOrders(c) PROVE NumberInv'
  <2> DEFINE m == MarketOf[c]
  <2>1. Made' = Made \cup {c} /\ c \notin Made
    BY <1>1, MadeGrows
  <2>2. /\ \A d \in Made : /\ d \in Calls /\ d # c /\ born'[d] = born[d] /\ number'[d] = number[d]
                           /\ born'[d].order < born'[c].order
        /\ born'[c].process = restarts
    BY <1>1, LatestCall
  <2>3. /\ m \in Markets
        /\ number'[c] \in Nat
        /\ number'[c] > 0 => synced'[m] /\ number'[c] <= bulkSeq'[m]
        /\ number'[c] > 0 /\ synced[m] => bulkSeq[m] < number'[c]
        /\ synced[m] => synced'[m] /\ bulkSeq[m] <= bulkSeq'[m]
        /\ \A k \in Markets : k # m => synced'[k] = synced[k] /\ bulkSeq'[k] = bulkSeq[k]
    BY <1>1, MakesNumber
  <2>4. restarts' = restarts
    BY <1>1, MakesCall
  <2>5. /\ \A d \in Made' : d \in Calls /\ born'[d].order \in Nat /\ MarketOf[d] \in Markets
        /\ \A d \in Made : number[d] \in Nat
        /\ \A k \in Markets : bulkSeq[k] \in Nat /\ bulkSeq'[k] \in Nat
    <3>1. \A d \in Made' : d \in Calls
      BY DEF Made
    <3>2. \A d \in Calls : born'[d].order \in Nat
      BY <1>1, MakesCall
    <3>3. \A d \in Calls : MarketOf[d] \in Markets
      BY MarketsAssumption DEF MarketsAssumption
    <3>4. \A d \in Made : number[d] \in Nat
      BY DEF Made, BulkTypeOK
    <3>5. \A k \in Markets : bulkSeq[k] \in Nat /\ bulkSeq'[k] \in Nat
      BY <1>1, MakesNumber DEF BulkTypeOK
    <3>6. QED BY <3>1, <3>2, <3>3, <3>4, <3>5
  <2>6. ASSUME NEW d \in Made', born'[d].process = restarts', number'[d] > 0
        PROVE  synced'[MarketOf[d]] /\ number'[d] <= bulkSeq'[MarketOf[d]]
    <3>1. CASE d = c
      BY <3>1, <2>3, <2>6
    <3>2. CASE d # c
      <4>1. d \in Made /\ number'[d] = number[d] /\ MarketOf[d] \in Markets
        BY <3>2, <2>1, <2>2, <2>5
      <4>2. synced[MarketOf[d]] /\ number[d] <= bulkSeq[MarketOf[d]]
        BY <4>1, <2>2, <2>4, <2>6 DEF NumberInv
      <4>3. CASE MarketOf[d] = m
        BY <4>1, <4>2, <4>3, <2>3, <2>5
      <4>4. CASE MarketOf[d] # m
        BY <4>1, <4>2, <4>4, <2>3
      <4>5. QED BY <4>3, <4>4
    <3>3. QED BY <3>1, <3>2
  <2>7. ASSUME NEW d \in Made', NEW e \in Made', MarketOf[d] = MarketOf[e],
               born'[d].process = born'[e].process, born'[d].order < born'[e].order,
               number'[d] > 0, number'[e] > 0
        PROVE  number'[d] < number'[e]
    <3>1. CASE e = c
      <4>1. d \in Made /\ born[d].process = restarts /\ number'[d] = number[d]
        BY <3>1, <2>1, <2>2, <2>5, <2>7
      <4>2. synced[m] /\ number[d] <= bulkSeq[m]
        BY <4>1, <3>1, <2>7 DEF NumberInv
      <4>3. QED BY <4>1, <4>2, <3>1, <2>3, <2>5, <2>7
    <3>2. CASE e # c /\ d = c
      BY <3>2, <2>1, <2>2, <2>5, <2>7
    <3>3. CASE e # c /\ d # c
      BY <3>3, <2>1, <2>2, <2>7 DEF NumberInv, Siblings, Before
    <3>4. QED BY <3>1, <3>2, <3>3
  <2>8. QED BY <2>6, <2>7 DEF NumberInv, Siblings, Before
<1>2. ASSUME NEW c \in Calls, SubmitterSteps(c) \/ Executes(c) \/ Expires(c) PROVE NumberInv'
  <2>1. Made' = Made /\ UNCHANGED <<number, born>>
    BY <1>2, MadeStays
  <2>2. UNCHANGED <<bulkSeq, synced, restarts>>
    BY <1>2, SubmitterStepEffect, ExecutesEffect, ExpiresEffect DEF bulkVars
  <2>3. QED BY <2>1, <2>2 DEF NumberInv, Siblings, Before
<1>3. CASE NewProcess
  <2>1. /\ UNCHANGED <<number, born>> /\ restarts' = restarts + 1
        /\ \A c \in Calls : pc'[c] = IF pc[c] = "idle" THEN "idle" ELSE "past"
    BY <1>3, NewProcessEffect
  <2>2. Made' = Made
    BY <2>1 DEF Made
  <2>3. \A c \in Made : born[c].process <= restarts /\ born[c].process \in Nat /\ restarts \in Nat
    BY DEF MadeInv, Made, BulkTypeOK, TypeOK
  <2>4. \A c \in Made : born'[c].process # restarts'
    BY <2>1, <2>3
  <2>5. QED BY <2>1, <2>2, <2>4 DEF NumberInv, Siblings, Before
<1>4. CASE AllAnswered \/ UNCHANGED multiVars
  BY <1>4 DEF NumberInv, Siblings, Before, Made, AllAnswered, Quiescent, multiVars, vars,
              submitterVars, bulkVars
<1>5. QED BY <1>1, <1>2, <1>3, <1>4 DEF MultiNext

LEMMA SlotOrderStep ==
  TypeOK /\ BulkTypeOK /\ MadeInv /\ SentInv /\ LoopInv /\ SlotOrderInv /\ [MultiNext]_multiVars
    => SlotOrderInv'
<1> SUFFICES ASSUME TypeOK, BulkTypeOK, MadeInv, SentInv, LoopInv, SlotOrderInv, [MultiNext]_multiVars
             PROVE  SlotOrderInv'
  OBVIOUS
<1>0. seq \in Nat /\ restarts \in Nat /\ \A c \in Calls : slot[c] \in Nat
  BY DEF TypeOK, AccountTypeOK
<1>1. ASSUME NEW c \in Calls, PlaceBulkOrders(c) \/ CancelBulkOrders(c) PROVE SlotOrderInv'
  <2>1. Made' = Made \cup {c} /\ c \notin Made
    BY <1>1, MadeGrows
  <2>2. \A d \in Made : born'[d] = born[d]
    BY <1>1, LatestCall
  <2>3. /\ UNCHANGED <<slot, fate, seq, seqSet, restarts>>
        /\ pc[c] = "idle"
    BY <1>1, MakesCall DEF accountVars
  <2>4. fate'[c] = "none"
    BY <2>3 DEF SentInv, Sent
  <2>5. QED BY <2>1, <2>2, <2>3, <2>4 DEF SlotOrderInv, Sent, Siblings, Before
<1>2. ASSUME NEW c \in Calls, SubmitterSteps(c) PROVE SlotOrderInv'
  <2>1. Made' = Made /\ UNCHANGED <<born, restarts>>
    BY <1>2, MadeStays, SubmitterStepEffect
  <2>2. seqSet => seqSet' /\ seq <= seq'
    BY <1>2, SubmitterStepEffect
  <2>3. seq' \in Nat
    BY <1>2 DEF SubmitterSteps, Lock, Submit, FetchInitialSeq, FetchFails, BuildFails, SubmitRefused,
       SubmitAccepted, SubmitReplyLost, Confirmed, WaitTimesOut, Return, NextSeq, TypeOK, AccountTypeOK
  <2>4. CASE UNCHANGED <<slot, fate>>
    <3>1. ASSUME NEW d \in Made, fate[d] # "none", born[d].process = restarts
          PROVE  seqSet' /\ slot[d] <= seq'
      <4>1. seqSet /\ slot[d] <= seq
        BY <3>1 DEF SlotOrderInv, Sent
      <4>2. slot[d] \in Nat
        BY <1>0 DEF Made
      <4>3. QED BY <4>1, <4>2, <1>0, <2>2, <2>3
    <3>2. QED BY <2>1, <2>4, <3>1 DEF SlotOrderInv, Sent, Siblings, Before
  <2>5. CASE /\ pc[c] = "locked" /\ seqSet /\ seqSet' /\ seq' = seq
             /\ slot'[c] = seq /\ fate'[c] = "mempool"
             /\ \A d \in Calls : d # c => slot'[d] = slot[d] /\ fate'[d] = fate[d]
    <3>1. c \in Made /\ born[c].process = restarts
      BY <2>5 DEF Made, MadeInv
    <3>2. \A d \in Made : Siblings(c, d) => ~Before(c, d)
      BY <2>5, <3>1 DEF LoopInv
    <3>3. ASSUME NEW d \in Made, fate'[d] # "none", born[d].process = restarts
          PROVE  seqSet' /\ slot'[d] <= seq'
      <4>1. CASE d = c
        BY <4>1, <1>0, <2>5
      <4>2. CASE d # c
        BY <4>2, <3>3, <2>5 DEF SlotOrderInv, Sent, Made
      <4>3. QED BY <4>1, <4>2
    <3>4. ASSUME NEW d \in Made, NEW e \in Made, Siblings(d, e), Before(d, e),
                 fate'[d] # "none", fate'[e] # "none"
          PROVE  slot'[d] <= slot'[e]
      <4>1. d # c
        BY <3>2, <3>4
      <4>2. CASE e = c
        <5>1. born[d].process = restarts /\ fate[d] # "none" /\ slot'[d] = slot[d]
          BY <3>1, <3>4, <4>1, <4>2, <2>5 DEF Siblings, Made
        <5>2. slot[d] <= seq
          BY <5>1 DEF SlotOrderInv, Sent
        <5>3. QED BY <5>1, <5>2, <4>2, <2>5
      <4>3. CASE e # c
        BY <3>4, <4>1, <4>3, <2>5 DEF SlotOrderInv, Sent, Made
      <4>4. QED BY <4>2, <4>3
    <3>5. QED BY <2>1, <3>3, <3>4 DEF SlotOrderInv, Sent, Siblings, Before
  <2>6. QED BY <1>2, <2>4, <2>5, SubmitterStepSends
<1>3. ASSUME NEW c \in Calls, Executes(c) \/ Expires(c) PROVE SlotOrderInv'
  <2>1. Made' = Made /\ UNCHANGED born
    BY <1>3, MadeStays
  <2>2. /\ UNCHANGED <<seq, seqSet, restarts, slot>>
        /\ fate[c] = "mempool" /\ fate'[c] # "none"
        /\ \A d \in Calls : d # c => fate'[d] = fate[d]
    BY <1>3, ExecutesEffect, ExpiresEffect
  <2>3. \A d \in Calls : fate'[d] # "none" <=> fate[d] # "none"
    BY <2>2
  <2>4. QED BY <2>1, <2>2, <2>3 DEF SlotOrderInv, Sent, Siblings, Before, Made
<1>4. CASE NewProcess
  <2>1. UNCHANGED <<slot, fate, born>> /\ restarts' = restarts + 1
    BY <1>4, NewProcessEffect DEF accountVars
  <2>2. Made' = Made
    BY <1>4, NewProcessEffect DEF Made
  <2>3. \A c \in Made : born[c].process <= restarts /\ born[c].process \in Nat
    BY DEF MadeInv, Made, BulkTypeOK
  <2>4. \A c \in Made : born'[c].process # restarts'
    BY <1>0, <2>1, <2>3
  <2>5. QED BY <2>1, <2>2, <2>4 DEF SlotOrderInv, Sent, Siblings, Before
<1>5. CASE AllAnswered \/ UNCHANGED multiVars
  BY <1>5 DEF SlotOrderInv, Sent, Siblings, Before, Made, AllAnswered, Quiescent, multiVars, vars,
              accountVars, submitterVars, bulkVars
<1>6. QED BY <1>1, <1>2, <1>3, <1>4, <1>5 DEF MultiNext

LEMMA ChainStep == TypeOK /\ BulkTypeOK /\ MadeInv /\ SentInv /\ ChainInv /\ [MultiNext]_multiVars => ChainInv'
<1> SUFFICES ASSUME TypeOK, BulkTypeOK, MadeInv, SentInv, ChainInv, [MultiNext]_multiVars PROVE ChainInv'
  OBVIOUS
<1>0. chainSeq \in Nat /\ seq \in Nat /\ \A c \in Calls : slot[c] \in Nat
  BY DEF TypeOK, AccountTypeOK
<1>1. ASSUME UNCHANGED <<slot, fate, chainSeq>> PROVE ChainInv'
  BY <1>1 DEF ChainInv
<1>2. ASSUME NEW c \in Calls, SubmitterSteps(c) PROVE ChainInv'
  <2>1. chainSeq' = chainSeq
    BY <1>2, SubmitterStepEffect
  <2>2. CASE UNCHANGED <<slot, fate>>
    BY <1>1, <2>1, <2>2
  <2>3. CASE /\ seq >= chainSeq
             /\ \A d \in Mempool : slot[d] # seq
             /\ slot'[c] = seq /\ fate'[c] = "mempool"
             /\ \A d \in Calls : d # c => slot'[d] = slot[d] /\ fate'[d] = fate[d]
    <3>1. \A d \in Calls : fate'[d] = "committed" => slot'[d] < chainSeq
      BY <2>3 DEF ChainInv
    <3>2. \A d \in Calls : fate'[d] = "mempool" => slot'[d] >= chainSeq
      BY <2>3 DEF ChainInv
    <3>3. \A d \in Calls : d # c /\ fate'[d] = "mempool" => slot'[d] # seq
      BY <2>3 DEF Mempool
    <3>4. ASSUME NEW d \in Calls, NEW e \in Calls, fate'[d] = "mempool", fate'[e] = "mempool",
                 slot'[d] = slot'[e]
          PROVE  d = e
      BY <2>3, <3>3, <3>4 DEF ChainInv
    <3>5. QED BY <2>1, <3>1, <3>2, <3>4 DEF ChainInv
  <2>4. QED BY <1>2, <2>2, <2>3, SubmitterStepSends
<1>3. ASSUME NEW c \in Calls, Executes(c) PROVE ChainInv'
  <2>1. /\ slot' = slot /\ fate[c] = "mempool" /\ fate'[c] = "committed"
        /\ \A d \in Calls : d # c => fate'[d] = fate[d]
        /\ slot[c] = chainSeq /\ chainSeq' = chainSeq + 1
    BY <1>3, ExecutesEffect
  <2>2. ASSUME NEW d \in Calls, fate'[d] = "committed" PROVE slot[d] < chainSeq + 1
    <3>1. CASE d = c
      BY <3>1, <1>0, <2>1
    <3>2. CASE d # c
      BY <3>2, <1>0, <2>1, <2>2 DEF ChainInv
    <3>3. QED BY <3>1, <3>2
  <2>3. ASSUME NEW d \in Calls, fate'[d] = "mempool" PROVE slot[d] >= chainSeq + 1
    <3>1. d # c /\ fate[d] = "mempool"
      BY <2>1, <2>3
    <3>2. slot[d] >= chainSeq /\ slot[d] # chainSeq
      BY <3>1, <2>1 DEF ChainInv
    <3>3. QED BY <3>2, <1>0
  <2>4. \A d, e \in Calls : fate'[d] = "mempool" /\ fate'[e] = "mempool" /\ slot[d] = slot[e] => d = e
    BY <2>1 DEF ChainInv
  <2>5. QED BY <2>1, <2>2, <2>3, <2>4 DEF ChainInv
<1>4. ASSUME NEW c \in Calls, Expires(c) PROVE ChainInv'
  <2>1. /\ UNCHANGED <<slot, chainSeq>> /\ fate'[c] = "dropped"
        /\ \A d \in Calls : d # c => fate'[d] = fate[d]
    BY <1>4, ExpiresEffect
  <2>2. QED BY <2>1 DEF ChainInv
<1>5. ASSUME NEW c \in Calls, PlaceBulkOrders(c) \/ CancelBulkOrders(c) PROVE ChainInv'
  BY <1>1, <1>5, MakesCall DEF accountVars
<1>6. CASE NewProcess
  BY <1>1, <1>6, NewProcessEffect DEF accountVars
<1>7. CASE AllAnswered \/ UNCHANGED multiVars
  BY <1>1, <1>7 DEF AllAnswered, Quiescent, multiVars, vars, accountVars
<1>8. QED BY <1>2, <1>3, <1>4, <1>5, <1>6, <1>7 DEF MultiNext

(* What the chain has run stays run, with the number it carried. *)
LEMMA CommittedStays ==
  ASSUME TypeOK, BulkTypeOK, MadeInv, SentInv, [MultiNext]_multiVars,
         NEW c \in Calls, fate[c] = "committed"
  PROVE  /\ fate'[c] = "committed"
         /\ c \in Made /\ c \in Made'
         /\ UNCHANGED <<number[c], born[c], slot[c]>>
<1>0. c \in Made /\ pc[c] \in {"confirming", "returned", "past"}
  BY DEF Made, SentInv, Sent
<1>1. ASSUME NEW d \in Calls, PlaceBulkOrders(d) \/ CancelBulkOrders(d)
      PROVE  /\ fate'[c] = "committed" /\ c \in Made'
             /\ UNCHANGED <<number[c], born[c], slot[c]>>
  <2>1. d # c /\ UNCHANGED <<fate, slot>>
    BY <1>0, <1>1, MakesCall DEF accountVars
  <2>2. QED BY <1>0, <1>1, <2>1, MakesCall, MadeGrows
<1>2. ASSUME NEW d \in Calls, SubmitterSteps(d)
      PROVE  /\ fate'[c] = "committed" /\ c \in Made'
             /\ UNCHANGED <<number[c], born[c], slot[c]>>
  <2>1. Made' = Made /\ UNCHANGED <<number, born>>
    BY <1>2, MadeStays
  <2>2. CASE UNCHANGED <<slot, fate>>
    BY <1>0, <2>1, <2>2
  <2>3. CASE /\ pc[d] = "locked"
             /\ \A e \in Calls : e # d => slot'[e] = slot[e] /\ fate'[e] = fate[e]
    BY <1>0, <2>1, <2>3
  <2>4. QED BY <1>2, <2>2, <2>3, SubmitterStepSends
<1>3. ASSUME NEW d \in Calls, Executes(d) \/ Expires(d)
      PROVE  /\ fate'[c] = "committed" /\ c \in Made'
             /\ UNCHANGED <<number[c], born[c], slot[c]>>
  <2>1. Made' = Made /\ UNCHANGED <<number, born>>
    BY <1>3, MadeStays
  <2>2. UNCHANGED slot /\ fate[d] = "mempool" /\ \A e \in Calls : e # d => fate'[e] = fate[e]
    BY <1>3, ExecutesEffect, ExpiresEffect
  <2>3. QED BY <1>0, <2>1, <2>2
<1>4. ASSUME NewProcess
      PROVE  /\ fate'[c] = "committed" /\ c \in Made'
             /\ UNCHANGED <<number[c], born[c], slot[c]>>
  BY <1>0, <1>4, MadeStays, NewProcessEffect DEF accountVars
<1>5. ASSUME AllAnswered \/ UNCHANGED multiVars
      PROVE  /\ fate'[c] = "committed" /\ c \in Made'
             /\ UNCHANGED <<number[c], born[c], slot[c]>>
  <2>1. UNCHANGED <<vars, bulkVars>>
    BY <1>5 DEF AllAnswered, Quiescent, multiVars
  <2>2. QED BY <1>0, <2>1 DEF Made, vars, accountVars, submitterVars, bulkVars
<1>6. QED BY <1>0, <1>1, <1>2, <1>3, <1>4, <1>5 DEF MultiNext

(* Only the chain changes what a market's ladder is. *)
LEMMA VenueChanges ==
  ASSUME TypeOK, BulkTypeOK, MadeInv, [MultiNext]_multiVars
  PROVE  \/ UNCHANGED <<venueSeq, decided, refused>>
         \/ \E c \in Calls : Executes(c)
<1>1. ASSUME NEW c \in Calls, PlaceBulkOrders(c) \/ CancelBulkOrders(c)
      PROVE  UNCHANGED <<venueSeq, decided, refused>>
  BY <1>1, MakesCall
<1>2. ASSUME NEW c \in Calls, SubmitterSteps(c) \/ Expires(c)
      PROVE  UNCHANGED <<venueSeq, decided, refused>>
  BY <1>2, SubmitterStepEffect, ExpiresEffect DEF bulkVars
<1>3. ASSUME NewProcess \/ AllAnswered \/ UNCHANGED multiVars
      PROVE  UNCHANGED <<venueSeq, decided, refused>>
  BY <1>3, NewProcessEffect DEF AllAnswered, multiVars, bulkVars
<1>4. QED BY <1>1, <1>2, <1>3 DEF MultiNext

LEMMA VenueStep ==
  TypeOK /\ BulkTypeOK /\ MadeInv /\ SentInv /\ VenueInv /\ [MultiNext]_multiVars => VenueInv'
<1> SUFFICES ASSUME TypeOK, BulkTypeOK, MadeInv, SentInv, VenueInv, [MultiNext]_multiVars PROVE VenueInv'
  OBVIOUS
<1>1. \A d \in Calls : fate[d] = "committed" => fate'[d] = "committed" /\ number'[d] = number[d]
  BY CommittedStays
<1>2. \A m \in Markets : decided[m] # Nothing => decided[m] \in Calls
  BY DEF BulkTypeOK
<1>3. CASE UNCHANGED <<venueSeq, decided, refused>>
  <2>1. ASSUME NEW m \in Markets, venueSeq[m] > 0
        PROVE  \E d \in Calls : MarketOf[d] = m /\ fate'[d] = "committed" /\ number'[d] = venueSeq[m]
    <3>1. PICK d \in Calls : MarketOf[d] = m /\ fate[d] = "committed" /\ number[d] = venueSeq[m]
      BY <2>1 DEF VenueInv
    <3>2. QED BY <1>1, <3>1
  <2>2. ASSUME NEW m \in Markets, decided[m] # Nothing
        PROVE  MarketOf[decided[m]] = m /\ fate'[decided[m]] = "committed"
    BY <1>1, <1>2, <2>2 DEF VenueInv
  <2>3. QED BY <1>3, <2>1, <2>2 DEF VenueInv
<1>4. ASSUME NEW c \in Calls, Executes(c) PROVE VenueInv'
  <2> DEFINE m == MarketOf[c]
  <2>1. m \in Markets
    BY MarketsAssumption DEF MarketsAssumption
  <2>2. fate'[c] = "committed" /\ number' = number
    BY <1>4, ExecutesEffect
  <2>3. /\ decided'[m] \in {decided[m], c}
        /\ \A k \in Markets : k # m => decided'[k] = decided[k]
    BY <1>4, <2>1 DEF Executes, BulkTypeOK
  <2>4. /\ venueSeq'[m] \in {venueSeq[m], number[c]}
        /\ \A k \in Markets : k # m => venueSeq'[k] = venueSeq[k]
    BY <1>4, <2>1 DEF Executes, BulkTypeOK
  <2>5. ASSUME NEW k \in Markets, venueSeq'[k] > 0
        PROVE  \E d \in Calls : MarketOf[d] = k /\ fate'[d] = "committed" /\ number'[d] = venueSeq'[k]
    <3>1. CASE k = m /\ venueSeq'[k] = number[c]
      BY <2>2, <3>1
    <3>2. CASE venueSeq'[k] = venueSeq[k]
      <4>1. PICK d \in Calls : MarketOf[d] = k /\ fate[d] = "committed" /\ number[d] = venueSeq[k]
        BY <2>5, <3>2 DEF VenueInv
      <4>2. QED BY <1>1, <3>2, <4>1
    <3>3. QED BY <2>4, <3>1, <3>2
  <2>6. ASSUME NEW k \in Markets, decided'[k] # Nothing
        PROVE  MarketOf[decided'[k]] = k /\ fate'[decided'[k]] = "committed"
    <3>1. CASE k = m /\ decided'[k] = c
      BY <2>2, <3>1
    <3>2. CASE decided'[k] = decided[k]
      BY <1>1, <1>2, <2>6, <3>2 DEF VenueInv
    <3>3. QED BY <2>3, <3>1, <3>2
  <2>7. QED BY <2>5, <2>6 DEF VenueInv
<1>5. QED BY <1>3, <1>4, VenueChanges

(* What left the mempool unexecuted stays out. *)
LEMMA DroppedStays ==
  ASSUME TypeOK, BulkTypeOK, MadeInv, SentInv, [MultiNext]_multiVars, NothingDropped'
  PROVE  NothingDropped
<1> SUFFICES ASSUME NEW c \in Calls, fate[c] = "dropped" PROVE fate'[c] = "dropped"
  BY DEF NothingDropped
<1>0. pc[c] \in {"confirming", "returned", "past"}
  BY DEF SentInv, Sent
<1>1. ASSUME NEW d \in Calls, PlaceBulkOrders(d) \/ CancelBulkOrders(d) PROVE fate' = fate
  BY <1>1, MakesCall DEF accountVars
<1>2. ASSUME NEW d \in Calls, SubmitterSteps(d) PROVE fate'[c] = "dropped"
  BY <1>0, <1>2, SubmitterStepSends
<1>3. ASSUME NEW d \in Calls, Executes(d) \/ Expires(d) PROVE fate'[c] = "dropped"
  BY <1>3, ExecutesEffect, ExpiresEffect
<1>4. ASSUME NewProcess PROVE fate' = fate
  BY <1>4, NewProcessEffect DEF accountVars
<1>5. ASSUME AllAnswered \/ UNCHANGED multiVars PROVE fate' = fate
  BY <1>5 DEF AllAnswered, Quiescent, multiVars, vars, accountVars
<1>6. QED BY <1>1, <1>2, <1>3, <1>4, <1>5 DEF MultiNext

(* The number the submitter signs with closes the queue: every number from the chain's
   to it is already in the mempool, so a transaction the mempool takes is its last. *)
LEMMA NewTransactionIsLast ==
  ASSUME TypeOK, SlotInv, SentInv, ChainInv, QueueInv, NothingDropped, seqSet, seq >= chainSeq,
         \A d \in Mempool : slot[d] # seq
  PROVE  /\ \A s \in chainSeq .. seq - 1 : \E d \in Mempool : slot[d] = s
         /\ \A d \in Mempool : slot[d] < seq
<1>0. chainSeq \in Nat /\ seq \in Nat /\ base \in Nat /\ \A d \in Calls : slot[d] \in Nat
  BY DEF TypeOK, AccountTypeOK
<1>1. ASSUME NEW s \in chainSeq .. seq - 1 PROVE \E d \in Mempool : slot[d] = s
  <2>1. base <= chainSeq
    BY DEF QueueInv
  <2>2. s \in base .. seq - 1
    BY <1>0, <2>1
  <2>3. PICK d \in Hashed : slot[d] = s
    BY <2>2 DEF SlotInv, SlotsContiguous
  <2>4. d \in Calls
    BY DEF Hashed
  <2>5. fate[d] \in {"mempool", "committed"}
    BY <2>3, <2>4 DEF SentInv, Sent, NothingDropped, TypeOK, AccountTypeOK, Fates
  <2>6. fate[d] # "committed"
    BY <1>0, <2>3, <2>4 DEF ChainInv
  <2>7. QED BY <2>3, <2>4, <2>5, <2>6 DEF Mempool
<1>2. ASSUME NEW d \in Mempool PROVE slot[d] < seq
  <2>1. slot[d] \in Nat
    BY <1>0 DEF Mempool
  <2>2. \A s \in chainSeq .. slot[d] : \E e \in Mempool : slot[e] = s
    BY DEF QueueInv
  <2>3. ~(seq < slot[d])
    BY <1>0, <2>1, <2>2
  <2>4. QED BY <1>0, <2>1, <2>3
<1>3. QED BY <1>1, <1>2

LEMMA QueueStep ==
  /\ TypeOK /\ SlotInv /\ BulkTypeOK /\ MadeInv /\ SentInv /\ ChainInv /\ QueueInv
  /\ [MultiNext]_multiVars
  => QueueInv'
<1> SUFFICES ASSUME TypeOK, SlotInv, BulkTypeOK, MadeInv, SentInv, ChainInv, QueueInv,
                    [MultiNext]_multiVars
             PROVE  QueueInv'
  OBVIOUS
<1>0. chainSeq \in Nat /\ seq \in Nat /\ base \in Nat /\ \A d \in Calls : slot[d] \in Nat
  BY DEF TypeOK, AccountTypeOK
<1>1. NothingDropped' => NothingDropped
  BY DroppedStays
<1>2. ASSUME UNCHANGED <<slot, fate, chainSeq, born>>, seqSet' => base' <= chainSeq,
             \A d \in Made' : d \in Made \/ fate[d] = "none"
      PROVE  QueueInv'
  BY <1>1, <1>2 DEF QueueInv, Mempool, Sent
<1>3. ASSUME NEW c \in Calls, PlaceBulkOrders(c) \/ CancelBulkOrders(c) PROVE QueueInv'
  <2>1. /\ Made' = Made \cup {c} /\ c \notin Made
        /\ UNCHANGED <<slot, fate, chainSeq, seqSet, base>>
        /\ \A d \in Made : born'[d] = born[d]
    BY <1>3, MadeGrows, MakesCall, LatestCall DEF accountVars
  <2>2. fate[c] = "none" /\ Mempool' = Mempool /\ Mempool \subseteq Made
    BY <2>1 DEF Mempool, Made, SentInv, Sent
  <2>3. \A d \in Made' : Sent(d)' => d \in Made /\ Sent(d)
    BY <2>1, <2>2 DEF Sent
  <2>4. seqSet' => base' <= chainSeq'
    BY <2>1 DEF QueueInv
  <2>5. ASSUME NothingDropped'
        PROVE  \A d \in Mempool' : \A s \in chainSeq' .. slot'[d] : \E e \in Mempool' : slot'[e] = s
    BY <1>1, <2>1, <2>2, <2>5 DEF QueueInv
  <2>6. ASSUME NothingDropped', NEW d \in Mempool', NEW e \in Made', Sent(e)',
               born'[d].process < born'[e].process
        PROVE  slot'[d] < slot'[e]
    <3>1. d \in Mempool /\ d \in Made /\ e \in Made /\ Sent(e)
      BY <2>2, <2>3, <2>6
    <3>2. born[d].process < born[e].process
      BY <2>1, <2>6, <3>1
    <3>3. QED BY <1>1, <2>1, <2>6, <3>1, <3>2 DEF QueueInv
  <2>7. QED BY <2>4, <2>5, <2>6 DEF QueueInv
<1>4. ASSUME NEW c \in Calls, SubmitterSteps(c) PROVE QueueInv'
  <2>1. Made' = Made /\ UNCHANGED <<chainSeq, born, restarts>>
    BY <1>4, MadeStays, SubmitterStepEffect
  <2>2. seqSet' => base' <= chainSeq
    <3>1. CASE seqSet
      BY <1>4, <3>1, SubmitterStepEffect DEF QueueInv
    <3>2. CASE ~seqSet
      BY <1>0, <1>4, <3>2, SubmitterStepEffect
    <3>3. QED BY <3>1, <3>2
  <2>3. CASE UNCHANGED <<slot, fate>>
    BY <1>2, <2>1, <2>2, <2>3
  <2>4. CASE /\ pc[c] = "locked" /\ seqSet
             /\ seq >= chainSeq
             /\ \A d \in Mempool : slot[d] # seq
             /\ slot'[c] = seq /\ fate'[c] = "mempool"
             /\ \A d \in Calls : d # c => slot'[d] = slot[d] /\ fate'[d] = fate[d]
    <3>1. c \in Made /\ born[c].process = restarts /\ c \notin Mempool
      BY <2>4 DEF Made, MadeInv, SentInv, Sent, Mempool
    <3>2. Mempool' = Mempool \cup {c} /\ \A d \in Mempool : slot'[d] = slot[d]
      BY <2>4, <3>1 DEF Mempool
    <3>3. ASSUME NothingDropped
          PROVE  /\ \A s \in chainSeq .. seq - 1 : \E d \in Mempool : slot[d] = s
                 /\ \A d \in Mempool : slot[d] < seq
      BY <2>4, <3>3, NewTransactionIsLast
    <3>4. ASSUME NothingDropped, NEW d \in Mempool', NEW s \in chainSeq .. slot'[d]
          PROVE  \E e \in Mempool' : slot'[e] = s
      <4>1. CASE d \in Mempool
        <5>1. slot'[d] = slot[d]
          BY <3>2, <4>1
        <5>2. PICK e \in Mempool : slot[e] = s
          BY <3>4, <4>1, <5>1 DEF QueueInv
        <5>3. QED BY <3>2, <5>2
      <4>2. CASE d = c
        <5>1. s \in chainSeq .. seq
          BY <2>4, <4>2
        <5>2. CASE s = seq
          BY <2>4, <3>2, <5>2
        <5>3. CASE s # seq
          <6>1. s \in chainSeq .. seq - 1
            BY <1>0, <5>1, <5>3
          <6>2. PICK e \in Mempool : slot[e] = s
            BY <3>3, <3>4, <6>1
          <6>3. QED BY <3>2, <6>2
        <5>4. QED BY <5>2, <5>3
      <4>3. QED BY <3>2, <4>1, <4>2
    <3>5. ASSUME NothingDropped, NEW d \in Mempool', NEW e \in Made, fate'[e] # "none",
                 born[d].process < born[e].process
          PROVE  slot'[d] < slot'[e]
      <4>1. d # c
        <5>1. born[e].process <= restarts
          BY DEF MadeInv
        <5>2. born[e].process \in Nat /\ restarts \in Nat
          BY DEF BulkTypeOK, Made, TypeOK
        <5>3. QED BY <3>1, <3>5, <5>1, <5>2
      <4>2. d \in Mempool /\ slot'[d] = slot[d]
        BY <3>2, <4>1
      <4>3. CASE e = c
        BY <2>4, <3>3, <3>5, <4>2, <4>3
      <4>4. CASE e # c
        <5>1. Sent(e) /\ slot'[e] = slot[e]
          BY <2>4, <3>5, <4>4 DEF Sent, Made
        <5>2. slot[d] < slot[e]
          BY <3>5, <4>2, <5>1 DEF QueueInv
        <5>3. QED BY <4>2, <5>1, <5>2
      <4>5. QED BY <4>3, <4>4
    <3>6. QED BY <1>1, <2>1, <2>2, <3>4, <3>5 DEF QueueInv, Sent
  <2>5. QED BY <1>4, <2>3, <2>4, SubmitterStepSends
<1>5. ASSUME NEW c \in Calls, Executes(c) PROVE QueueInv'
  <2>1. Made' = Made /\ UNCHANGED <<born, slot, seqSet, base>>
    BY <1>5, MadeStays, ExecutesEffect
  <2>2. /\ fate[c] = "mempool" /\ fate'[c] = "committed"
        /\ \A d \in Calls : d # c => fate'[d] = fate[d]
        /\ slot[c] = chainSeq /\ chainSeq' = chainSeq + 1
    BY <1>5, ExecutesEffect
  <2>3. Mempool' = Mempool \ {c}
    BY <2>2 DEF Mempool
  <2>4. seqSet' => base' <= chainSeq'
    BY <1>0, <2>1, <2>2 DEF QueueInv
  <2>5. ASSUME NothingDropped, NEW d \in Mempool', NEW s \in chainSeq' .. slot[d]
        PROVE  \E e \in Mempool' : slot[e] = s
    <3>1. slot[d] \in Nat /\ d \in Mempool
      BY <1>0, <2>3 DEF Mempool
    <3>2. s \in chainSeq .. slot[d] /\ s # chainSeq
      BY <1>0, <2>2, <3>1
    <3>3. PICK e \in Mempool : slot[e] = s
      BY <2>5, <3>1, <3>2 DEF QueueInv
    <3>4. QED BY <2>2, <2>3, <3>2, <3>3
  <2>6. ASSUME NothingDropped, NEW d \in Mempool', NEW e \in Made, fate'[e] # "none",
               born[d].process < born[e].process
        PROVE  slot[d] < slot[e]
    <3>1. d \in Mempool /\ Sent(e)
      BY <2>2, <2>3, <2>6 DEF Sent, Made
    <3>2. QED BY <2>6, <3>1 DEF QueueInv
  <2>7. QED BY <1>1, <2>1, <2>4, <2>5, <2>6 DEF QueueInv, Sent
<1>6. ASSUME NEW c \in Calls, Expires(c) PROVE QueueInv'
  <2>1. UNCHANGED <<seqSet, base, chainSeq>> /\ fate'[c] = "dropped"
    BY <1>6, ExpiresEffect
  <2>2. ~NothingDropped'
    BY <2>1 DEF NothingDropped
  <2>3. QED BY <2>1, <2>2 DEF QueueInv
<1>7. CASE NewProcess
  <2>1. UNCHANGED <<slot, fate, chainSeq, born>> /\ ~seqSet'
    BY <1>7, NewProcessEffect DEF accountVars
  <2>2. Made' = Made
    BY <1>7, NewProcessEffect DEF Made
  <2>3. QED BY <1>2, <2>1, <2>2
<1>8. CASE AllAnswered \/ UNCHANGED multiVars
  <2>1. UNCHANGED <<vars, bulkVars>>
    BY <1>8 DEF AllAnswered, Quiescent, multiVars
  <2>2. Made' = Made /\ UNCHANGED <<slot, fate, chainSeq, born, seqSet, base>>
    BY <2>1 DEF Made, vars, accountVars, submitterVars, bulkVars
  <2>3. QED BY <1>2, <2>2 DEF QueueInv
<1>9. QED BY <1>3, <1>4, <1>5, <1>6, <1>7, <1>8 DEF MultiNext

(* When the chain runs a transaction of a market, every call the market made later in
   the same process is still to run. *)
LEMMA RunsInOrder ==
  ASSUME TypeOK, BulkTypeOK, SentInv, SlotOrderInv, ChainInv,
         NEW c \in Calls, Executes(c), NEW d \in Calls, fate[d] = "committed", Siblings(c, d)
  PROVE  ~Before(c, d)
<1>1. fate[c] = "mempool" /\ slot[c] = chainSeq
  BY ExecutesEffect
<1>2. c \in Made /\ d \in Made /\ Sent(c) /\ Sent(d)
  BY <1>1 DEF Made, SentInv, Sent
<1>3. slot[d] < chainSeq
  BY DEF ChainInv
<1>4. Before(c, d) => slot[c] <= slot[d]
  BY <1>2 DEF SlotOrderInv
<1>5. chainSeq \in Nat /\ slot[c] \in Nat /\ slot[d] \in Nat
  BY DEF TypeOK, AccountTypeOK
<1>6. QED BY <1>1, <1>3, <1>4, <1>5

LEMMA OwnWayStep ==
  TypeOK /\ Inv /\ [MultiNext]_multiVars => NeverInItsOwnWay'
<1> SUFFICES ASSUME TypeOK, Inv, [MultiNext]_multiVars PROVE NeverInItsOwnWay'
  OBVIOUS
<1>0. BulkTypeOK /\ MadeInv /\ SentInv /\ NumberInv /\ SlotOrderInv /\ ChainInv /\ VenueInv
      /\ NeverInItsOwnWay
  BY DEF Inv
<1>1. refused \subseteq Calls
  BY <1>0 DEF BulkTypeOK, Made
<1>2. ASSUME NEW c \in refused
      PROVE  \E d \in Calls :
               /\ MarketOf[d] = MarketOf[c] /\ fate'[d] = "committed"
               /\ number'[d] >= number'[c]
               /\ born'[d].process # born'[c].process
  <2>1. PICK d \in Calls : /\ MarketOf[d] = MarketOf[c] /\ fate[d] = "committed"
                           /\ number[d] >= number[c]
                           /\ born[d].process # born[c].process
    BY <1>0 DEF NeverInItsOwnWay
  <2>2. fate'[d] = "committed" /\ number'[d] = number[d] /\ born'[d] = born[d]
    BY <1>0, <2>1, CommittedStays
  <2>3. c \in Calls /\ c \in Made
    BY <1>0 DEF BulkTypeOK, Made
  <2>4. number'[c] = number[c] /\ born'[c] = born[c]
    <3>1. ASSUME NEW e \in Calls, PlaceBulkOrders(e) \/ CancelBulkOrders(e)
          PROVE  number'[c] = number[c] /\ born'[c] = born[c]
      BY <1>0, <2>3, <3>1, MakesCall DEF Made
    <3>2. ASSUME NEW e \in Calls, SubmitterSteps(e) \/ Executes(e) \/ Expires(e)
          PROVE  number' = number /\ born' = born
      BY <3>2, MadeStays
    <3>3. ASSUME NewProcess PROVE number' = number /\ born' = born
      BY <3>3, NewProcessEffect
    <3>4. ASSUME AllAnswered \/ UNCHANGED multiVars PROVE number' = number /\ born' = born
      BY <3>4 DEF AllAnswered, multiVars, bulkVars
    <3>5. QED BY <3>1, <3>2, <3>3, <3>4 DEF MultiNext
  <2>5. QED BY <2>1, <2>2, <2>4
<1>3. CASE UNCHANGED <<venueSeq, decided, refused>>
  BY <1>2, <1>3 DEF NeverInItsOwnWay
<1>4. ASSUME NEW c \in Calls, Executes(c) PROVE NeverInItsOwnWay'
  <2> DEFINE m == MarketOf[c]
  <2>1. m \in Markets
    BY MarketsAssumption DEF MarketsAssumption
  <2>2. /\ fate[c] = "mempool" /\ fate'[c] = "committed"
        /\ \A d \in Calls : d # c => fate'[d] = fate[d]
        /\ UNCHANGED <<number, born>>
    BY <1>4, ExecutesEffect
  <2>3. CASE number[c] = 0 \/ number[c] > venueSeq[m]
    <3>1. refused' = refused
      BY <1>4, <2>3 DEF Executes
    <3>2. QED BY <1>2, <3>1 DEF NeverInItsOwnWay
  <2>4. CASE ~(number[c] = 0 \/ number[c] > venueSeq[m])
    <3>1. refused' = refused \cup {c}
      BY <1>4, <2>4 DEF Executes
    <3>2. number[c] \in Nat /\ venueSeq[m] \in Nat
      BY <1>0, <2>1 DEF BulkTypeOK
    <3>3. number[c] > 0 /\ number[c] <= venueSeq[m] /\ venueSeq[m] > 0
      BY <2>4, <3>2
    <3>4. PICK d \in Calls : MarketOf[d] = m /\ fate[d] = "committed" /\ number[d] = venueSeq[m]
      BY <1>0, <2>1, <3>3 DEF VenueInv
    <3>5. c \in Made /\ d \in Made /\ c # d
      BY <1>0, <2>2, <3>4 DEF Made, SentInv, Sent
    <3>6. ASSUME born[d].process = born[c].process PROVE FALSE
      <4>1. Siblings(c, d) /\ Siblings(d, c)
        BY <3>4, <3>6 DEF Siblings
      <4>2. ~Before(c, d)
        BY <1>0, <1>4, <3>4, <4>1, RunsInOrder
      <4>3. Before(d, c)
        BY <1>0, <3>5, <4>2 DEF MadeInv
      <4>4. number[d] < number[c]
        BY <1>0, <3>3, <3>4, <3>5, <4>1, <4>3 DEF NumberInv
      <4>5. QED BY <3>2, <3>3, <3>4, <4>4
    <3>7. /\ MarketOf[d] = MarketOf[c] /\ fate'[d] = "committed"
          /\ number'[d] >= number'[c]
          /\ born'[d].process # born'[c].process
      BY <2>2, <3>2, <3>3, <3>4, <3>5, <3>6
    <3>8. QED BY <1>2, <3>1, <3>4, <3>7 DEF NeverInItsOwnWay
  <2>5. QED BY <2>3, <2>4
<1>5. QED BY <1>0, <1>3, <1>4, VenueChanges

-----------------------------------------------------------------------------
LEMMA InvStep == TypeOK /\ SlotInv /\ Inv /\ [MultiNext]_multiVars => Inv'
BY BulkTypeStep, MadeStep, SentStep, LoopStep, NumberStep, SlotOrderStep, ChainStep, VenueStep,
   QueueStep, OwnWayStep DEF Inv

LEMMA Invariance == MultiSpec => [](TypeOK /\ Inv)
<1>1. Spec => []TypeOK /\ []SlotInv
  BY TypeCorrect, SlotInvariance, PTL
<1>2. MultiSpec => []TypeOK /\ []SlotInv
  BY <1>1, MarketsShareTheSubmitter, PTL
<1>3. QED BY <1>2, InvInit, InvStep, PTL DEF MultiSpec

(* When the venue refuses a ladder for its number, the ladder it took before came from
   another process (decibel.go:256-293): the loop of a market makes one call at a time, so within
   a process the numbers and the places in the account's queue grow together. *)
THEOREM NeverInOwnWay == MultiSpec => []NeverInItsOwnWay
<1>1. Inv => NeverInItsOwnWay
  BY DEF Inv
<1>2. QED BY <1>1, Invariance, PTL

(* The later decision of a market is the one that rests: within a process calls run in the
   order they were made, and what an earlier process left in the mempool runs before what a
   later one sends, unless an eviction tore a hole in the queue. *)
THEOREM LaterDecisionRests == MultiSpec => LaterDecisionWins
<1> DEFINE Wins == \A m \in Markets :
             decided'[m] # decided[m] /\ decided[m] # Nothing /\ (\A c \in Calls : fate[c] # "dropped")
               => born[decided'[m]].order > born[decided[m]].order
<1>1. TypeOK /\ Inv /\ [MultiNext]_multiVars => [Wins]_multiVars
  <2> SUFFICES ASSUME TypeOK, Inv, [MultiNext]_multiVars,
                      NEW m \in Markets, decided'[m] # decided[m], decided[m] # Nothing,
                      \A c \in Calls : fate[c] # "dropped"
               PROVE  born[decided'[m]].order > born[decided[m]].order
    OBVIOUS
  <2>0. BulkTypeOK /\ MadeInv /\ SentInv /\ SlotOrderInv /\ ChainInv /\ VenueInv /\ QueueInv
    BY DEF Inv
  <2>1. PICK c \in Calls : Executes(c)
    BY <2>0, VenueChanges
  <2>2. m = MarketOf[c] /\ decided'[m] = c
    BY <2>0, <2>1 DEF Executes, BulkTypeOK
  <2>3. PICK d \in Calls : d = decided[m]
    BY <2>0 DEF BulkTypeOK
  <2>4. MarketOf[d] = m /\ fate[d] = "committed"
    BY <2>0, <2>3 DEF VenueInv
  <2>5. fate[c] = "mempool" /\ slot[c] = chainSeq
    BY <2>1, ExecutesEffect
  <2>6. c \in Made /\ d \in Made /\ c # d /\ Sent(d) /\ c \in Mempool
    BY <2>0, <2>4, <2>5 DEF Made, SentInv, Sent, Mempool
  <2>7. ASSUME Before(c, d) PROVE FALSE
    <3>1. CASE born[c].process = born[d].process
      BY <2>0, <2>1, <2>2, <2>4, <2>7, <3>1, RunsInOrder DEF Siblings
    <3>2. CASE born[c].process # born[d].process
      <4>1. born[c].process <= born[d].process
        BY <2>0, <2>6, <2>7 DEF MadeInv
      <4>2. born[c].process \in Nat /\ born[d].process \in Nat
        BY <2>0 DEF BulkTypeOK
      <4>3. born[c].process < born[d].process
        BY <3>2, <4>1, <4>2
      <4>4. slot[c] < slot[d]
        BY <2>0, <2>6, <4>3 DEF QueueInv, NothingDropped
      <4>5. slot[d] < chainSeq
        BY <2>0, <2>4 DEF ChainInv
      <4>6. slot[c] \in Nat /\ slot[d] \in Nat /\ chainSeq \in Nat
        BY DEF TypeOK, AccountTypeOK
      <4>7. QED BY <2>5, <4>4, <4>5, <4>6
    <3>3. QED BY <3>1, <3>2
  <2>8. Before(d, c)
    BY <2>0, <2>6, <2>7 DEF MadeInv
  <2>9. born[c].order \in Nat /\ born[d].order \in Nat
    BY <2>0 DEF BulkTypeOK
  <2>10. QED BY <2>2, <2>3, <2>8, <2>9 DEF Before
<1>2. QED BY <1>1, Invariance, PTL DEF MultiSpec, LaterDecisionWins
=============================================================================
