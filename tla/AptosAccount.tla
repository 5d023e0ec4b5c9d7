---------------------------- MODULE AptosAccount ----------------------------
(***************************************************************************)
(* One signing account as an Aptos fullnode sees it: the account's         *)
(* committed sequence number and the fate of each transaction the bot      *)
(* hands over.  The node is not part of the repository; it is modelled     *)
(* from what aptos/client.go and aptos/tx_submitter.go expect of it:       *)
(*   - a transaction is executed only when its sequence number is the      *)
(*     account's current one;                                              *)
(*   - a number already used, or held by a pending transaction, is refused *)
(*     at submission;                                                      *)
(*   - a number ahead of the account's waits in the mempool;               *)
(*   - a pending transaction may leave the mempool unexecuted              *)
(*     (expiration, eviction).                                             *)
(* Each invocation of SubmitEntryFunction is an element of Calls.          *)
(***************************************************************************)
EXTENDS Integers

CONSTANTS
  Calls,        \* invocations of SubmitEntryFunction, each makes at most one transaction
  InitialSeq    \* the account's sequence number when the model starts

ASSUME AccountAssumption == InitialSeq \in Nat

VARIABLES
  chainSeq,     \* the account's committed sequence number
  slot,         \* slot[c]: the sequence number call c signed its transaction with
  fate          \* fate[c]: what the node has done with the transaction of call c

accountVars == <<chainSeq, slot, fate>>

Fates == {"none", "mempool", "committed", "dropped"}

AccountTypeOK ==
  /\ chainSeq \in Nat
  /\ slot \in [Calls -> Nat]
  /\ fate \in [Calls -> Fates]

AccountInit ==
  /\ chainSeq = InitialSeq
  /\ slot = [c \in Calls |-> 0]
  /\ fate = [c \in Calls |-> "none"]

-----------------------------------------------------------------------------

Mempool == {c \in Calls : fate[c] = "mempool"}

\* The node takes a transaction whose number is neither spent nor pending.
SlotFree(s) ==
  /\ s >= chainSeq
  /\ \A c \in Mempool : slot[c] # s

\* The transaction of call c, signed with number s, enters the mempool.
Admit(c, s) ==
  /\ SlotFree(s)
  /\ slot' = [slot EXCEPT ![c] = s]
  /\ fate' = [fate EXCEPT ![c] = "mempool"]
  /\ UNCHANGED chainSeq

\* The chain executes the pending transaction whose turn it is.
CommitTx(c) ==
  /\ fate[c] = "mempool"
  /\ slot[c] = chainSeq
  /\ chainSeq' = chainSeq + 1
  /\ fate' = [fate EXCEPT ![c] = "committed"]
  /\ UNCHANGED slot

\* A pending transaction leaves the mempool without being executed.
Evict(c) ==
  /\ fate[c] = "mempool"
  /\ fate' = [fate EXCEPT ![c] = "dropped"]
  /\ UNCHANGED <<chainSeq, slot>>

=============================================================================
