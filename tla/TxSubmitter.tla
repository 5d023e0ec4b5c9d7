----------------------------- MODULE TxSubmitter -----------------------------
(***************************************************************************)
(* aptos/tx_submitter.go: the submitter every market of a multi-market bot *)
(* shares.  One mutex is held from the first line of SubmitEntryFunction   *)
(* to its return, around the lazy fetch of the account's sequence number,  *)
(* build, sign, submit and wait (aptos/client.go, submitEntryFunction).    *)
(* The local number advances exactly when the inner call returned a result *)
(* (a transaction hash), whatever happened to the transaction afterwards.  *)
(***************************************************************************)
EXTENDS AptosAccount

CONSTANTS
  NoCall,       \* the mutex is free
  MaxRestarts   \* bound on process restarts

ASSUME SubmitterAssumption ==
  /\ NoCall \notin Calls
  /\ MaxRestarts \in Nat

VARIABLES
  mu,           \* holder of TxSubmitter.mu, or NoCall
  seq,          \* TxSubmitter.seq
  seqSet,       \* TxSubmitter.seqSet
  pc,           \* where each call is
  reply,        \* what each call returned
  base,         \* history: the value the initial fetch returned
  restarts      \* history: number of process restarts

submitterVars == <<mu, seq, seqSet, pc, reply, base, restarts>>
vars == <<accountVars, submitterVars>>

\* "past": the call belongs to a process that has been restarted since.
Places == {"idle", "waiting", "locked", "confirming", "returned", "past"}

\* "error": nil result; "pending": a hash and a wait error; "executed": a hash, no error.
Replies == {"none", "error", "pending", "executed"}

TypeOK ==
  /\ AccountTypeOK
  /\ mu \in Calls \cup {NoCall}
  /\ seq \in Nat
  /\ seqSet \in BOOLEAN
  /\ pc \in [Calls -> Places]
  /\ reply \in [Calls -> Replies]
  /\ base \in Nat
  /\ restarts \in Nat

Init ==
  /\ AccountInit
  /\ mu = NoCall
  /\ seq = 0
  /\ seqSet = FALSE
  /\ pc = [c \in Calls |-> "idle"]
  /\ reply = [c \in Calls |-> "none"]
  /\ base = 0
  /\ restarts = 0

-----------------------------------------------------------------------------
\* SubmitEntryFunction, step by step.

\* Some market's goroutine calls SubmitEntryFunction and asks for the mutex.
Call(c) ==
  /\ pc[c] = "idle"
  /\ pc' = [pc EXCEPT ![c] = "waiting"]
  /\ UNCHANGED <<accountVars, mu, seq, seqSet, reply, base, restarts>>

\* Mutant: the call does not wait for the mutex.
LockWithoutWaiting(c) ==
  /\ pc[c] = "waiting"
  /\ mu' = c
  /\ pc' = [pc EXCEPT ![c] = "locked"]
  /\ UNCHANGED <<accountVars, seq, seqSet, reply, base, restarts>>

Lock(c) ==
  /\ pc[c] = "waiting"
  /\ mu = NoCall
  /\ mu' = c
  /\ pc' = [pc EXCEPT ![c] = "locked"]
  /\ UNCHANGED <<accountVars, seq, seqSet, reply, base, restarts>>

\* Mutants: the number is not advanced when the wait was abandoned; it is advanced
\* even when nothing was sent; it is given back when the call failed.
NextSeqIfExecuted(r) == IF r = "executed" THEN seq + 1 ELSE seq
NextSeqAlways(r) == seq + 1
NextSeqGivenBack(r) == IF r = "error" THEN seq - 1 ELSE seq + 1

\* "if result != nil { t.seq++ }": a result is a hash, with or without a wait error.
NextSeq(r) == IF r = "error" THEN seq ELSE seq + 1

\* Mutant: an early return without Unlock.
ReturnHoldingOnError(c, r) ==
  /\ mu' = IF r = "error" THEN mu ELSE NoCall
  /\ pc' = [pc EXCEPT ![c] = "returned"]
  /\ reply' = [reply EXCEPT ![c] = r]
  /\ seq' = NextSeq(r)

\* The call returns r and the deferred Unlock frees the mutex.
Return(c, r) ==
  /\ mu' = NoCall
  /\ pc' = [pc EXCEPT ![c] = "returned"]
  /\ reply' = [reply EXCEPT ![c] = r]
  /\ seq' = NextSeq(r)

\* First use: the chain's number is fetched.
FetchInitialSeq(c) ==
  /\ pc[c] = "locked"
  /\ ~seqSet
  /\ seq' = chainSeq
  /\ base' = chainSeq
  /\ seqSet' = TRUE
  /\ UNCHANGED <<accountVars, mu, pc, reply, restarts>>

\* First use, and the fetch fails: seqSet stays false, so the next call tries again.
FetchFails(c) ==
  /\ pc[c] = "locked"
  /\ ~seqSet
  /\ Return(c, "error")
  /\ UNCHANGED <<accountVars, seqSet, base, restarts>>

\* A cancelled context, or an ABI, build or sign error: nothing was sent.
BuildFails(c) ==
  /\ pc[c] = "locked"
  /\ seqSet
  /\ Return(c, "error")
  /\ UNCHANGED <<accountVars, seqSet, base, restarts>>

\* The node refuses the number: the result is nil and seq stays.
SubmitRefused(c) ==
  /\ pc[c] = "locked"
  /\ seqSet
  /\ ~SlotFree(seq)
  /\ Return(c, "error")
  /\ UNCHANGED <<accountVars, seqSet, base, restarts>>

SubmitAccepted(c) ==
  /\ pc[c] = "locked"
  /\ seqSet
  /\ Admit(c, seq)
  /\ pc' = [pc EXCEPT ![c] = "confirming"]
  /\ UNCHANGED <<mu, seq, seqSet, reply, base, restarts>>

\* The node took the transaction but the answer never arrived: nil result, seq stays.
SubmitReplyLost(c) ==
  /\ pc[c] = "locked"
  /\ seqSet
  /\ Admit(c, seq)
  /\ Return(c, "error")
  /\ UNCHANGED <<seqSet, base, restarts>>

\* WaitForTransaction saw the committed transaction (whether the VM aborted it or not).
Confirmed(c) ==
  /\ pc[c] = "confirming"
  /\ fate[c] = "committed"
  /\ Return(c, "executed")
  /\ UNCHANGED <<accountVars, seqSet, base, restarts>>

\* WaitForTransaction gave up (60s, or what is left of the context's deadline).
WaitTimesOut(c) ==
  /\ pc[c] = "confirming"
  /\ Return(c, "pending")
  /\ UNCHANGED <<accountVars, seqSet, base, restarts>>

-----------------------------------------------------------------------------
\* The environment: the chain, and an operator restarting the process.

NodeStep(c) ==
  /\ CommitTx(c) \/ Evict(c)
  /\ UNCHANGED submitterVars

\* A new process starts with an empty TxSubmitter; transactions already sent live on.
Restart ==
  /\ restarts < MaxRestarts
  /\ restarts' = restarts + 1
  /\ mu' = NoCall
  /\ seq' = 0
  /\ base' = 0
  /\ seqSet' = FALSE
  /\ pc' = [c \in Calls |-> IF pc[c] = "idle" THEN "idle" ELSE "past"]
  /\ UNCHANGED <<accountVars, reply>>

\* Every call has been made and answered.
Quiescent ==
  /\ \A c \in Calls : pc[c] \in {"returned", "past"}
  /\ UNCHANGED vars

Submit(c) ==
  \/ FetchInitialSeq(c) \/ FetchFails(c) \/ BuildFails(c)
  \/ SubmitRefused(c) \/ SubmitAccepted(c) \/ SubmitReplyLost(c)

Next ==
  \/ \E c \in Calls :
       \/ Call(c) \/ Lock(c) \/ Submit(c)
       \/ Confirmed(c) \/ WaitTimesOut(c)
       \/ NodeStep(c)
  \/ Restart
  \/ Quiescent

Spec == Init /\ [][Next]_vars

\* sync.Mutex hands a waiter the lock at the latest when it starves (strong fairness),
\* a call that holds it runs on, and the node executes the transaction whose turn it is.
Fairness ==
  \A c \in Calls :
    /\ SF_vars(Lock(c))
    /\ WF_vars(Submit(c))
    /\ WF_vars(Confirmed(c) \/ WaitTimesOut(c))
    /\ WF_vars(CommitTx(c) /\ UNCHANGED submitterVars)

FairSpec == Spec /\ Fairness

-----------------------------------------------------------------------------
\* Properties.

\* The calls of the running process that were given a transaction hash.
Hashed == {c \in Calls : pc[c] = "returned" /\ reply[c] \in {"pending", "executed"}}

\* tx_submitter.go:45-49: submissions are serialized end to end, so only the holder
\* of the mutex is anywhere between the fetch of the number and the end of the wait.
Serialized ==
  \A c \in Calls : pc[c] \in {"locked", "confirming"} => mu = c

\* Two calls of one process that both got a hash never share a sequence number, even
\* when a wait was abandoned with the transaction still pending.
HashedSlotsDistinct ==
  \A c, d \in Hashed : c # d => slot[c] # slot[d]

\* The submitter leaves no gap behind: every number between the initial fetch and the
\* next one was handed to a call that got a hash.  (A gap parks every later transaction.)
SlotsContiguous ==
  seqSet => \A s \in base .. seq - 1 : \E c \in Hashed : slot[c] = s

\* No answer to a submission was lost: whoever got an error has no transaction in the mempool.  The
\* code takes this for granted (tx_submitter.go:91-93), although a lost HTTP answer breaks it.
NilMeansNotSubmitted ==
  \A c \in Calls : reply[c] = "error" => fate[c] = "none"

\* As long as no reply was lost and the process was not restarted, the local number
\* collides with no transaction of ours: the node refuses nothing, whatever was evicted.
NeverRefused ==
  NilMeansNotSubmitted /\ restarts = 0 =>
    \A c \in Calls : pc[c] = "locked" /\ seqSet => SlotFree(seq)

\* Every call of a process that is not restarted gets its answer: nobody is left
\* waiting on the mutex.
CallsReturn ==
  \A c \in Calls : pc[c] = "waiting" ~> pc[c] \in {"returned", "past"}

NoFaults ==
  /\ NilMeansNotSubmitted
  /\ \A c \in Calls : fate[c] # "dropped"
  /\ restarts = 0

\* When nothing is ever evicted, lost or restarted, a transaction that got a hash is executed
\* even if its wait was abandoned: no earlier number is missing in front of it.
HashedCommits ==
  []NoFaults => \A c \in Calls : c \in Hashed ~> fate[c] = "committed"

-----------------------------------------------------------------------------
\* What the submitter promises: numbers are handed out one by one (SlotAllocator).

Assigned == [c \in Calls |-> IF c \in Hashed THEN slot[c] ELSE -1]

Allocator == INSTANCE SlotAllocator WITH next <- seq, assigned <- Assigned

ImplementsAllocator == Allocator!Spec

=============================================================================
