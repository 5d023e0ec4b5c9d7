-------------------------- MODULE TxSubmitterProofs --------------------------
(***************************************************************************)
(* Theorems about TxSubmitter for any set of calls, any starting sequence  *)
(* number and any number of restarts.                                      *)
(***************************************************************************)
EXTENDS TxSubmitter, TLAPS

(* Type correctness of the submitter and of the account it submits to. *)
THEOREM TypeCorrect == Spec => []TypeOK
<1> USE AccountAssumption, SubmitterAssumption DEF AccountAssumption, SubmitterAssumption
<1>1. Init => TypeOK
  <2> SUFFICES ASSUME Init PROVE TypeOK
    OBVIOUS
  <2>1. AccountTypeOK
    BY DEF Init, AccountInit, AccountTypeOK, Fates
  <2>2. pc \in [Calls -> Places] /\ reply \in [Calls -> Replies]
    BY DEF Init, Places, Replies
  <2>3. seqSet \in BOOLEAN
    BY DEF Init
  <2>4. QED BY <2>1, <2>2, <2>3 DEF Init, TypeOK
<1>2. TypeOK /\ [Next]_vars => TypeOK'
  <2> SUFFICES ASSUME TypeOK, [Next]_vars PROVE TypeOK'
    OBVIOUS
  <2> USE DEF TypeOK, AccountTypeOK, accountVars, Fates, Places, Replies
  <2>1. ASSUME NEW c \in Calls, Call(c) PROVE TypeOK'
    BY <2>1 DEF Call
  <2>2. ASSUME NEW c \in Calls, Lock(c) PROVE TypeOK'
    BY <2>2 DEF Lock
  <2>3. ASSUME NEW c \in Calls, Submit(c) PROVE TypeOK'
    <3>1. CASE FetchInitialSeq(c)
      BY <3>1 DEF FetchInitialSeq
    <3>2. CASE FetchFails(c) \/ BuildFails(c) \/ SubmitRefused(c)
      BY <3>2 DEF FetchFails, BuildFails, SubmitRefused, Return, NextSeq
    <3>3. CASE SubmitAccepted(c)
      BY <3>3 DEF SubmitAccepted, Admit
    <3>4. CASE SubmitReplyLost(c)
      BY <3>4 DEF SubmitReplyLost, Admit, Return, NextSeq
    <3>5. QED BY <2>3, <3>1, <3>2, <3>3, <3>4 DEF Submit
  <2>4. ASSUME NEW c \in Calls, Confirmed(c) \/ WaitTimesOut(c) PROVE TypeOK'
    BY <2>4 DEF Confirmed, WaitTimesOut, Return, NextSeq
  <2>5. ASSUME NEW c \in Calls, NodeStep(c) PROVE TypeOK'
    BY <2>5 DEF NodeStep, CommitTx, Evict, submitterVars
  <2>6. CASE Restart
    <3>1. pc' \in [Calls -> Places]
      BY <2>6 DEF Restart
    <3>2. seqSet' \in BOOLEAN
      BY <2>6 DEF Restart
    <3>3. QED BY <2>6, <3>1, <3>2 DEF Restart
  <2>7. CASE Quiescent \/ UNCHANGED vars
    BY <2>7 DEF Quiescent, vars, submitterVars
  <2>8. QED BY <2>1, <2>2, <2>3, <2>4, <2>5, <2>6, <2>7 DEF Next
<1>3. QED BY <1>1, <1>2, PTL DEF Spec

(* Submissions are serialized end to end: only the holder of the mutex is
   between the fetch of the sequence number and the end of the wait. *)
THEOREM SubmissionsSerialized == Spec => []Serialized
<1>1. Init => Serialized
  BY DEF Init, Serialized
<1>2. TypeOK /\ Serialized /\ [Next]_vars => Serialized'
  <2> SUFFICES ASSUME TypeOK, Serialized, [Next]_vars PROVE Serialized'
    OBVIOUS
  <2> USE SubmitterAssumption DEF SubmitterAssumption, Serialized, TypeOK
  <2>1. ASSUME NEW c \in Calls, Call(c) PROVE Serialized'
    BY <2>1 DEF Call
  <2>2. ASSUME NEW c \in Calls, Lock(c) PROVE Serialized'
    BY <2>2 DEF Lock
  <2>3. ASSUME NEW c \in Calls, Submit(c) PROVE Serialized'
    BY <2>3 DEF Submit, FetchInitialSeq, FetchFails, BuildFails, SubmitRefused,
                SubmitAccepted, SubmitReplyLost, Return
  <2>4. ASSUME NEW c \in Calls, Confirmed(c) \/ WaitTimesOut(c) PROVE Serialized'
    BY <2>4 DEF Confirmed, WaitTimesOut, Return
  <2>5. ASSUME NEW c \in Calls, NodeStep(c) PROVE Serialized'
    BY <2>5 DEF NodeStep, submitterVars
  <2>6. CASE Restart
    BY <2>6 DEF Restart
  <2>7. CASE Quiescent \/ UNCHANGED vars
    BY <2>7 DEF Quiescent, vars, submitterVars
  <2>8. QED BY <2>1, <2>2, <2>3, <2>4, <2>5, <2>6, <2>7 DEF Next
<1>3. QED BY <1>1, <1>2, TypeCorrect, PTL DEF Spec

-----------------------------------------------------------------------------
(***************************************************************************)
(* The inductive invariant behind the three facts about slots.  A call     *)
(* that waits for its confirmation signed with the current number, and the *)
(* calls that got a hash lie strictly below it: so the number a returning  *)
(* call adds to the hashed ones is new and closes the interval.            *)
(***************************************************************************)
SlotInv ==
  /\ TypeOK
  /\ Serialized
  /\ \A c \in Calls : pc[c] = "confirming" => seqSet /\ slot[c] = seq
  /\ \A c \in Hashed : seqSet /\ base =< slot[c] /\ slot[c] < seq
  /\ seqSet => base =< seq
  /\ HashedSlotsDistinct
  /\ SlotsContiguous

(* A call that did not get a hash leaves the set of hashed calls as it was. *)
LEMMA ErrorAddsNoHash ==
  ASSUME TypeOK, NEW c \in Calls, pc[c] \in {"locked", "confirming"}, Return(c, "error")
  PROVE  /\ Hashed' = Hashed
         /\ c \notin Hashed
         /\ seq' = seq
  BY DEF Hashed, Return, NextSeq, TypeOK, AccountTypeOK

(* A call that got a hash is the only one added to the hashed calls. *)
LEMMA HashAddsOne ==
  ASSUME TypeOK, NEW c \in Calls, pc[c] \in {"locked", "confirming"},
         NEW r \in {"pending", "executed"}, Return(c, r)
  PROVE  /\ Hashed' = Hashed \cup {c}
         /\ c \notin Hashed
         /\ seq' = seq + 1
  BY DEF Hashed, Return, NextSeq, TypeOK, AccountTypeOK

(* Right after the initial fetch no number has been handed out. *)
LEMMA EmptyInterval == \A b \in Nat : b .. b - 1 = {}
  OBVIOUS

LEMMA SlotInvInit == Init => SlotInv
<1> SUFFICES ASSUME Init PROVE SlotInv
  OBVIOUS
<1>1. TypeOK
  BY AccountAssumption, SubmitterAssumption
     DEF AccountAssumption, SubmitterAssumption, Init, TypeOK, AccountInit, AccountTypeOK, Fates, Places, Replies
<1>2. Hashed = {}
  BY DEF Init, Hashed
<1>3. QED
  BY <1>1, <1>2 DEF Init, SlotInv, Serialized, HashedSlotsDistinct, SlotsContiguous

LEMMA SlotInvStep ==
  SlotInv /\ TypeOK' /\ Serialized' /\ [Next]_vars => SlotInv'
<1> SUFFICES ASSUME SlotInv, TypeOK', Serialized', [Next]_vars PROVE SlotInv'
  OBVIOUS
<1> USE DEF SlotInv
\* Steps that touch neither the numbers nor the set of hashed calls.
<1>1. ASSUME Hashed' = Hashed, UNCHANGED <<seq, seqSet, base>>,
             \A d \in Calls : pc'[d] = "confirming" => pc[d] = "confirming",
             \A d \in Calls : (d \in Hashed \/ pc[d] = "confirming") => slot'[d] = slot[d]
      PROVE  SlotInv'
  <2>1. Hashed \subseteq Calls
    BY DEF Hashed
  <2>2. HashedSlotsDistinct'
    BY <1>1, <2>1 DEF HashedSlotsDistinct
  <2>3. SlotsContiguous'
    BY <1>1, <2>1 DEF SlotsContiguous
  <2>4. QED BY <1>1, <2>1, <2>2, <2>3
\* A call that returns with a hash.
<1>2. ASSUME NEW c \in Calls, pc[c] = "confirming", NEW r \in {"pending", "executed"},
             Return(c, r), UNCHANGED <<accountVars, seqSet, base>>
      PROVE  SlotInv'
  <2>1. Hashed' = Hashed \cup {c} /\ c \notin Hashed /\ seq' = seq + 1
    BY <1>2, HashAddsOne
  <2>2. slot' = slot /\ slot[c] = seq /\ seqSet /\ base =< seq
    BY <1>2 DEF accountVars
  <2>3. seq \in Nat /\ base \in Nat /\ slot \in [Calls -> Nat] /\ Hashed \subseteq Calls
    BY DEF TypeOK, AccountTypeOK, Hashed
  <2>4. \A d \in Calls : pc'[d] # "confirming"
    BY <1>2, SubmitterAssumption DEF SubmitterAssumption, Serialized, Return, TypeOK
  <2>5. \A d \in Hashed' : base' =< slot'[d] /\ slot'[d] < seq'
    BY <1>2, <2>1, <2>2, <2>3
  <2>6. HashedSlotsDistinct'
    BY <2>1, <2>2, <2>3 DEF HashedSlotsDistinct
  <2>7. SlotsContiguous'
    <3> SUFFICES ASSUME NEW s \in base' .. seq' - 1
                 PROVE  \E d \in Hashed' : slot'[d] = s
      BY DEF SlotsContiguous
    <3>1. CASE s = seq
      BY <3>1, <2>1, <2>2
    <3>2. CASE s # seq
      <4>1. s \in base .. seq - 1
        BY <3>2, <1>2, <2>1, <2>3
      <4>2. PICK d \in Hashed : slot[d] = s
        BY <4>1, <2>2 DEF SlotsContiguous
      <4>3. QED BY <4>2, <2>1, <2>2
    <3>3. QED BY <3>1, <3>2
  <2>8. QED BY <1>2, <2>1, <2>2, <2>3, <2>4, <2>5, <2>6, <2>7
<1>3. ASSUME NEW c \in Calls, Call(c) \/ Lock(c) PROVE SlotInv'
  <2>1. Hashed' = Hashed
    BY <1>3 DEF Call, Lock, Hashed, TypeOK
  <2>2. QED BY <1>3, <2>1, <1>1 DEF Call, Lock, accountVars, TypeOK
<1>4. ASSUME NEW c \in Calls, Submit(c) PROVE SlotInv'
  <2>1. CASE FetchInitialSeq(c)
    <3>1. Hashed = {} /\ Hashed' = {}
      BY <2>1 DEF FetchInitialSeq, Hashed
    <3>2. \A d \in Calls : pc'[d] # "confirming"
      BY <2>1 DEF FetchInitialSeq
    <3>3. seq' = base' /\ seq' \in Nat
      BY <2>1 DEF FetchInitialSeq, TypeOK
    <3>4. HashedSlotsDistinct' /\ SlotsContiguous'
      <4>1. base' .. seq' - 1 = {}
        BY <3>3, EmptyInterval
      <4>2. HashedSlotsDistinct'
        BY <3>1 DEF HashedSlotsDistinct
      <4>3. SlotsContiguous'
        BY <4>1 DEF SlotsContiguous
      <4>4. QED BY <4>2, <4>3
    <3>5. QED BY <3>1, <3>2, <3>3, <3>4
  <2>2. CASE FetchFails(c) \/ BuildFails(c) \/ SubmitRefused(c)
    <3>1. pc[c] = "locked" /\ Return(c, "error") /\ UNCHANGED <<accountVars, seqSet, base>>
      BY <2>2 DEF FetchFails, BuildFails, SubmitRefused
    <3>2. Hashed' = Hashed /\ seq' = seq
      BY <3>1, ErrorAddsNoHash
    <3>3. QED BY <3>1, <3>2, <1>1 DEF Return, accountVars, TypeOK
  <2>3. CASE SubmitAccepted(c)
    <3>1. pc[c] = "locked" /\ seqSet /\ Admit(c, seq) /\ UNCHANGED <<seq, seqSet, base, reply>>
          /\ pc' = [pc EXCEPT ![c] = "confirming"]
      BY <2>3 DEF SubmitAccepted
    <3>2. Hashed' = Hashed /\ c \notin Hashed /\ Hashed \subseteq Calls
      BY <3>1 DEF Hashed, TypeOK
    <3>3. \A d \in Calls : pc'[d] = "confirming" => d = c
      BY <3>1, SubmitterAssumption DEF SubmitterAssumption, Serialized, TypeOK
    <3>4. slot'[c] = seq /\ \A d \in Calls : d # c => slot'[d] = slot[d]
      BY <3>1 DEF Admit, TypeOK, AccountTypeOK
    <3>5. HashedSlotsDistinct' /\ SlotsContiguous'
      BY <3>1, <3>2, <3>4 DEF HashedSlotsDistinct, SlotsContiguous
    <3>6. QED BY <3>1, <3>2, <3>3, <3>4, <3>5
  <2>4. CASE SubmitReplyLost(c)
    <3>1. pc[c] = "locked" /\ Admit(c, seq) /\ Return(c, "error") /\ UNCHANGED <<seqSet, base>>
      BY <2>4 DEF SubmitReplyLost
    <3>2. Hashed' = Hashed /\ seq' = seq /\ c \notin Hashed
      BY <3>1, ErrorAddsNoHash
    <3>3. \A d \in Calls : d # c => slot'[d] = slot[d]
      BY <3>1 DEF Admit, TypeOK, AccountTypeOK
    <3>4. QED BY <3>1, <3>2, <3>3, <1>1 DEF Return, TypeOK
  <2>5. QED BY <1>4, <2>1, <2>2, <2>3, <2>4 DEF Submit
<1>5. ASSUME NEW c \in Calls, Confirmed(c) \/ WaitTimesOut(c) PROVE SlotInv'
  BY <1>5, <1>2 DEF Confirmed, WaitTimesOut
<1>6. ASSUME NEW c \in Calls, NodeStep(c) PROVE SlotInv'
  <2>1. UNCHANGED <<submitterVars, slot>>
    BY <1>6 DEF NodeStep, CommitTx, Evict
  <2>2. Hashed' = Hashed
    BY <2>1 DEF submitterVars, Hashed
  <2>3. QED BY <2>1, <2>2, <1>1 DEF submitterVars
<1>7. CASE Restart
  <2>1. Hashed' = {}
    BY <1>7 DEF Restart, Hashed
  <2>2. \A d \in Calls : pc'[d] # "confirming"
    BY <1>7 DEF Restart
  <2>3. ~seqSet'
    BY <1>7 DEF Restart
  <2>4. QED BY <2>1, <2>2, <2>3 DEF HashedSlotsDistinct, SlotsContiguous
<1>8. CASE Quiescent \/ UNCHANGED vars
  <2>1. UNCHANGED vars
    BY <1>8 DEF Quiescent
  <2>2. Hashed' = Hashed
    BY <2>1 DEF vars, submitterVars, Hashed
  <2>3. QED BY <2>1, <2>2, <1>1 DEF vars, submitterVars, accountVars
<1>9. QED BY <1>3, <1>4, <1>5, <1>6, <1>7, <1>8 DEF Next

LEMMA SlotInvariance == Spec => []SlotInv
BY SlotInvInit, SlotInvStep, TypeCorrect, SubmissionsSerialized, PTL DEF Spec

(* Two calls of one process that both got a hash never share a number. *)
THEOREM SlotsDistinct == Spec => []HashedSlotsDistinct
<1>1. SlotInv => HashedSlotsDistinct
  BY DEF SlotInv
<1>2. QED BY <1>1, SlotInvariance, PTL

(* The submitter never leaves a gap below its next number. *)
THEOREM NoGaps == Spec => []SlotsContiguous
<1>1. SlotInv => SlotsContiguous
  BY DEF SlotInv
<1>2. QED BY <1>1, SlotInvariance, PTL
-----------------------------------------------------------------------------
(***************************************************************************)
(* Why a process that lost no reply is never refused a number: each        *)
(* transaction it sent belongs to a call that is confirming or was given a *)
(* hash, so the pending ones lie below the local number, and the chain can *)
(* be ahead of it only by the transaction whose confirmation is awaited.   *)
(***************************************************************************)
Clean == NilMeansNotSubmitted /\ restarts = 0

SentIsKnown == \A c \in Calls : fate[c] # "none" => pc[c] = "confirming" \/ c \in Hashed

ChainBehind ==
  seqSet => \/ chainSeq =< seq
            \/ /\ chainSeq = seq + 1
               /\ \E c \in Calls : pc[c] = "confirming" /\ fate[c] = "committed"

RefusalInv ==
  /\ SlotInv
  /\ \A c \in Calls : pc[c] \notin {"returned", "past"} => reply[c] = "none"
  /\ Clean => SentIsKnown /\ ChainBehind

(* Once a reply was lost or the process restarted, the history stays tainted. *)
LEMMA CleanStaysClean ==
  ASSUME RefusalInv, TypeOK', [Next]_vars, Clean'
  PROVE  Clean
<1> USE DEF RefusalInv, SlotInv, TypeOK, AccountTypeOK
<1>1. restarts = 0
  <2>1. CASE Restart
    BY <2>1 DEF Clean, Restart
  <2>2. CASE ~Restart
    BY <2>2 DEF Clean, Next, Call, Lock, Submit, FetchInitialSeq, FetchFails, BuildFails,
       SubmitRefused, SubmitAccepted, SubmitReplyLost, Confirmed, WaitTimesOut, NodeStep,
       submitterVars, Quiescent, vars
  <2>3. QED BY <2>1, <2>2
<1>2. ASSUME NEW c \in Calls, reply[c] = "error", fate[c] # "none" PROVE FALSE
  <2>1. pc[c] \in {"returned", "past"}
    BY <1>2
  <2>2. fate'[c] # "none" /\ reply'[c] = "error"
    <3>1. ASSUME NEW d \in Calls, Call(d) \/ Lock(d) PROVE fate' = fate /\ reply' = reply
      BY <3>1 DEF Call, Lock, accountVars
    <3>2. ASSUME NEW d \in Calls, Submit(d) PROVE fate'[c] # "none" /\ reply'[c] = "error"
      <4>1. c # d
        BY <3>2, <2>1 DEF Submit, FetchInitialSeq, FetchFails, BuildFails,
           SubmitRefused, SubmitAccepted, SubmitReplyLost
      <4>2. QED
        BY <4>1, <3>2, <1>2 DEF Submit, FetchInitialSeq, FetchFails, BuildFails,
           SubmitRefused, SubmitAccepted, SubmitReplyLost, Return, Admit, accountVars
    <3>3. ASSUME NEW d \in Calls, Confirmed(d) \/ WaitTimesOut(d)
          PROVE  fate'[c] # "none" /\ reply'[c] = "error"
      BY <3>3, <2>1, <1>2 DEF Confirmed, WaitTimesOut, Return, accountVars
    <3>4. ASSUME NEW d \in Calls, NodeStep(d) PROVE fate'[c] # "none" /\ reply'[c] = "error"
      BY <3>4, <1>2 DEF NodeStep, CommitTx, Evict, submitterVars
    <3>5. CASE Restart \/ Quiescent \/ UNCHANGED vars
      BY <3>5, <1>2 DEF Restart, Quiescent, vars, accountVars, submitterVars
    <3>6. QED BY <3>1, <3>2, <3>3, <3>4, <3>5, <1>2 DEF Next
  <2>3. QED BY <2>2 DEF Clean, NilMeansNotSubmitted
<1>3. QED BY <1>1, <1>2 DEF Clean, NilMeansNotSubmitted

LEMMA RefusalInvInit == Init => RefusalInv
<1>1. Init => SlotInv
  BY SlotInvInit
<1>2. QED BY <1>1 DEF RefusalInv, SentIsKnown, ChainBehind, Init, AccountInit

LEMMA RefusalInvStep ==
  RefusalInv /\ SlotInv' /\ [Next]_vars => RefusalInv'
<1> SUFFICES ASSUME RefusalInv, SlotInv', [Next]_vars PROVE RefusalInv'
  OBVIOUS
<1>0. SlotInv /\ TypeOK
  BY DEF RefusalInv, SlotInv
<1> USE <1>0 DEF SlotInv, TypeOK, AccountTypeOK
<1>1. \A c \in Calls : pc'[c] \notin {"returned", "past"} => reply'[c] = "none"
  <2>1. ASSUME NEW d \in Calls, Call(d) \/ Lock(d) \/ Submit(d) \/ Confirmed(d) \/ WaitTimesOut(d)
        PROVE  \A c \in Calls : pc'[c] \notin {"returned", "past"} => reply'[c] = "none"
    BY <2>1 DEF RefusalInv, Call, Lock, Submit, FetchInitialSeq, FetchFails, BuildFails,
       SubmitRefused, SubmitAccepted, SubmitReplyLost, Confirmed, WaitTimesOut, Return
  <2>2. CASE Restart
    BY <2>2 DEF RefusalInv, Restart
  <2>3. ASSUME UNCHANGED submitterVars
        PROVE  \A c \in Calls : pc'[c] \notin {"returned", "past"} => reply'[c] = "none"
    BY <2>3 DEF RefusalInv, submitterVars
  <2>4. QED BY <2>1, <2>2, <2>3 DEF Next, NodeStep, Quiescent, vars
<1>2. ASSUME Clean' PROVE SentIsKnown' /\ ChainBehind'
  <2>1. Clean /\ SentIsKnown /\ ChainBehind /\ restarts' = 0
    BY <1>2, CleanStaysClean DEF RefusalInv, Clean
  <2>2. ASSUME NEW d \in Calls, Call(d) \/ Lock(d) PROVE SentIsKnown' /\ ChainBehind'
    <3>1. Hashed' = Hashed /\ UNCHANGED <<accountVars, seq, seqSet>>
      BY <2>2 DEF Call, Lock, Hashed
    <3>2. \A c \in Calls : pc[c] = "confirming" <=> pc'[c] = "confirming"
      BY <2>2 DEF Call, Lock
    <3>3. QED BY <2>1, <3>1, <3>2 DEF SentIsKnown, ChainBehind, accountVars
  <2>3. ASSUME NEW d \in Calls, FetchInitialSeq(d) PROVE SentIsKnown' /\ ChainBehind'
    <3>1. Hashed' = Hashed
      BY <2>3 DEF FetchInitialSeq, Hashed
    <3>2. QED BY <2>1, <2>3, <3>1 DEF FetchInitialSeq, SentIsKnown, ChainBehind, accountVars
  <2>4. ASSUME NEW d \in Calls, FetchFails(d) \/ BuildFails(d) \/ SubmitRefused(d)
        PROVE  SentIsKnown' /\ ChainBehind'
    <3>1. pc[d] = "locked" /\ Return(d, "error") /\ UNCHANGED <<accountVars, seqSet>>
      BY <2>4 DEF FetchFails, BuildFails, SubmitRefused
    <3>2. Hashed' = Hashed /\ seq' = seq
      BY <3>1, ErrorAddsNoHash
    <3>3. \A c \in Calls : pc[c] = "confirming" <=> pc'[c] = "confirming"
      BY <3>1 DEF Return
    <3>4. QED BY <2>1, <3>1, <3>2, <3>3 DEF SentIsKnown, ChainBehind, accountVars
  <2>5. ASSUME NEW d \in Calls, SubmitAccepted(d) PROVE SentIsKnown' /\ ChainBehind'
    <3>1. pc[d] = "locked" /\ seqSet /\ Admit(d, seq) /\ UNCHANGED <<seq, seqSet, reply>>
          /\ pc' = [pc EXCEPT ![d] = "confirming"]
      BY <2>5 DEF SubmitAccepted
    <3>2. Hashed' = Hashed
      BY <3>1 DEF Hashed
    <3>3. chainSeq' = chainSeq /\ chainSeq =< seq
      BY <3>1 DEF Admit, SlotFree
    <3>4. SentIsKnown'
      BY <2>1, <3>1, <3>2 DEF SentIsKnown, Admit
    <3>5. QED BY <3>1, <3>3, <3>4 DEF ChainBehind
  <2>6. ASSUME NEW d \in Calls, SubmitReplyLost(d) PROVE SentIsKnown' /\ ChainBehind'
    <3>1. reply'[d] = "error" /\ fate'[d] = "mempool"
      BY <2>6 DEF SubmitReplyLost, Return, Admit
    <3>2. QED BY <3>1, <1>2 DEF Clean, NilMeansNotSubmitted
  <2>7. ASSUME NEW d \in Calls, Confirmed(d) \/ WaitTimesOut(d)
        PROVE  SentIsKnown' /\ ChainBehind'
    <3>1. PICK r \in {"pending", "executed"} : Return(d, r)
      BY <2>7 DEF Confirmed, WaitTimesOut
    <3>2. pc[d] = "confirming" /\ UNCHANGED <<accountVars, seqSet>>
      BY <2>7 DEF Confirmed, WaitTimesOut
    <3>3. Hashed' = Hashed \cup {d} /\ seq' = seq + 1
      BY <3>1, <3>2, HashAddsOne
    <3>4. SentIsKnown'
      BY <2>1, <3>1, <3>2, <3>3 DEF SentIsKnown, Return, accountVars
    <3>5. chainSeq =< seq + 1
      BY <2>1, <3>2 DEF ChainBehind, RefusalInv
    <3>6. QED BY <3>2, <3>3, <3>4, <3>5 DEF ChainBehind, accountVars
  <2>8. ASSUME NEW d \in Calls, CommitTx(d), UNCHANGED submitterVars
        PROVE  SentIsKnown' /\ ChainBehind'
    <3>1. Hashed' = Hashed
      BY <2>8 DEF Hashed, submitterVars
    <3>2. SentIsKnown'
      BY <2>1, <2>8, <3>1 DEF SentIsKnown, CommitTx, submitterVars
    <3>3. slot[d] = chainSeq /\ chainSeq' = chainSeq + 1 /\ fate'[d] = "committed"
      BY <2>8 DEF CommitTx
    <3>4. CASE pc[d] = "confirming"
      <4>1. slot[d] = seq
        BY <3>4 DEF RefusalInv
      <4>2. QED BY <3>2, <3>3, <3>4, <4>1, <2>8 DEF ChainBehind, submitterVars
    <3>5. CASE d \in Hashed
      <4>1. slot[d] < seq
        BY <3>5 DEF RefusalInv
      <4>2. QED BY <3>2, <3>3, <4>1, <2>8 DEF ChainBehind, submitterVars
    <3>6. QED BY <2>1, <2>8, <3>4, <3>5 DEF SentIsKnown, CommitTx
  <2>9. ASSUME NEW d \in Calls, Evict(d), UNCHANGED submitterVars
        PROVE  SentIsKnown' /\ ChainBehind'
    <3>1. Hashed' = Hashed
      BY <2>9 DEF Hashed, submitterVars
    <3>2. SentIsKnown'
      BY <2>1, <2>9, <3>1 DEF SentIsKnown, Evict, submitterVars
    <3>3. \A c \in Calls : fate[c] = "committed" => fate'[c] = "committed"
      BY <2>9 DEF Evict
    <3>4. QED BY <2>1, <2>9, <3>2, <3>3 DEF ChainBehind, Evict, submitterVars
  <2>10. CASE Restart
    BY <2>1, <2>10 DEF Restart
  <2>11. CASE Quiescent \/ UNCHANGED vars
    <3>1. UNCHANGED vars
      BY <2>11 DEF Quiescent
    <3>2. Hashed' = Hashed
      BY <3>1 DEF Hashed, vars, submitterVars
    <3>3. QED BY <2>1, <3>1, <3>2 DEF SentIsKnown, ChainBehind, vars, accountVars, submitterVars
  <2>12. QED
    BY <2>2, <2>3, <2>4, <2>5, <2>6, <2>7, <2>8, <2>9, <2>10, <2>11
       DEF Next, Submit, NodeStep
<1>3. QED BY <1>1, <1>2 DEF RefusalInv

(* A process that lost no reply and was not restarted is never refused its number,
   whatever the mempool evicted. *)
THEOREM CleanProcessNeverRefused == Spec => []NeverRefused
<1>1. RefusalInv => NeverRefused
  <2> SUFFICES ASSUME RefusalInv, Clean, NEW c \in Calls, pc[c] = "locked", seqSet
               PROVE  SlotFree(seq)
    BY DEF NeverRefused, Clean
  <2>0. SentIsKnown /\ ChainBehind
    BY DEF RefusalInv
  <2> USE DEF RefusalInv, SlotInv, TypeOK, AccountTypeOK
  <2>1. \A d \in Calls : pc[d] # "confirming"
    BY SubmitterAssumption DEF SubmitterAssumption, Serialized
  <2>2. chainSeq =< seq
    BY <2>0, <2>1 DEF ChainBehind
  <2>3. \A d \in Mempool : slot[d] # seq
    <3> SUFFICES ASSUME NEW d \in Mempool PROVE slot[d] # seq
      OBVIOUS
    <3>1. d \in Calls /\ d \in Hashed
      BY <2>0, <2>1 DEF Mempool, SentIsKnown
    <3>2. slot[d] < seq /\ slot[d] \in Nat
      BY <3>1
    <3>3. QED BY <3>2
  <2>4. QED BY <2>2, <2>3 DEF SlotFree
<1>2. Spec => []RefusalInv
  BY RefusalInvInit, RefusalInvStep, SlotInvariance, PTL DEF Spec
<1>3. QED BY <1>1, <1>2, PTL

-----------------------------------------------------------------------------
(* The submitter hands out numbers exactly as the abstract allocator does: a call
   that returns with a hash is an allocation, a restart is a new allocator, and every
   other step is invisible to the callers. *)
THEOREM Refinement == Spec => ImplementsAllocator
<1> USE DEF Allocator!Unassigned
<1>1. Init => Allocator!Init
  BY DEF Init, Allocator!Init, Assigned, Hashed
<1>2. SlotInv /\ [Next]_vars => [Allocator!Next]_(Allocator!vars)
  <2> SUFFICES ASSUME SlotInv, [Next]_vars PROVE [Allocator!Next]_(Allocator!vars)
    OBVIOUS
  <2> USE DEF SlotInv, TypeOK, AccountTypeOK
  \* Steps no caller can see.
  <2>1. ASSUME Hashed' = Hashed, seq' = seq, \A d \in Hashed : slot'[d] = slot[d]
        PROVE  UNCHANGED Allocator!vars
    BY <2>1 DEF Allocator!vars, Assigned
  <2>2. ASSUME NEW c \in Calls, Call(c) \/ Lock(c) PROVE UNCHANGED Allocator!vars
    <3>1. Hashed' = Hashed
      BY <2>2 DEF Call, Lock, Hashed
    <3>2. QED BY <2>1, <2>2, <3>1 DEF Call, Lock, accountVars
  <2>3. ASSUME NEW c \in Calls, FetchInitialSeq(c) PROVE Allocator!Begin
    <3>1. Hashed = {} /\ Hashed' = {}
      BY <2>3 DEF FetchInitialSeq, Hashed
    <3>2. QED BY <2>3, <3>1 DEF FetchInitialSeq, Allocator!Begin, Assigned
  <2>4. ASSUME NEW c \in Calls, FetchFails(c) \/ BuildFails(c) \/ SubmitRefused(c)
        PROVE  UNCHANGED Allocator!vars
    <3>1. pc[c] = "locked" /\ Return(c, "error") /\ UNCHANGED accountVars
      BY <2>4 DEF FetchFails, BuildFails, SubmitRefused
    <3>2. Hashed' = Hashed /\ seq' = seq
      BY <3>1, ErrorAddsNoHash
    <3>3. QED BY <2>1, <3>1, <3>2 DEF accountVars
  <2>5. ASSUME NEW c \in Calls, SubmitAccepted(c) PROVE UNCHANGED Allocator!vars
    <3>1. Hashed' = Hashed /\ c \notin Hashed
      BY <2>5 DEF SubmitAccepted, Hashed
    <3>2. QED BY <2>1, <2>5, <3>1 DEF SubmitAccepted, Admit, Hashed
  <2>6. ASSUME NEW c \in Calls, SubmitReplyLost(c) PROVE UNCHANGED Allocator!vars
    <3>1. Hashed' = Hashed /\ seq' = seq /\ c \notin Hashed
      BY <2>6, ErrorAddsNoHash DEF SubmitReplyLost
    <3>2. QED BY <2>1, <2>6, <3>1 DEF SubmitReplyLost, Admit, Hashed
  <2>7. ASSUME NEW c \in Calls, Confirmed(c) \/ WaitTimesOut(c) PROVE Allocator!Allocate(c)
    <3>1. PICK r \in {"pending", "executed"} : Return(c, r)
      BY <2>7 DEF Confirmed, WaitTimesOut
    <3>2. pc[c] = "confirming" /\ slot' = slot /\ slot[c] = seq
      BY <2>7 DEF Confirmed, WaitTimesOut, accountVars
    <3>3. Hashed' = Hashed \cup {c} /\ c \notin Hashed /\ seq' = seq + 1
      BY <3>1, <3>2, HashAddsOne
    <3>4. Assigned' = [Assigned EXCEPT ![c] = seq]
      BY <3>2, <3>3 DEF Assigned
    <3>5. Assigned[c] = -1
      BY <3>3 DEF Assigned
    <3>6. QED BY <3>3, <3>4, <3>5 DEF Allocator!Allocate
  <2>8. ASSUME NEW c \in Calls, NodeStep(c) PROVE UNCHANGED Allocator!vars
    <3>1. UNCHANGED <<submitterVars, slot>>
      BY <2>8 DEF NodeStep, CommitTx, Evict
    <3>2. QED BY <2>1, <3>1 DEF submitterVars, Hashed
  <2>9. CASE Restart
    <3>1. Hashed' = {}
      BY <2>9 DEF Restart, Hashed
    <3>2. Allocator!Reset
      BY <2>9, <3>1 DEF Restart, Allocator!Reset, Assigned
    <3>3. QED BY <3>2 DEF Allocator!Next
  <2>10. CASE Quiescent \/ UNCHANGED vars
    BY <2>1, <2>10 DEF Quiescent, vars, submitterVars, accountVars, Hashed
  <2>11. QED
    BY <2>2, <2>3, <2>4, <2>5, <2>6, <2>7, <2>8, <2>9, <2>10
       DEF Next, Submit, Allocator!Next
<1>3. QED BY <1>1, <1>2, SlotInvariance, PTL DEF Spec, ImplementsAllocator, Allocator!Spec
=============================================================================
