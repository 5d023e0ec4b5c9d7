--------------------------- MODULE SlotAllocator ---------------------------
(***************************************************************************)
(* What a sequence-number submitter promises its callers: numbers are      *)
(* handed out one at a time, each to one call, in order, and a call keeps  *)
(* the number it was given until the allocator starts anew.                *)
(***************************************************************************)
EXTENDS Integers

CONSTANT Calls

VARIABLES
  next,       \* the next number to hand out
  assigned    \* assigned[c]: the number of call c, or -1

vars == <<next, assigned>>

Unassigned == [c \in Calls |-> -1]

Init ==
  /\ next = 0
  /\ assigned = Unassigned

Allocate(c) ==
  /\ assigned[c] = -1
  /\ assigned' = [assigned EXCEPT ![c] = next]
  /\ next' = next + 1

\* The allocator learns where to start, which it may only do while nothing is assigned.
Begin ==
  /\ assigned = Unassigned
  /\ next' \in Nat
  /\ UNCHANGED assigned

\* The allocator is replaced by a new one.
Reset ==
  /\ next' = 0
  /\ assigned' = Unassigned

Next ==
  \/ \E c \in Calls : Allocate(c)
  \/ Begin
  \/ Reset

Spec == Init /\ [][Next]_vars
=============================================================================
