------------------------------ MODULE SeqFolds ------------------------------
(***************************************************************************)
(* What the iterators of the grid bot do with a sequence (filter, fold,    *)
(* sum), as recursive functions over an index. The step of a fold is a     *)
(* function, of the pair of what was accumulated and the next element.     *)
(***************************************************************************)
EXTENDS Integers, Sequences

\* Iterator::filter: the elements of s that are in S, in their order.
Keep(s, S) ==
  LET kept[i \in 0 .. Len(s)] ==
        IF i = 0 THEN <<>>
        ELSE IF s[i] \in S THEN Append(kept[i - 1], s[i]) ELSE kept[i - 1]
  IN kept[Len(s)]

\* Iterator::fold
Fold(step, base, s) ==
  LET reached[i \in 0 .. Len(s)] == IF i = 0 THEN base ELSE step[<<reached[i - 1], s[i]>>]
  IN reached[Len(s)]

\* Iterator::sum
SumOf(s) == Fold([q \in Int \X Int |-> q[1] + q[2]], 0, s)

\* pow_decimal
Power(b, n) == Fold([q \in Int \X Int |-> q[1] * q[2]], 1, [i \in 1 .. n |-> b])
=============================================================================
