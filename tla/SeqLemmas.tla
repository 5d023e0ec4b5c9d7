------------------------------ MODULE SeqLemmas ------------------------------
(***************************************************************************)
(* Induction over an index, and what the folds of SeqFolds compute for     *)
(* every sequence.                                                         *)
(***************************************************************************)
EXTENDS SeqFolds, SequencesExt, SequenceTheorems, WellFoundedInduction, TLAPS

-----------------------------------------------------------------------------
(***************************************************************************)
(* Induction and recursion.                                                *)
(***************************************************************************)

(* A set of naturals that is not empty has a least element. A property holds of every natural if the
   set of those without it is empty, and the least of them would be a counterexample. *)
LEMMA LeastNatural ==
  ASSUME NEW T, T \subseteq Nat, T # {}
  PROVE  \E n \in T : \A m \in T : n <= m
<1>1. PICK n \in T : \A m \in T : ~(<<m, n>> \in OpToRel(<, Nat))
  BY NatLessThanWellFounded, WFMin
<1>2. ASSUME NEW m \in T PROVE n <= m
  <2>1. ~(<<m, n>> \in OpToRel(<, Nat))
    BY <1>1
  <2>2. m \in Nat /\ n \in Nat
    OBVIOUS
  <2>3. ~(m < n)
    BY <2>1, <2>2 DEF OpToRel
  <2>4. QED BY <2>2, <2>3
<1>3. QED BY <1>2

(* Induction along an index: a set of indices with 0, and with i + 1 where it has i, has them all. *)
LEMMA Induction ==
  ASSUME NEW n \in Nat, NEW P, 0 \in P, \A i \in 0 .. n - 1 : i \in P => i + 1 \in P
  PROVE  0 .. n \subseteq P
<1> SUFFICES ASSUME NEW k \in 0 .. n, k \notin P PROVE FALSE
  OBVIOUS
<1> DEFINE T == {i \in 0 .. n : i \notin P}
<1>1. T \subseteq Nat /\ k \in T
  OBVIOUS
<1>2. PICK m \in T : \A i \in T : m <= i
  BY <1>1, LeastNatural
<1>3. m \in 1 .. n /\ m \notin P
  BY <1>2
<1>4. m - 1 \in 0 .. n - 1 /\ ~(m <= m - 1)
  BY <1>3
<1>5. m - 1 \in P
  BY <1>2, <1>4
<1>6. (m - 1) + 1 \in P
  BY <1>4, <1>5
<1>7. (m - 1) + 1 = m
  BY <1>3
<1>8. QED BY <1>3, <1>6, <1>7

Solves(f, n, base, step) == f[0] = base /\ \A i \in 1 .. n : f[i] = step[<<i, f[i - 1]>>]

(* A recursion along an index whose step is a function has a solution. *)
LEMMA Recursion ==
  ASSUME NEW n \in Nat, NEW Acc, NEW base \in Acc, NEW step \in [(1 .. n) \X Acc -> Acc]
  PROVE  \E f \in [0 .. n -> Acc] : Solves(f, n, base, step)
<1> DEFINE Solved(k, f) == f[0] = base /\ \A i \in 1 .. k : f[i] = step[<<i, f[i - 1]>>]
           P == {k \in 0 .. n : \E f \in [0 .. k -> Acc] : Solved(k, f)}
<1>1. 0 \in P
  <2> DEFINE f == [i \in 0 .. 0 |-> base]
  <2>1. f \in [0 .. 0 -> Acc] /\ Solved(0, f)
    OBVIOUS
  <2> HIDE DEF f
  <2>2. QED BY <2>1
<1>2. ASSUME NEW k \in 0 .. n - 1, k \in P PROVE k + 1 \in P
  <2>1. PICK f \in [0 .. k -> Acc] : Solved(k, f)
    BY <1>2
  <2> DEFINE v == step[<<k + 1, f[k]>>]
             g == [i \in 0 .. k + 1 |-> IF i = k + 1 THEN v ELSE f[i]]
  <2>2. v \in Acc
    <3>1. k + 1 \in 1 .. n /\ f[k] \in Acc
      OBVIOUS
    <3>2. <<k + 1, f[k]>> \in (1 .. n) \X Acc
      BY <3>1
    <3>3. QED BY <3>2
  <2>3. g \in [0 .. k + 1 -> Acc]
    <3> HIDE DEF v
    <3>1. ASSUME NEW i \in 0 .. k + 1, i # k + 1 PROVE f[i] \in Acc
      <4>1. i \in 0 .. k
        BY <3>1
      <4>2. QED BY <4>1
    <3>2. QED BY <2>2, <3>1
  <2>4. g[0] = base
    BY <2>1
  <2>5. ASSUME NEW i \in 1 .. k + 1 PROVE g[i] = step[<<i, g[i - 1]>>]
    <3>1. i - 1 \in 0 .. k + 1 /\ i - 1 # k + 1
      OBVIOUS
    <3>2. g[i - 1] = f[i - 1]
      BY <3>1
    <3>3. CASE i = k + 1
      <4>1. i - 1 = k /\ g[i] = v
        BY <3>3
      <4>2. QED BY <3>2, <3>3, <4>1
    <3>4. CASE i # k + 1
      <4>1. i \in 1 .. k /\ g[i] = f[i]
        BY <3>4
      <4>2. QED BY <2>1, <3>2, <4>1
    <3>5. QED BY <3>3, <3>4
  <2> HIDE DEF g
  <2>6. k + 1 \in 0 .. n
    OBVIOUS
  <2>7. QED BY <2>3, <2>4, <2>5, <2>6
<1>3. n \in P
  <2> HIDE DEF P
  <2>1. 0 .. n \subseteq P
    BY <1>1, <1>2, Induction
  <2>2. QED BY <2>1
<1>4. QED BY <1>3 DEF Solves

(* Induction along a sequence: a set with the empty one, and with s followed by e where it has s, has
   every sequence. *)
LEMMA SequenceInduction ==
  ASSUME NEW T, NEW P, <<>> \in P, \A s \in Seq(T), e \in T : s \in P => Append(s, e) \in P
  PROVE  Seq(T) \subseteq P
<1> SUFFICES ASSUME NEW s \in Seq(T) PROVE s \in P
  OBVIOUS
<1> DEFINE Q == {i \in 0 .. Len(s) : SubSeq(s, 1, i) \in P}
<1>1. 0 \in Q
  <2>1. SubSeq(s, 1, 0) = <<>> /\ 0 \in 0 .. Len(s)
    BY SubSeqEmpty
  <2>2. SubSeq(s, 1, 0) \in P
    BY <2>1
  <2>3. QED BY <2>1, <2>2
<1>2. ASSUME NEW i \in 0 .. Len(s) - 1, i \in Q PROVE i + 1 \in Q
  <2> DEFINE t == SubSeq(s, 1, i)
             u == SubSeq(s, 1, i + 1)
  <2>1. i + 1 \in 1 .. Len(s) /\ 1 \in 1 .. i + 1 /\ 1 \in 1 .. Len(s) /\ s[i + 1] \in T
    OBVIOUS
  <2>2. t \in Seq(T)
    OBVIOUS
  <2>3. u = t \o <<s[i + 1]>>
    <3>1. SubSeq(s, 1, i + 1) = SubSeq(s, 1, (i + 1) - 1) \o <<s[i + 1]>>
      BY <2>1, SubSeqRecursiveSecond
    <3>2. (i + 1) - 1 = i
      OBVIOUS
    <3>3. QED BY <3>1, <3>2
  <2>4. Append(t, s[i + 1]) = t \o <<s[i + 1]>>
    BY <2>1, <2>2, AppendIsConcat
  <2>5. u \in P
    <3>1. t \in P
      BY <1>2
    <3> HIDE DEF t, u
    <3>2. Append(t, s[i + 1]) \in P
      BY <2>1, <2>2, <3>1
    <3>3. QED BY <2>3, <2>4, <3>2
  <2>6. i + 1 \in 0 .. Len(s)
    BY <2>1
  <2>7. QED BY <2>5, <2>6
<1>3. Len(s) \in Q
  <2>1. Len(s) \in Nat
    OBVIOUS
  <2> HIDE DEF Q
  <2>2. 0 .. Len(s) \subseteq Q
    BY <1>1, <1>2, <2>1, Induction
  <2>3. QED BY <2>1, <2>2
<1>4. SubSeq(s, 1, Len(s)) = s
  BY SubSeqFull
<1>5. QED BY <1>3, <1>4

-----------------------------------------------------------------------------
(***************************************************************************)
(* Keep.                                                                   *)
(***************************************************************************)

KeepsAlong(kept, s, S) ==
  /\ kept[0] = <<>>
  /\ \A i \in 1 .. Len(s) :
       kept[i] = IF s[i] \in S THEN Append(kept[i - 1], s[i]) ELSE kept[i - 1]

(* The recursion that defines Keep has a solution. *)
LEMMA KeepRecursion ==
  ASSUME NEW T, NEW s \in Seq(T), NEW S
  PROVE  \E kept \in [0 .. Len(s) -> Seq(T)] : KeepsAlong(kept, s, S) /\ Keep(s, S) = kept[Len(s)]
<1> DEFINE n == Len(s)
           step == [q \in (1 .. n) \X Seq(T) |-> IF s[q[1]] \in S THEN Append(q[2], s[q[1]]) ELSE q[2]]
           F(f) == [i \in 0 .. n |->
                      IF i = 0 THEN <<>>
                      ELSE IF s[i] \in S THEN Append(f[i - 1], s[i]) ELSE f[i - 1]]
           k == CHOOSE f : f = F(f)
<1>0. n \in Nat /\ <<>> \in Seq(T)
  OBVIOUS
<1>1. step \in [(1 .. n) \X Seq(T) -> Seq(T)]
  <2>1. ASSUME NEW q \in (1 .. n) \X Seq(T)
        PROVE  (IF s[q[1]] \in S THEN Append(q[2], s[q[1]]) ELSE q[2]) \in Seq(T)
    <3>1. q[1] \in 1 .. n /\ q[2] \in Seq(T)
      OBVIOUS
    <3>2. s[q[1]] \in T
      BY <3>1
    <3>3. QED BY <3>1, <3>2
  <2>2. QED BY <2>1
<1> HIDE DEF step
<1>2. PICK f \in [0 .. n -> Seq(T)] : f[0] = <<>> /\ \A i \in 1 .. n : f[i] = step[<<i, f[i - 1]>>]
  <2> DEFINE base == <<>>
             Acc == Seq(T)
  <2>1. base \in Acc /\ step \in [(1 .. n) \X Acc -> Acc]
    BY <1>0, <1>1
  <2> HIDE DEF n, base, Acc
  <2>2. \E f \in [0 .. n -> Acc] : Solves(f, n, base, step)
    BY <1>0, <2>1, Recursion
  <2>3. QED BY <2>2 DEF base, Acc, Solves
<1>3. ASSUME NEW i \in 1 .. n
      PROVE  f[i] = IF s[i] \in S THEN Append(f[i - 1], s[i]) ELSE f[i - 1]
  <2>1. i - 1 \in 0 .. n
    BY <1>0
  <2>2. f[i - 1] \in Seq(T)
    BY <2>1
  <2>3. <<i, f[i - 1]>> \in (1 .. n) \X Seq(T)
    BY <2>2
  <2>4. step[<<i, f[i - 1]>>] = IF s[i] \in S THEN Append(f[i - 1], s[i]) ELSE f[i - 1]
    BY <2>3 DEF step
  <2>5. QED BY <1>2, <2>4
<1>4. f = F(f)
  <2>1. ASSUME NEW i \in 0 .. n PROVE f[i] = F(f)[i]
    <3>1. CASE i = 0
      BY <1>2, <3>1
    <3>2. CASE i # 0
      <4>1. i \in 1 .. n
        BY <1>0, <3>2
      <4>2. F(f)[i] = IF s[i] \in S THEN Append(f[i - 1], s[i]) ELSE f[i - 1]
        BY <3>2
      <4>3. QED BY <1>3, <4>1, <4>2
    <3>3. QED BY <3>1, <3>2
  <2>2. QED BY <2>1
<1>5. k = F(k)
  BY <1>4
<1>6. Keep(s, S) = k[n]
  BY DEF Keep
<1> HIDE DEF k
<1>7. k[0] = <<>>
  BY <1>0, <1>5
<1>8. ASSUME NEW i \in 1 .. n
      PROVE  k[i] = IF s[i] \in S THEN Append(k[i - 1], s[i]) ELSE k[i - 1]
  <2>1. i \in 0 .. n /\ i # 0
    BY <1>0
  <2>2. F(k)[i] = IF s[i] \in S THEN Append(k[i - 1], s[i]) ELSE k[i - 1]
    BY <2>1
  <2>3. QED BY <1>5, <2>2
<1>9. k \in [0 .. n -> Seq(T)]
  <2> DEFINE P == {i \in 0 .. n : k[i] = f[i]}
  <2>1. 0 \in P
    BY <1>0, <1>2, <1>7
  <2>2. ASSUME NEW i \in 0 .. n - 1, i \in P PROVE i + 1 \in P
    <3>1. i + 1 \in 1 .. n /\ (i + 1) - 1 = i
      BY <1>0
    <3>2. QED BY <1>3, <1>8, <2>2, <3>1
  <2>3. 0 .. n \subseteq P
    <3> HIDE DEF P, n
    <3>1. QED BY <1>0, <2>1, <2>2, Induction
  <2>4. \A i \in 0 .. n : k[i] \in Seq(T)
    BY <2>3
  <2>5. k = [i \in 0 .. n |-> k[i]]
    BY <1>5
  <2>6. QED BY <2>4, <2>5
<1>10. KeepsAlong(k, s, S)
  BY <1>7, <1>8 DEF KeepsAlong
<1>11. QED BY <1>6, <1>9, <1>10

LEMMA KeepEmpty == ASSUME NEW S PROVE Keep(<<>>, S) = <<>>
<1> DEFINE s == <<>>
<1>1. s \in Seq({}) /\ Len(s) = 0
  OBVIOUS
<1> HIDE DEF s
<1>2. PICK kept \in [0 .. Len(s) -> Seq({})] : KeepsAlong(kept, s, S) /\ Keep(s, S) = kept[Len(s)]
  BY <1>1, KeepRecursion
<1>3. QED BY <1>1, <1>2 DEF s, KeepsAlong

(* One more element is one more where it is wanted. *)
LEMMA KeepAppend ==
  ASSUME NEW T, NEW s \in Seq(T), NEW e \in T, NEW S
  PROVE  Keep(Append(s, e), S) = IF e \in S THEN Append(Keep(s, S), e) ELSE Keep(s, S)
<1> DEFINE n == Len(s)
           t == Append(s, e)
<1>1. n \in Nat /\ t \in Seq(T) /\ Len(t) = n + 1 /\ t[n + 1] = e /\ \A i \in 1 .. n : t[i] = s[i]
  OBVIOUS
<1>2. PICK f \in [0 .. n -> Seq(T)] : KeepsAlong(f, s, S) /\ Keep(s, S) = f[n]
  BY KeepRecursion
<1>3. PICK g \in [0 .. Len(t) -> Seq(T)] : KeepsAlong(g, t, S) /\ Keep(t, S) = g[Len(t)]
  <2> HIDE DEF t
  <2>1. QED BY <1>1, KeepRecursion
<1> DEFINE P == {i \in 0 .. n : f[i] = g[i]}
<1> HIDE DEF t, n
<1>4. 0 \in P
  BY <1>1, <1>2, <1>3 DEF KeepsAlong
<1>5. ASSUME NEW i \in 0 .. n - 1, i \in P PROVE i + 1 \in P
  <2>1. i + 1 \in 1 .. n /\ i + 1 \in 1 .. Len(t) /\ (i + 1) - 1 = i /\ t[i + 1] = s[i + 1] /\ i + 1 \in 0 .. n
    BY <1>1
  <2>2. f[i + 1] = IF s[i + 1] \in S THEN Append(f[i], s[i + 1]) ELSE f[i]
    BY <1>2, <2>1 DEF KeepsAlong, n
  <2>3. g[i + 1] = IF t[i + 1] \in S THEN Append(g[i], t[i + 1]) ELSE g[i]
    BY <1>3, <2>1 DEF KeepsAlong
  <2>4. QED BY <1>5, <2>1, <2>2, <2>3
<1>6. f[n] = g[n]
  <2> HIDE DEF P
  <2>1. 0 .. n \subseteq P
    BY <1>1, <1>4, <1>5, Induction
  <2>2. QED BY <1>1, <2>1 DEF P
<1>7. g[n + 1] = IF t[n + 1] \in S THEN Append(g[n], t[n + 1]) ELSE g[n]
  <2>1. n + 1 \in 1 .. Len(t) /\ (n + 1) - 1 = n
    BY <1>1
  <2>2. QED BY <1>3, <2>1 DEF KeepsAlong
<1>8. QED BY <1>1, <1>2, <1>3, <1>6, <1>7 DEF t

(* What is kept is wanted and was there. *)
LEMMA KeepType ==
  ASSUME NEW T, NEW S
  PROVE  \A s \in Seq(T) : Keep(s, S) \in Seq(T \cap S)
<1> DEFINE P == {s \in Seq(T) : Keep(s, S) \in Seq(T \cap S)}
<1>1. <<>> \in P
  <2>1. <<>> \in Seq(T) /\ <<>> \in Seq(T \cap S)
    OBVIOUS
  <2>2. Keep(<<>>, S) \in Seq(T \cap S)
    BY <2>1, KeepEmpty
  <2>3. QED BY <2>1, <2>2
<1>2. ASSUME NEW s \in Seq(T), NEW e \in T, s \in P PROVE Append(s, e) \in P
  <2>1. Append(s, e) \in Seq(T)
    OBVIOUS
  <2>2. Keep(Append(s, e), S) = IF e \in S THEN Append(Keep(s, S), e) ELSE Keep(s, S)
    BY KeepAppend
  <2>3. e \in S => Append(Keep(s, S), e) \in Seq(T \cap S)
    BY <1>2
  <2>4. QED BY <1>2, <2>1, <2>2, <2>3
<1> HIDE DEF P
<1>3. Seq(T) \subseteq P
  BY <1>1, <1>2, SequenceInduction
<1>4. QED BY <1>3 DEF P

(* What two sequences keep, one after the other, is what they keep together. *)
LEMMA KeepConcat ==
  ASSUME NEW T, NEW S, NEW s \in Seq(T)
  PROVE  \A t \in Seq(T) : Keep(s \o t, S) = Keep(s, S) \o Keep(t, S)
<1> DEFINE P == {t \in Seq(T) : Keep(s \o t, S) = Keep(s, S) \o Keep(t, S)}
<1>0. ASSUME NEW t \in Seq(T) PROVE Keep(t, S) \in Seq(T)
  <2>1. Keep(t, S) \in Seq(T \cap S)
    BY KeepType
  <2>2. QED BY <2>1
<1>1. <<>> \in P
  <2>1. s \o <<>> = s /\ Keep(s, S) \o <<>> = Keep(s, S)
    BY <1>0
  <2>2. Keep(s \o <<>>, S) = Keep(s, S) \o Keep(<<>>, S)
    <3>1. Keep(<<>>, S) = <<>>
      BY KeepEmpty
    <3>2. QED BY <2>1, <3>1
  <2>3. <<>> \in Seq(T)
    OBVIOUS
  <2>4. QED BY <2>2, <2>3
<1>2. ASSUME NEW t \in Seq(T), NEW e \in T, t \in P PROVE Append(t, e) \in P
  <2>1. s \o Append(t, e) = Append(s \o t, e) /\ s \o t \in Seq(T) /\ Append(t, e) \in Seq(T)
    OBVIOUS
  <2>2. Keep(Append(s \o t, e), S) = IF e \in S THEN Append(Keep(s \o t, S), e) ELSE Keep(s \o t, S)
    BY <2>1, KeepAppend
  <2>3. Keep(Append(t, e), S) = IF e \in S THEN Append(Keep(t, S), e) ELSE Keep(t, S)
    BY KeepAppend
  <2>4. Keep(s, S) \o Append(Keep(t, S), e) = Append(Keep(s, S) \o Keep(t, S), e)
    BY <1>0
  <2>5. Keep(s \o t, S) = Keep(s, S) \o Keep(t, S)
    BY <1>2
  <2>6. Keep(s \o Append(t, e), S) = Keep(s, S) \o Keep(Append(t, e), S)
    BY <2>1, <2>2, <2>3, <2>4, <2>5
  <2>7. QED BY <2>1, <2>6
<1> HIDE DEF P
<1>3. Seq(T) \subseteq P
  BY <1>1, <1>2, SequenceInduction
<1>4. QED BY <1>3 DEF P

(* Where nothing is wanted nothing is kept. *)
LEMMA KeepNone ==
  ASSUME NEW T, NEW S
  PROVE  \A s \in Seq(T) : Range(s) \cap S = {} => Keep(s, S) = <<>>
<1> SUFFICES ASSUME NEW s \in Seq(T), Range(s) \cap S = {} PROVE Keep(s, S) = <<>>
  OBVIOUS
<1>1. s \in Seq(Range(s))
  BY SeqOfRange
<1>2. Keep(s, S) \in Seq(Range(s) \cap S)
  BY <1>1, KeepType
<1>3. QED BY <1>2

-----------------------------------------------------------------------------
(***************************************************************************)
(* Sequences of sequences, one after the other.                            *)
(***************************************************************************)
LEMMA FlattenEmpty == FlattenSeq(<<>>) = <<>>
  BY DEF FlattenSeq

JoinsAlong(f, ss) ==
  /\ f[0] = <<>>
  /\ \A i \in 1 .. Len(ss) : f[i] = f[i - 1] \o ss[i]

(* The recursion that defines FlattenSeq has a solution. *)
LEMMA FlattenRecursion ==
  ASSUME NEW T, NEW ss \in Seq(Seq(T))
  PROVE  \E f \in [0 .. Len(ss) -> Seq(T)] : JoinsAlong(f, ss) /\ FlattenSeq(ss) = f[Len(ss)]
<1> DEFINE n == Len(ss)
           Acc == Seq(T)
           base == <<>>
           step == [q \in (1 .. n) \X Acc |-> q[2] \o ss[q[1]]]
           F(f) == [i \in 1 .. n |-> IF i = 1 THEN ss[i] ELSE f[i - 1] \o ss[i]]
           k == CHOOSE f : f = F(f)
<1>0. n \in Nat /\ base \in Acc
  OBVIOUS
<1>1. step \in [(1 .. n) \X Acc -> Acc]
  <2>1. ASSUME NEW q \in (1 .. n) \X Acc PROVE q[2] \o ss[q[1]] \in Acc
    <3>1. q[1] \in 1 .. n /\ q[2] \in Seq(T)
      OBVIOUS
    <3>2. ss[q[1]] \in Seq(T)
      BY <3>1
    <3>3. QED BY <3>1, <3>2
  <2>2. QED BY <2>1
<1>2. PICK f \in [0 .. n -> Acc] : Solves(f, n, base, step)
  <2> HIDE DEF n, base, Acc, step
  <2>1. QED BY <1>0, <1>1, Recursion
<1>3. f[0] = <<>>
  BY <1>2 DEF Solves
<1>4. ASSUME NEW i \in 1 .. n PROVE f[i] = f[i - 1] \o ss[i] /\ f[i - 1] \in Seq(T) /\ ss[i] \in Seq(T)
  <2>1. i - 1 \in 0 .. n
    BY <1>0
  <2>2. f[i - 1] \in Seq(T)
    BY <2>1
  <2>3. <<i, f[i - 1]>> \in (1 .. n) \X Acc
    BY <2>2
  <2>4. step[<<i, f[i - 1]>>] = f[i - 1] \o ss[i]
    BY <2>3
  <2>5. f[i] = step[<<i, f[i - 1]>>]
    <3> HIDE DEF step
    <3>1. QED BY <1>2 DEF Solves
  <2>6. ss[i] \in Seq(T)
    OBVIOUS
  <2>7. f[i] = f[i - 1] \o ss[i]
    BY <2>4, <2>5
  <2>8. QED BY <2>2, <2>6, <2>7
<1>5. JoinsAlong(f, ss)
  BY <1>3, <1>4 DEF JoinsAlong
<1>6. FlattenSeq(ss) = f[n]
  <2>1. CASE n = 0
    <3>1. ss = <<>>
      BY <2>1
    <3>2. QED BY <1>3, <2>1, <3>1, FlattenEmpty
  <2>2. CASE n # 0
    <3> DEFINE h == [i \in 1 .. n |-> f[i]]
    <3>1. ASSUME NEW i \in 1 .. n PROVE h[i] = F(h)[i]
      <4>1. CASE i = 1
        <5>1. f[1] = f[0] \o ss[1] /\ ss[1] \in Seq(T)
          <6>1. 1 - 1 = 0
            OBVIOUS
          <6>2. QED BY <1>4, <4>1, <6>1
        <5>2. <<>> \o ss[1] = ss[1]
          BY <5>1
        <5>3. QED BY <1>3, <4>1, <5>1, <5>2
      <4>2. CASE i # 1
        <5>1. i - 1 \in 1 .. n
          BY <1>0, <4>2
        <5>2. QED BY <1>4, <4>2, <5>1
      <4>3. QED BY <4>1, <4>2
    <3>2. h = F(h)
      BY <3>1
    <3>3. k = F(k)
      BY <3>2
    <3> DEFINE P == {i \in 0 .. n : i = 0 \/ k[i] = f[i]}
    <3>4. FlattenSeq(ss) = k[n]
      BY <2>2 DEF FlattenSeq
    <3> HIDE DEF k, h
    <3>5. ASSUME NEW i \in 0 .. n - 1, i \in P PROVE i + 1 \in P
      <4>1. i + 1 \in 1 .. n /\ (i + 1) - 1 = i /\ i + 1 \in 0 .. n
        BY <1>0
      <4>2. k[i + 1] = IF i + 1 = 1 THEN ss[i + 1] ELSE k[(i + 1) - 1] \o ss[i + 1]
        BY <3>3, <4>1
      <4>3. f[i + 1] = f[i] \o ss[i + 1] /\ ss[i + 1] \in Seq(T)
        BY <1>4, <4>1
      <4>4. CASE i = 0
        <5>1. <<>> \o ss[i + 1] = ss[i + 1]
          BY <4>3
        <5>2. f[i + 1] = ss[i + 1]
          BY <1>3, <4>3, <4>4, <5>1
        <5>3. k[i + 1] = ss[i + 1]
          BY <4>2, <4>4
        <5>4. QED BY <4>1, <5>2, <5>3
      <4>5. CASE i # 0
        <5>1. k[i] = f[i] /\ i + 1 # 1
          BY <3>5, <4>1, <4>5
        <5>2. QED BY <4>1, <4>2, <4>3, <5>1
      <4>6. QED BY <4>4, <4>5
    <3>6. 0 \in P
      BY <1>0
    <3>7. n \in P
      <4> HIDE DEF P, n
      <4>1. 0 .. n \subseteq P
        BY <1>0, <3>5, <3>6, Induction
      <4>2. QED BY <1>0, <4>1
    <3>8. QED BY <2>2, <3>4, <3>7
  <2>3. QED BY <2>1, <2>2
<1>7. QED BY <1>5, <1>6

LEMMA FlattenType == ASSUME NEW T PROVE \A ss \in Seq(Seq(T)) : FlattenSeq(ss) \in Seq(T)
<1> SUFFICES ASSUME NEW ss \in Seq(Seq(T)) PROVE FlattenSeq(ss) \in Seq(T)
  OBVIOUS
<1>1. PICK f \in [0 .. Len(ss) -> Seq(T)] : FlattenSeq(ss) = f[Len(ss)]
  BY FlattenRecursion
<1>2. Len(ss) \in 0 .. Len(ss)
  OBVIOUS
<1>3. QED BY <1>1, <1>2

(* One more sequence goes to the end. *)
LEMMA FlattenAppend ==
  ASSUME NEW T, NEW ss \in Seq(Seq(T)), NEW s \in Seq(T)
  PROVE  FlattenSeq(Append(ss, s)) = FlattenSeq(ss) \o s
<1> DEFINE n == Len(ss)
           tt == Append(ss, s)
<1>1. /\ n \in Nat /\ tt \in Seq(Seq(T)) /\ Len(tt) = n + 1 /\ tt[n + 1] = s
      /\ \A i \in 1 .. n : tt[i] = ss[i]
  OBVIOUS
<1>2. PICK f \in [0 .. n -> Seq(T)] : JoinsAlong(f, ss) /\ FlattenSeq(ss) = f[n]
  BY FlattenRecursion
<1>3. PICK g \in [0 .. Len(tt) -> Seq(T)] : JoinsAlong(g, tt) /\ FlattenSeq(tt) = g[Len(tt)]
  <2> HIDE DEF tt
  <2>1. QED BY <1>1, FlattenRecursion
<1> DEFINE P == {i \in 0 .. n : f[i] = g[i]}
<1> HIDE DEF tt, n
<1>4. 0 \in P
  BY <1>1, <1>2, <1>3 DEF JoinsAlong
<1>5. ASSUME NEW i \in 0 .. n - 1, i \in P PROVE i + 1 \in P
  <2>1. i + 1 \in 1 .. n /\ i + 1 \in 1 .. Len(tt) /\ (i + 1) - 1 = i /\ tt[i + 1] = ss[i + 1] /\ i + 1 \in 0 .. n
    BY <1>1
  <2>2. f[i + 1] = f[i] \o ss[i + 1]
    BY <1>2, <2>1 DEF JoinsAlong, n
  <2>3. g[i + 1] = g[i] \o tt[i + 1]
    BY <1>3, <2>1 DEF JoinsAlong
  <2>4. QED BY <1>5, <2>1, <2>2, <2>3
<1>6. f[n] = g[n]
  <2> HIDE DEF P
  <2>1. 0 .. n \subseteq P
    BY <1>1, <1>4, <1>5, Induction
  <2>2. QED BY <1>1, <2>1 DEF P
<1>7. g[n + 1] = g[n] \o tt[n + 1]
  <2>1. n + 1 \in 1 .. Len(tt) /\ (n + 1) - 1 = n
    BY <1>1
  <2>2. QED BY <1>3, <2>1 DEF JoinsAlong
<1>8. QED BY <1>1, <1>2, <1>3, <1>6, <1>7 DEF tt

(* The first sequence comes first. *)
LEMMA FlattenFirst ==
  ASSUME NEW T
  PROVE  \A ss \in Seq(Seq(T)) : ss # <<>> => FlattenSeq(ss) = Head(ss) \o FlattenSeq(Tail(ss))
<1> DEFINE First(ss) == ss # <<>> => FlattenSeq(ss) = Head(ss) \o FlattenSeq(Tail(ss))
           P == {ss \in Seq(Seq(T)) : First(ss)}
<1>1. <<>> \in P
  OBVIOUS
<1>2. ASSUME NEW ss \in Seq(Seq(T)), NEW s \in Seq(T), ss \in P PROVE Append(ss, s) \in P
  <2> DEFINE tt == Append(ss, s)
  <2>1. tt \in Seq(Seq(T))
    OBVIOUS
  <2>2. FlattenSeq(tt) = FlattenSeq(ss) \o s
    BY FlattenAppend
  <2>3. CASE ss = <<>>
    <3>1. Head(tt) = s /\ Tail(tt) = <<>>
      BY <2>3
    <3>2. <<>> \o s = s /\ s \o <<>> = s
      OBVIOUS
    <3>3. FlattenSeq(tt) = <<>> \o s /\ FlattenSeq(Tail(tt)) = <<>>
      BY <2>2, <2>3, <3>1, FlattenEmpty
    <3>4. First(tt)
      <4> HIDE DEF tt
      <4>1. QED BY <3>1, <3>2, <3>3
    <3>5. QED BY <2>1, <3>4
  <2>4. CASE ss # <<>>
    <3>1. Head(tt) = Head(ss) /\ Tail(tt) = Append(Tail(ss), s) /\ Tail(ss) \in Seq(Seq(T)) /\ Head(ss) \in Seq(T)
      BY <2>4
    <3>2. FlattenSeq(Append(Tail(ss), s)) = FlattenSeq(Tail(ss)) \o s
      BY <3>1, FlattenAppend
    <3>3. FlattenSeq(ss) = Head(ss) \o FlattenSeq(Tail(ss))
      BY <1>2, <2>4
    <3>4. FlattenSeq(Tail(ss)) \in Seq(T)
      BY <3>1, FlattenType
    <3>5. PICK first \in Seq(T), rest \in Seq(T) : first = Head(ss) /\ rest = FlattenSeq(Tail(ss))
      BY <3>1, <3>4
    <3>6. (first \o rest) \o s = first \o (rest \o s)
      BY ConcatAssociative
    <3>7. FlattenSeq(tt) = Head(tt) \o FlattenSeq(Tail(tt))
      <4> HIDE DEF tt
      <4>1. QED BY <2>2, <3>1, <3>2, <3>3, <3>5, <3>6
    <3>8. QED BY <2>1, <3>7
  <2>5. QED BY <2>3, <2>4
<1> HIDE DEF P
<1>3. Seq(Seq(T)) \subseteq P
  BY <1>1, <1>2, SequenceInduction
<1>4. QED BY <1>3 DEF P

\* One sequence after another, as an operator of its own for the provers.
Cat(s, t) == s \o t

LEMMA Associativity ==
  ASSUME NEW T
  PROVE  /\ \A x, y, z \in Seq(T) : Cat(Cat(x, y), z) = Cat(x, Cat(y, z))
         /\ \A x, y \in Seq(T) : Cat(x, y) \in Seq(T)
         /\ \A x \in Seq(T) : Cat(x, <<>>) = x
<1>1. ASSUME NEW x \in Seq(T), NEW y \in Seq(T), NEW z \in Seq(T)
      PROVE  Cat(Cat(x, y), z) = Cat(x, Cat(y, z))
  BY ConcatAssociative DEF Cat
<1>2. \A x, y \in Seq(T) : Cat(x, y) \in Seq(T)
  BY DEF Cat
<1>3. \A x \in Seq(T) : Cat(x, <<>>) = x
  BY DEF Cat
<1>4. QED BY <1>1, <1>2, <1>3

(* Where the parentheses of several sequences are does not matter. *)
LEMMA Regroup ==
  ASSUME NEW T, NEW a \in Seq(T), NEW b \in Seq(T), NEW c \in Seq(T), NEW d \in Seq(T), NEW e \in Seq(T)
  PROVE  /\ Cat(Cat(Cat(a, b), c), d) = Cat(Cat(Cat(a, b), <<>>), Cat(c, d))
         /\ Cat(Cat(Cat(Cat(a, b), c), d), e) = Cat(Cat(Cat(a, Cat(b, c)), d), e)
         /\ Cat(Cat(Cat(Cat(a, b), c), d), e) = Cat(Cat(Cat(a, b), Cat(c, d)), e)
         /\ Cat(Cat(Cat(a, b), c), Cat(d, e)) = Cat(Cat(Cat(Cat(a, b), c), d), e)
<1> DEFINE ab == Cat(a, b)
           abc == Cat(ab, c)
<1>1. ab \in Seq(T) /\ abc \in Seq(T)
  BY Associativity
<1>2. /\ Cat(Cat(a, b), c) = Cat(a, Cat(b, c))
      /\ Cat(Cat(ab, c), d) = Cat(ab, Cat(c, d))
      /\ Cat(Cat(abc, d), e) = Cat(abc, Cat(d, e))
      /\ Cat(ab, <<>>) = ab
  BY <1>1, Associativity
<1>3. QED BY <1>2

-----------------------------------------------------------------------------
(***************************************************************************)
(* Fold.                                                                   *)
(***************************************************************************)
Leads(step, Acc, T) == \A a \in Acc, e \in T : step[<<a, e>>] \in Acc

FoldsAlong(f, step, base, s) == f[0] = base /\ \A i \in 1 .. Len(s) : f[i] = step[<<f[i - 1], s[i]>>]

(* The recursion that defines Fold has a solution. *)
LEMMA FoldRecursion ==
  ASSUME NEW T, NEW Acc, NEW base \in Acc, NEW step, Leads(step, Acc, T), NEW s \in Seq(T)
  PROVE  \E f \in [0 .. Len(s) -> Acc] : FoldsAlong(f, step, base, s) /\ Fold(step, base, s) = f[Len(s)]
<1> DEFINE n == Len(s)
           turn == [q \in (1 .. n) \X Acc |-> step[<<q[2], s[q[1]]>>]]
           F(f) == [i \in 0 .. n |-> IF i = 0 THEN base ELSE step[<<f[i - 1], s[i]>>]]
           k == CHOOSE f : f = F(f)
<1>0. n \in Nat /\ \A i \in 1 .. n : s[i] \in T
  OBVIOUS
<1>1. turn \in [(1 .. n) \X Acc -> Acc]
  <2>1. ASSUME NEW q \in (1 .. n) \X Acc PROVE step[<<q[2], s[q[1]]>>] \in Acc
    <3>1. q[1] \in 1 .. n /\ q[2] \in Acc
      OBVIOUS
    <3>2. s[q[1]] \in T
      BY <1>0, <3>1
    <3>3. QED BY <3>1, <3>2 DEF Leads
  <2>2. QED BY <2>1
<1>2. PICK f \in [0 .. n -> Acc] : Solves(f, n, base, turn)
  <2> HIDE DEF n, turn
  <2>1. QED BY <1>0, <1>1, Recursion
<1>3. f[0] = base
  BY <1>2 DEF Solves
<1>4. ASSUME NEW i \in 1 .. n PROVE f[i] = step[<<f[i - 1], s[i]>>]
  <2>1. i - 1 \in 0 .. n
    BY <1>0
  <2>2. f[i - 1] \in Acc
    BY <2>1
  <2>3. <<i, f[i - 1]>> \in (1 .. n) \X Acc
    BY <2>2
  <2>4. turn[<<i, f[i - 1]>>] = step[<<f[i - 1], s[i]>>]
    BY <2>3
  <2>5. f[i] = turn[<<i, f[i - 1]>>]
    <3> HIDE DEF turn
    <3>1. QED BY <1>2 DEF Solves
  <2>6. QED BY <2>4, <2>5
<1>5. f = F(f)
  <2>1. ASSUME NEW i \in 0 .. n PROVE f[i] = F(f)[i]
    <3>1. CASE i = 0
      BY <1>3, <3>1
    <3>2. CASE i # 0
      <4>1. i \in 1 .. n
        BY <1>0, <3>2
      <4>2. F(f)[i] = step[<<f[i - 1], s[i]>>]
        BY <3>2
      <4>3. QED BY <1>4, <4>1, <4>2
    <3>3. QED BY <3>1, <3>2
  <2>2. QED BY <2>1
<1>6. k = F(k)
  BY <1>5
<1>7. Fold(step, base, s) = k[n]
  BY DEF Fold
<1> HIDE DEF k
<1>8. k[0] = base
  BY <1>0, <1>6
<1>9. ASSUME NEW i \in 1 .. n PROVE k[i] = step[<<k[i - 1], s[i]>>]
  <2>1. i \in 0 .. n /\ i # 0
    BY <1>0
  <2>2. F(k)[i] = step[<<k[i - 1], s[i]>>]
    BY <2>1
  <2>3. QED BY <1>6, <2>2
<1>10. \A i \in 0 .. n : k[i] = f[i]
  <2> DEFINE P == {i \in 0 .. n : k[i] = f[i]}
  <2>1. 0 \in P
    BY <1>0, <1>3, <1>8
  <2>2. ASSUME NEW i \in 0 .. n - 1, i \in P PROVE i + 1 \in P
    <3>1. i + 1 \in 1 .. n /\ (i + 1) - 1 = i /\ i + 1 \in 0 .. n /\ k[i] = f[i]
      BY <1>0, <2>2
    <3>2. k[i + 1] = step[<<k[i], s[i + 1]>>] /\ f[i + 1] = step[<<f[i], s[i + 1]>>]
      BY <1>4, <1>9, <3>1
    <3>3. QED BY <3>1, <3>2
  <2>3. 0 .. n \subseteq P
    <3> HIDE DEF P, n
    <3>1. QED BY <1>0, <2>1, <2>2, Induction
  <2>4. QED BY <2>3
<1>11. FoldsAlong(f, step, base, s)
  BY <1>3, <1>4 DEF FoldsAlong
<1>12. n \in 0 .. n
  BY <1>0
<1>13. QED BY <1>7, <1>10, <1>11, <1>12

LEMMA FoldOfNone ==
  ASSUME NEW T, NEW Acc, NEW base \in Acc, NEW step, Leads(step, Acc, T), NEW s \in Seq(T)
  PROVE  Len(s) = 0 => Fold(step, base, s) = base
<1>1. PICK f \in [0 .. Len(s) -> Acc] : FoldsAlong(f, step, base, s) /\ Fold(step, base, s) = f[Len(s)]
  BY FoldRecursion
<1>2. QED BY <1>1 DEF FoldsAlong

LEMMA FoldEmpty == ASSUME NEW step, NEW base PROVE Fold(step, base, <<>>) = base
<1>1. <<>> \in Seq({}) /\ Len(<<>>) = 0 /\ Leads(step, {base}, {}) /\ base \in {base}
  BY DEF Leads
<1>2. QED BY <1>1, FoldOfNone

(* One more element is one more step. *)
LEMMA FoldAppend ==
  ASSUME NEW T, NEW Acc, NEW base \in Acc, NEW step, Leads(step, Acc, T), NEW s \in Seq(T), NEW e \in T
  PROVE  /\ Fold(step, base, s) \in Acc
         /\ Fold(step, base, Append(s, e)) = step[<<Fold(step, base, s), e>>]
<1> DEFINE n == Len(s)
           t == Append(s, e)
<1>1. n \in Nat /\ t \in Seq(T) /\ Len(t) = n + 1 /\ t[n + 1] = e /\ \A i \in 1 .. n : t[i] = s[i]
  OBVIOUS
<1>2. PICK f \in [0 .. n -> Acc] : FoldsAlong(f, step, base, s) /\ Fold(step, base, s) = f[n]
  BY FoldRecursion
<1>3. PICK g \in [0 .. Len(t) -> Acc] : FoldsAlong(g, step, base, t) /\ Fold(step, base, t) = g[Len(t)]
  <2> HIDE DEF t
  <2>1. QED BY <1>1, FoldRecursion
<1> DEFINE P == {i \in 0 .. n : f[i] = g[i]}
<1> HIDE DEF t, n
<1>4. 0 \in P
  BY <1>1, <1>2, <1>3 DEF FoldsAlong
<1>5. ASSUME NEW i \in 0 .. n - 1, i \in P PROVE i + 1 \in P
  <2>1. i + 1 \in 1 .. n /\ i + 1 \in 1 .. Len(t) /\ (i + 1) - 1 = i /\ t[i + 1] = s[i + 1] /\ i + 1 \in 0 .. n
    BY <1>1
  <2>2. f[i + 1] = step[<<f[i], s[i + 1]>>]
    BY <1>2, <2>1 DEF FoldsAlong, n
  <2>3. g[i + 1] = step[<<g[i], t[i + 1]>>]
    BY <1>3, <2>1 DEF FoldsAlong
  <2>4. QED BY <1>5, <2>1, <2>2, <2>3
<1>6. f[n] = g[n]
  <2> HIDE DEF P
  <2>1. 0 .. n \subseteq P
    BY <1>1, <1>4, <1>5, Induction
  <2>2. QED BY <1>1, <2>1 DEF P
<1>7. g[n + 1] = step[<<g[n], t[n + 1]>>]
  <2>1. n + 1 \in 1 .. Len(t) /\ (n + 1) - 1 = n
    BY <1>1
  <2>2. QED BY <1>3, <2>1 DEF FoldsAlong
<1>8. f[n] \in Acc
  BY <1>1, <1>2
<1>9. QED BY <1>1, <1>2, <1>3, <1>6, <1>7, <1>8 DEF t

(* A fold stays in what its steps stay in. *)
LEMMA FoldType ==
  ASSUME NEW T, NEW Acc, NEW base \in Acc, NEW step, Leads(step, Acc, T), NEW s \in Seq(T)
  PROVE  Fold(step, base, s) \in Acc
<1>1. PICK f \in [0 .. Len(s) -> Acc] : Fold(step, base, s) = f[Len(s)]
  BY FoldRecursion
<1>2. Len(s) \in 0 .. Len(s)
  OBVIOUS
<1>3. QED BY <1>1, <1>2

-----------------------------------------------------------------------------
(***************************************************************************)
(* Sums and powers.                                                        *)
(***************************************************************************)
LEMMA ProductLaws ==
  /\ \A a, b \in Int : a * b \in Int /\ a * b = b * a
  /\ \A a, b \in Nat : a * b \in Nat /\ (a > 0 /\ b > 0 => a * b > 0) /\ (a = 0 \/ b = 0 => a * b = 0)
  /\ \A a, b, c \in Int : a * (b + c) = a * b + a * c /\ (a + b) * c = a * c + b * c
  /\ \A a, b, c \in Int : a * (b * c) = (a * b) * c
<1>1. \A a, b \in Int : a * b \in Int /\ a * b = b * a
  OBVIOUS
<1>2. \A a, b \in Nat : a * b \in Nat /\ (a > 0 /\ b > 0 => a * b > 0) /\ (a = 0 \/ b = 0 => a * b = 0)
  OBVIOUS
<1>3. \A a, b, c \in Int : a * (b + c) = a * b + a * c /\ (a + b) * c = a * c + b * c
  OBVIOUS
<1>4. \A a, b, c \in Int : a * (b * c) = (a * b) * c
  OBVIOUS
<1>5. QED BY <1>1, <1>2, <1>3, <1>4

LEMMA Monotone ==
  /\ \A a, b \in Int, c \in Nat : a <= b => a * c <= b * c
  /\ \A a, b \in Int, c \in Nat : a < b /\ c > 0 => a * c < b * c
  /\ \A a, b, c, d \in Nat : a <= b /\ c <= d => a * c <= b * d
<1>1. ASSUME NEW a \in Int, NEW b \in Int, NEW c \in Nat PROVE b * c - a * c = (b - a) * c
  OBVIOUS
<1>2. \A a \in Nat, c \in Nat : a * c >= 0 /\ (a > 0 /\ c > 0 => a * c > 0)
  OBVIOUS
<1>3. ASSUME NEW a \in Int, NEW b \in Int, NEW c \in Nat, a <= b
      PROVE  a * c <= b * c /\ (a < b /\ c > 0 => a * c < b * c)
  <2>1. PICK d \in Nat : d = b - a
    BY <1>3
  <2>2. PICK x \in Int, y \in Int, z \in Int : x = a * c /\ y = b * c /\ z = d * c
    OBVIOUS
  <2>3. y - x = z
    BY <1>1, <2>1, <2>2
  <2>4. z >= 0 /\ (d > 0 /\ c > 0 => z > 0)
    BY <1>2, <2>2
  <2>5. QED BY <2>1, <2>2, <2>3, <2>4
<1>4. ASSUME NEW a \in Nat, NEW b \in Nat, NEW c \in Nat, NEW d \in Nat, a <= b, c <= d
      PROVE  a * c <= b * d
  <2>1. a * c <= b * c /\ c * b <= d * b
    BY <1>3, <1>4
  <2>2. PICK x \in Int, y \in Int, z \in Int : x = a * c /\ y = b * c /\ z = b * d
    OBVIOUS
  <2>3. c * b = y /\ d * b = z
    BY <2>2
  <2>4. QED BY <2>1, <2>2, <2>3
<1>5. QED BY <1>3, <1>4

(* A sum of one more is more by as much. *)
LEMMA SumAppend ==
  /\ SumOf(<<>>) = 0
  /\ \A s \in Seq(Int), e \in Int : SumOf(Append(s, e)) = SumOf(s) + e /\ SumOf(s) \in Int
<1> DEFINE add == [q \in Int \X Int |-> q[1] + q[2]]
<1>1. \A a, e \in Int : add[<<a, e>>] = a + e
  OBVIOUS
<1>2. Leads(add, Int, Int)
  <2>1. \A a, e \in Int : a + e \in Int
    OBVIOUS
  <2> HIDE DEF add
  <2>2. QED BY <1>1, <2>1 DEF Leads
<1> HIDE DEF add
<1>3. SumOf(<<>>) = 0
  BY FoldEmpty DEF SumOf
<1>4. ASSUME NEW s \in Seq(Int), NEW e \in Int
      PROVE  SumOf(Append(s, e)) = SumOf(s) + e /\ SumOf(s) \in Int
  <2> DEFINE base == 0
             T == Int
  <2>1. base \in T /\ s \in Seq(T) /\ e \in T /\ Leads(add, T, T)
    BY <1>2
  <2> HIDE DEF base, T
  <2>2. Fold(add, base, s) \in T /\ Fold(add, base, Append(s, e)) = add[<<Fold(add, base, s), e>>]
    BY <2>1, FoldAppend
  <2> USE DEF base, T
  <2>3. SumOf(s) = Fold(add, 0, s) /\ SumOf(Append(s, e)) = Fold(add, 0, Append(s, e))
    BY DEF SumOf, add
  <2>4. QED BY <1>1, <2>2, <2>3
<1>5. QED BY <1>3, <1>4

(* A sum of naturals is one, and is at least what any of them is. *)
LEMMA SumIsNat ==
  \A s \in Seq(Nat) : SumOf(s) \in Nat /\ \A i \in 1 .. Len(s) : s[i] <= SumOf(s)
<1> DEFINE Covers(s) == SumOf(s) \in Nat /\ \A i \in 1 .. Len(s) : s[i] <= SumOf(s)
           P == {s \in Seq(Nat) : Covers(s)}
           T == Nat
<1>1. <<>> \in P
  <2>1. <<>> \in Seq(Nat) /\ \A i \in 1 .. Len(<<>>) : FALSE
    OBVIOUS
  <2>2. Covers(<<>>)
    BY <2>1, SumAppend
  <2>3. QED BY <2>1, <2>2
<1>2. ASSUME NEW s \in Seq(T), NEW e \in T, s \in P PROVE Append(s, e) \in P
  <2> DEFINE t == Append(s, e)
  <2>1. t \in Seq(Nat) /\ s \in Seq(Int) /\ e \in Int /\ Len(t) = Len(s) + 1
    OBVIOUS
  <2>2. SumOf(t) = SumOf(s) + e /\ SumOf(s) \in Nat
    BY <1>2, <2>1, SumAppend
  <2>3. ASSUME NEW i \in 1 .. Len(t) PROVE t[i] <= SumOf(t)
    <3>1. CASE i = Len(t)
      <4>1. t[i] = e
        BY <3>1
      <4> HIDE DEF t
      <4>2. QED BY <2>2, <4>1
    <3>2. CASE i # Len(t)
      <4>1. i \in 1 .. Len(s) /\ t[i] = s[i] /\ s[i] \in Nat
        BY <2>1, <3>2
      <4>2. s[i] <= SumOf(s)
        BY <1>2, <4>1
      <4> HIDE DEF t
      <4>3. QED BY <2>2, <4>1, <4>2
    <3>3. QED BY <3>1, <3>2
  <2>4. SumOf(t) \in Nat
    <3> HIDE DEF t
    <3>1. QED BY <2>2
  <2>5. QED BY <2>1, <2>3, <2>4
<1>3. Seq(T) \subseteq P
  <2> HIDE DEF P, T
  <2>1. QED BY <1>1, <1>2, SequenceInduction
<1>4. QED BY <1>3

(* What every element is multiplied by, the sum is multiplied by. *)
LEMMA SumScaled ==
  ASSUME NEW k \in Int
  PROVE  \A s \in Seq(Int) : SumOf([i \in 1 .. Len(s) |-> k * s[i]]) = k * SumOf(s)
<1> DEFINE scaled(s) == [i \in 1 .. Len(s) |-> k * s[i]]
           P == {s \in Seq(Int) : SumOf(scaled(s)) = k * SumOf(s)}
           T == Int
<1>1. <<>> \in P
  <2>1. scaled(<<>>) = <<>> /\ <<>> \in Seq(Int)
    OBVIOUS
  <2>2. k * 0 = 0
    OBVIOUS
  <2>3. SumOf(scaled(<<>>)) = k * SumOf(<<>>)
    BY <2>1, <2>2, SumAppend
  <2>4. QED BY <2>1, <2>3
<1>2. ASSUME NEW s \in Seq(T), NEW e \in T, s \in P PROVE Append(s, e) \in P
  <2> DEFINE t == Append(s, e)
             v == k * e
  <2>1. t \in Seq(Int) /\ scaled(s) \in Seq(Int) /\ v \in Int
    OBVIOUS
  <2>2. scaled(t) = Append(scaled(s), v)
    OBVIOUS
  <2>3. SumOf(Append(scaled(s), v)) = SumOf(scaled(s)) + v
    <3>1. PICK w \in Seq(Int) : w = scaled(s)
      BY <2>1
    <3> HIDE DEF v
    <3>2. SumOf(Append(w, v)) = SumOf(w) + v
      BY <2>1, SumAppend
    <3>3. QED BY <3>1, <3>2
  <2>4. SumOf(t) = SumOf(s) + e /\ SumOf(s) \in Int
    BY SumAppend
  <2>5. k * (SumOf(s) + e) = k * SumOf(s) + v
    <3>1. PICK sum \in Int : sum = SumOf(s)
      BY <2>4
    <3>2. k * (sum + e) = k * sum + k * e
      BY ProductLaws
    <3>3. QED BY <3>1, <3>2
  <2>6. SumOf(scaled(s)) = k * SumOf(s)
    BY <1>2
  <2>7. SumOf(scaled(t)) = k * SumOf(t)
    <3> HIDE DEF t, v, scaled
    <3>1. QED BY <2>2, <2>3, <2>4, <2>5, <2>6
  <2>8. QED BY <2>1, <2>7
<1>3. Seq(T) \subseteq P
  <2> HIDE DEF P, T
  <2>1. QED BY <1>1, <1>2, SequenceInduction
<1>4. QED BY <1>3

(* Powers, by their exponent. *)
LEMMA PowerStep ==
  ASSUME NEW b \in Int
  PROVE  /\ Power(b, 0) = 1
         /\ \A n \in Nat : Power(b, n) \in Int /\ Power(b, n + 1) = Power(b, n) * b
<1> DEFINE times == [q \in Int \X Int |-> q[1] * q[2]]
           many(n) == [i \in 1 .. n |-> b]
<1>1. \A a, e \in Int : times[<<a, e>>] = a * e
  OBVIOUS
<1>2. Leads(times, Int, Int)
  <2>1. \A a, e \in Int : a * e \in Int
    OBVIOUS
  <2> HIDE DEF times
  <2>2. QED BY <1>1, <2>1 DEF Leads
<1>3. Power(b, 0) = 1
  <2>1. many(0) = <<>>
    OBVIOUS
  <2>2. Power(b, 0) = Fold(times, 1, many(0))
    BY DEF Power
  <2> HIDE DEF many, times
  <2>3. QED BY <2>1, <2>2, FoldEmpty
<1>4. ASSUME NEW n \in Nat PROVE Power(b, n) \in Int /\ Power(b, n + 1) = Power(b, n) * b
  <2>1. many(n + 1) = Append(many(n), b) /\ many(n) \in Seq(Int) /\ 1 \in Int
    OBVIOUS
  <2>2. Power(b, n) = Fold(times, 1, many(n)) /\ Power(b, n + 1) = Fold(times, 1, many(n + 1))
    BY DEF Power
  <2> DEFINE base == 1
             T == Int
             s == many(n)
  <2>3. base \in T /\ s \in Seq(T) /\ b \in T /\ Leads(times, T, T)
    BY <1>2, <2>1
  <2> HIDE DEF many, times, base, T, s
  <2>4. Fold(times, base, s) \in T /\ Fold(times, base, Append(s, b)) = times[<<Fold(times, base, s), b>>]
    BY <2>3, FoldAppend
  <2> USE DEF base, T, s
  <2>5. QED BY <1>1, <2>1, <2>2, <2>4
<1>5. QED BY <1>3, <1>4

(* A power of more is more, and a power of a natural above zero is one. *)
LEMMA PowerMonotone ==
  ASSUME NEW b \in Nat, NEW d \in Nat, b < d, b > 0
  PROVE  \A n \in Nat : /\ Power(b, n) \in Nat \ {0} /\ Power(d, n) \in Nat \ {0}
                        /\ Power(b, n) <= Power(d, n)
                        /\ n > 0 => Power(b, n) < Power(d, n)
<1> DEFINE Holds(n) == /\ Power(b, n) \in Nat \ {0} /\ Power(d, n) \in Nat \ {0}
                       /\ Power(b, n) <= Power(d, n)
                       /\ n > 0 => Power(b, n) < Power(d, n)
<1> SUFFICES ASSUME NEW N \in Nat PROVE Holds(N)
  OBVIOUS
<1> DEFINE P == {n \in 0 .. N : Holds(n)}
<1>1. 0 \in P
  <2>1. Power(b, 0) = 1 /\ Power(d, 0) = 1
    BY PowerStep
  <2>2. QED BY <2>1
<1>2. ASSUME NEW n \in 0 .. N - 1, n \in P PROVE n + 1 \in P
  <2>1. n \in Nat /\ n + 1 \in 0 .. N
    OBVIOUS
  <2>2. Power(b, n + 1) = Power(b, n) * b /\ Power(d, n + 1) = Power(d, n) * d
    BY <2>1, PowerStep
  <2>3. PICK x \in Nat \ {0}, y \in Nat \ {0} : x = Power(b, n) /\ y = Power(d, n) /\ x <= y
    BY <1>2
  <2>4. x * b > 0 /\ y * d > 0 /\ x * b \in Nat /\ y * d \in Nat
    BY ProductLaws
  <2>5. x * b <= y * b /\ b * y < d * y /\ y * b = b * y /\ y * d = d * y
    BY <2>3, Monotone, ProductLaws
  <2>6. x * b < y * d
    <3>1. PICK u \in Int, v \in Int, w \in Int : u = x * b /\ v = y * b /\ w = y * d
      OBVIOUS
    <3>2. u <= v /\ v < w
      BY <2>5, <3>1
    <3>3. QED BY <3>1, <3>2
  <2>7. PICK u \in Nat \ {0}, w \in Nat \ {0} : u = x * b /\ w = y * d
    BY <2>4
  <2>8. Power(b, n + 1) = u /\ Power(d, n + 1) = w /\ u < w
    BY <2>2, <2>3, <2>6, <2>7
  <2>9. QED BY <2>1, <2>8
<1>3. 0 .. N \subseteq P
  <2> HIDE DEF P
  <2>1. QED BY <1>1, <1>2, Induction
<1>4. QED BY <1>3

-----------------------------------------------------------------------------
(***************************************************************************)
(* Order.                                                                  *)
(***************************************************************************)
OrderedBy(s, R) == \A i, j \in 1 .. Len(s) : i < j => <<s[i], s[j]>> \in R

(* Where everything is wanted everything is kept. *)
LEMMA KeepAll ==
  ASSUME NEW T, NEW S
  PROVE  \A s \in Seq(T) : (\A i \in 1 .. Len(s) : s[i] \in S) => Keep(s, S) = s
<1> DEFINE Wanted(s) == \A i \in 1 .. Len(s) : s[i] \in S
           P == {s \in Seq(T) : Wanted(s) => Keep(s, S) = s}
<1>1. <<>> \in P
  <2>1. <<>> \in Seq(T) /\ Keep(<<>>, S) = <<>>
    BY KeepEmpty
  <2>2. QED BY <2>1
<1>2. ASSUME NEW s \in Seq(T), NEW e \in T, s \in P PROVE Append(s, e) \in P
  <2> DEFINE t == Append(s, e)
  <2>1. t \in Seq(T) /\ Len(t) = Len(s) + 1 /\ t[Len(s) + 1] = e /\ Len(s) \in Nat
        /\ \A i \in 1 .. Len(s) : t[i] = s[i]
    OBVIOUS
  <2>2. Keep(t, S) = IF e \in S THEN Append(Keep(s, S), e) ELSE Keep(s, S)
    BY KeepAppend
  <2>3. ASSUME Wanted(t) PROVE Keep(t, S) = t
    <3> HIDE DEF t
    <3>1. ASSUME NEW i \in 1 .. Len(s) PROVE s[i] \in S
      <4>1. i \in 1 .. Len(t)
        BY <2>1
      <4>2. QED BY <2>1, <2>3, <4>1
    <3>2. e \in S
      BY <2>1, <2>3
    <3>3. Keep(s, S) = s
      BY <1>2, <3>1
    <3>4. QED BY <2>2, <3>2, <3>3 DEF t
  <2>4. QED BY <2>1, <2>3
<1> HIDE DEF P
<1>3. Seq(T) \subseteq P
  BY <1>1, <1>2, SequenceInduction
<1>4. QED BY <1>3 DEF P

(* What is kept of an order is in order. *)
LEMMA KeepOrdered ==
  ASSUME NEW T, NEW S, NEW R
  PROVE  \A s \in Seq(T) : OrderedBy(s, R) => OrderedBy(Keep(s, S), R)
<1> DEFINE P == {s \in Seq(T) : OrderedBy(s, R) => OrderedBy(Keep(s, S), R)}
<1>1. <<>> \in P
  <2>1. <<>> \in Seq(T) /\ Keep(<<>>, S) = <<>>
    BY KeepEmpty
  <2>2. QED BY <2>1
<1>2. ASSUME NEW s \in Seq(T), NEW e \in T, s \in P PROVE Append(s, e) \in P
  <2> DEFINE t == Append(s, e)
  <2>1. t \in Seq(T) /\ Len(t) = Len(s) + 1 /\ t[Len(s) + 1] = e /\ Len(s) \in Nat
        /\ \A i \in 1 .. Len(s) : t[i] = s[i]
    OBVIOUS
  <2>2. Keep(t, S) = IF e \in S THEN Append(Keep(s, S), e) ELSE Keep(s, S)
    BY KeepAppend
  <2>3. ASSUME OrderedBy(t, R) PROVE OrderedBy(Keep(t, S), R)
    <3> HIDE DEF t
    <3>1. OrderedBy(s, R)
      <4>1. ASSUME NEW i \in 1 .. Len(s), NEW j \in 1 .. Len(s), i < j PROVE <<s[i], s[j]>> \in R
        <5>1. i \in 1 .. Len(t) /\ j \in 1 .. Len(t)
          BY <2>1
        <5>2. <<t[i], t[j]>> \in R
          BY <2>3, <4>1, <5>1 DEF OrderedBy
        <5>3. QED BY <2>1, <5>2
      <4>2. QED BY <4>1 DEF OrderedBy
    <3>2. OrderedBy(Keep(s, S), R)
      BY <1>2, <3>1
    <3>3. s \in Seq(Range(s))
      BY SeqOfRange
    <3>4. PICK k \in Seq(Range(s) \cap S) : k = Keep(s, S)
      BY <3>3, KeepType
    <3>5. ASSUME NEW i \in 1 .. Len(k) PROVE <<k[i], e>> \in R
      <4>1. k[i] \in Range(s)
        OBVIOUS
      <4>2. PICK j \in 1 .. Len(s) : s[j] = k[i]
        BY <4>1, <3>3, SMTT(30) DEF Range
      <4>3. j \in 1 .. Len(t) /\ Len(s) + 1 \in 1 .. Len(t) /\ j < Len(s) + 1
        BY <2>1
      <4>4. <<t[j], t[Len(s) + 1]>> \in R
        BY <2>3, <4>3 DEF OrderedBy
      <4>5. QED BY <2>1, <4>2, <4>4
    <3>6. OrderedBy(Append(k, e), R)
      <4> DEFINE u == Append(k, e)
      <4>1. Len(u) = Len(k) + 1 /\ u[Len(k) + 1] = e /\ Len(k) \in Nat /\ \A i \in 1 .. Len(k) : u[i] = k[i]
        OBVIOUS
      <4> HIDE DEF u
      <4>2. ASSUME NEW i \in 1 .. Len(u), NEW j \in 1 .. Len(u), i < j PROVE <<u[i], u[j]>> \in R
        <5>1. i \in 1 .. Len(k) /\ u[i] = k[i]
          BY <4>1, <4>2
        <5>2. CASE j = Len(k) + 1
          BY <3>5, <4>1, <5>1, <5>2
        <5>3. CASE j # Len(k) + 1
          <6>1. j \in 1 .. Len(k) /\ u[j] = k[j]
            BY <4>1, <5>3
          <6>2. QED BY <3>2, <3>4, <4>2, <5>1, <6>1 DEF OrderedBy
        <5>4. QED BY <5>2, <5>3
      <4>3. QED BY <4>2 DEF OrderedBy, u
    <3>7. QED BY <2>2, <3>2, <3>4, <3>6
  <2>4. QED BY <2>1, <2>3
<1> HIDE DEF P
<1>3. Seq(T) \subseteq P
  BY <1>1, <1>2, SequenceInduction
<1>4. QED BY <1>3 DEF P

(* What two disjoint wishes keep is together no longer than the sequence. *)
LEMMA KeepLength ==
  ASSUME NEW T, NEW A, NEW B, A \cap B = {}
  PROVE  \A s \in Seq(T) : Len(Keep(s, A)) + Len(Keep(s, B)) <= Len(s)
<1> DEFINE P == {s \in Seq(T) : Len(Keep(s, A)) + Len(Keep(s, B)) <= Len(s)}
<1>1. <<>> \in P
  <2>1. <<>> \in Seq(T) /\ Keep(<<>>, A) = <<>> /\ Keep(<<>>, B) = <<>> /\ Len(<<>>) = 0
    BY KeepEmpty
  <2>2. Len(Keep(<<>>, A)) + Len(Keep(<<>>, B)) <= Len(<<>>)
    BY <2>1
  <2>3. QED BY <2>1, <2>2
<1>2. ASSUME NEW s \in Seq(T), NEW e \in T, s \in P PROVE Append(s, e) \in P
  <2>1. Keep(Append(s, e), A) = IF e \in A THEN Append(Keep(s, A), e) ELSE Keep(s, A)
    BY KeepAppend
  <2>2. Keep(Append(s, e), B) = IF e \in B THEN Append(Keep(s, B), e) ELSE Keep(s, B)
    BY KeepAppend
  <2>3. PICK a \in Seq(T \cap A), b \in Seq(T \cap B) : a = Keep(s, A) /\ b = Keep(s, B)
    BY KeepType
  <2>4. Len(a) + Len(b) <= Len(s)
    BY <1>2, <2>3
  <2>5. Len(Append(a, e)) = Len(a) + 1 /\ Len(Append(b, e)) = Len(b) + 1 /\ Len(Append(s, e)) = Len(s) + 1
        /\ Len(a) \in Nat /\ Len(b) \in Nat /\ Len(s) \in Nat /\ Append(s, e) \in Seq(T)
    OBVIOUS
  <2>6. Len(Keep(Append(s, e), A)) + Len(Keep(Append(s, e), B)) <= Len(Append(s, e))
    <3>1. CASE e \in A
      <4>1. e \notin B
        BY <3>1
      <4>2. QED BY <2>1, <2>2, <2>3, <2>4, <2>5, <3>1, <4>1
    <3>2. CASE e \notin A
      BY <2>1, <2>2, <2>3, <2>4, <2>5, <3>2
    <3>3. QED BY <3>1, <3>2
  <2>7. QED BY <2>5, <2>6
<1> HIDE DEF P
<1>3. Seq(T) \subseteq P
  BY <1>1, <1>2, SequenceInduction
<1>4. QED BY <1>3 DEF P

(* The places of an element and of what is before and after it. *)
LEMMA InsertPlaces ==
  ASSUME NEW T, NEW a \in Seq(T), NEW b \in Seq(T), NEW e \in T
  PROVE  LET s == a \o <<e>> \o b
         IN /\ s \in Seq(T) /\ Len(s) = Len(a) + 1 + Len(b) /\ Len(a) \in Nat /\ Len(b) \in Nat
            /\ \A i \in 1 .. Len(a) : s[i] = a[i]
            /\ s[Len(a) + 1] = e
            /\ \A i \in Len(a) + 2 .. Len(s) : i - (Len(a) + 1) \in 1 .. Len(b) /\ s[i] = b[i - (Len(a) + 1)]
<1> DEFINE s == a \o <<e>> \o b
<1>1. Len(a) \in Nat /\ Len(b) \in Nat /\ Len(s) = Len(a) + 1 + Len(b) /\ s \in Seq(T)
  OBVIOUS
<1>2. \A i \in 1 .. Len(a) : s[i] = a[i]
  OBVIOUS
<1>3. s[Len(a) + 1] = e
  OBVIOUS
<1>4. ASSUME NEW i \in Len(a) + 2 .. Len(s) PROVE i - (Len(a) + 1) \in 1 .. Len(b) /\ s[i] = b[i - (Len(a) + 1)]
  <2>1. i - (Len(a) + 1) \in 1 .. Len(b)
    <3> HIDE DEF s
    <3>1. QED BY <1>1
  <2>2. s[i] = b[i - (Len(a) + 1)]
    BY <1>1, <2>1
  <2>3. QED BY <2>1, <2>2
<1> HIDE DEF s
<1>5. QED BY <1>1, <1>2, <1>3, <1>4 DEF s

LEMMA BeforeAtAfter == \A i, n \in Int : i <= n \/ i = n + 1 \/ i > n + 1
<1>1. QED OBVIOUS

(* An element between what is before it and what is after it. *)
LEMMA InsertOrdered ==
  ASSUME NEW T, NEW R, NEW a \in Seq(T), NEW b \in Seq(T), NEW e \in T,
         OrderedBy(a, R), OrderedBy(b, R),
         \A i \in 1 .. Len(a) : <<a[i], e>> \in R,
         \A j \in 1 .. Len(b) : <<e, b[j]>> \in R,
         \A i \in 1 .. Len(a), j \in 1 .. Len(b) : <<a[i], b[j]>> \in R
  PROVE  OrderedBy(a \o <<e>> \o b, R)
<1> DEFINE s == a \o <<e>> \o b
           n == Len(a)
<1>1. /\ n \in Nat /\ Len(b) \in Nat /\ Len(s) = n + 1 + Len(b)
      /\ \A i \in 1 .. n : s[i] = a[i]
      /\ s[n + 1] = e
      /\ \A i \in n + 2 .. n + 1 + Len(b) : s[i] = b[i - (n + 1)]
  BY InsertPlaces
<1> HIDE DEF s
<1>2. ASSUME NEW i \in 1 .. Len(s), NEW j \in 1 .. Len(s), i < j PROVE <<s[i], s[j]>> \in R
  <2>1. CASE i <= n /\ j <= n
    <3>1. i \in 1 .. n /\ j \in 1 .. n
      BY <2>1
    <3>2. QED BY <1>1, <1>2, <3>1 DEF OrderedBy
  <2>2. CASE i <= n /\ j = n + 1
    <3>1. i \in 1 .. n
      BY <2>2
    <3>2. QED BY <1>1, <2>2, <3>1
  <2>3. CASE i <= n /\ j > n + 1
    <3>1. i \in 1 .. n /\ j \in n + 2 .. n + 1 + Len(b) /\ j - (n + 1) \in 1 .. Len(b)
      BY <1>1, <2>3
    <3>2. QED BY <1>1, <3>1
  <2>4. CASE i = n + 1
    <3>1. j \in n + 2 .. n + 1 + Len(b) /\ j - (n + 1) \in 1 .. Len(b)
      BY <1>1, <1>2, <2>4
    <3>2. QED BY <1>1, <2>4, <3>1
  <2>5. CASE i > n + 1
    <3>1. /\ i \in n + 2 .. n + 1 + Len(b) /\ i - (n + 1) \in 1 .. Len(b)
          /\ j \in n + 2 .. n + 1 + Len(b) /\ j - (n + 1) \in 1 .. Len(b)
          /\ i - (n + 1) < j - (n + 1)
      BY <1>1, <1>2, <2>5
    <3>2. QED BY <1>1, <3>1 DEF OrderedBy
  <2>6. n \in Int /\ i \in Int /\ j \in Int
    BY <1>1
  <2>7. (i <= n \/ i = n + 1 \/ i > n + 1) /\ (j <= n \/ j = n + 1 \/ j > n + 1)
    BY <2>6, BeforeAtAfter
  <2>8. QED BY <2>1, <2>2, <2>3, <2>4, <2>5, <2>7
<1>3. QED BY <1>2 DEF OrderedBy, s

(* The other way round, an order is the other way round. *)
LEMMA ReverseOrdered ==
  ASSUME NEW T, NEW R, NEW s \in Seq(T), OrderedBy(s, R)
  PROVE  /\ Reverse(s) \in Seq(T) /\ Len(Reverse(s)) = Len(s)
         /\ \A i, j \in 1 .. Len(s) : i < j => <<Reverse(s)[j], Reverse(s)[i]>> \in R
<1>1. Reverse(s) \in Seq(T) /\ Len(Reverse(s)) = Len(s)
  BY DEF Reverse
<1>2. ASSUME NEW i \in 1 .. Len(s), NEW j \in 1 .. Len(s), i < j
      PROVE <<Reverse(s)[j], Reverse(s)[i]>> \in R
  <2>1. /\ Len(s) - i + 1 \in 1 .. Len(s) /\ Len(s) - j + 1 \in 1 .. Len(s)
        /\ Len(s) - j + 1 < Len(s) - i + 1
    BY <1>2
  <2>2. Reverse(s)[i] = s[Len(s) - i + 1] /\ Reverse(s)[j] = s[Len(s) - j + 1]
    BY DEF Reverse
  <2>3. QED BY <2>1, <2>2 DEF OrderedBy
<1>3. QED BY <1>1, <1>2
=============================================================================
