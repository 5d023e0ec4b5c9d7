---------------------------- MODULE GridBotProofs ----------------------------
(***************************************************************************)
(* The plans of a run: that they keep to the budget, that what is sent of  *)
(* them is accepted, and that they are compared exactly with what rests,   *)
(* for any settings, prices and orders. Then the process, which is each of *)
(* its parts, at work or at rest: what was proved of a part holds of it.   *)
(***************************************************************************)
EXTENDS GridBot, TerminalUIProofs, SpotEventsProofs, FiniteSetTheorems

-----------------------------------------------------------------------------
(***************************************************************************)
(* Sorting.                                                                *)
(***************************************************************************)
Less == {q \in Nat \X Nat : q[1] < q[2]}

InsertPrice(a, e) == Keep(a, 0 .. e - 1) \o <<e>> \o Keep(a, Nat \ (0 .. e))

(* A price goes to its place, and takes that of its equal. *)
LEMMA PriceInserted ==
  ASSUME NEW a \in Seq(Nat), NEW e \in Nat, OrderedBy(a, Less)
  PROVE  LET b == InsertPrice(a, e)
         IN /\ b \in Seq(Nat) /\ OrderedBy(b, Less)
            /\ Len(b) \in 1 .. Len(a) + 1
            /\ \A i \in 1 .. Len(b) : b[i] = e \/ \E j \in 1 .. Len(a) : b[i] = a[j]
<1> DEFINE A == 0 .. e - 1
           B == Nat \ (0 .. e)
<1>1. a \in Seq(Range(a)) /\ Range(a) \subseteq Nat
  BY SeqOfRange DEF Range
<1>2. PICK x \in Seq(Range(a) \cap A), y \in Seq(Range(a) \cap B) : x = Keep(a, A) /\ y = Keep(a, B)
  <2> HIDE DEF A, B
  <2>1. QED BY <1>1, KeepType
<1>3. Len(x) + Len(y) <= Len(a)
  <2>1. A \cap B = {}
    OBVIOUS
  <2> HIDE DEF A, B
  <2>2. QED BY <1>2, <2>1, KeepLength
<1>4. OrderedBy(x, Less) /\ OrderedBy(y, Less)
  <2> HIDE DEF A, B
  <2>1. QED BY <1>2, KeepOrdered
<1>5. x \in Seq(Nat) /\ y \in Seq(Nat)
  OBVIOUS
<1>6. ASSUME NEW i \in 1 .. Len(x) PROVE x[i] \in Range(a) /\ x[i] \in Nat /\ x[i] < e
  <2>1. x[i] \in Range(a) \cap A
    OBVIOUS
  <2>2. QED BY <2>1
<1>7. ASSUME NEW i \in 1 .. Len(y) PROVE y[i] \in Range(a) /\ y[i] \in Nat /\ e < y[i]
  <2>1. y[i] \in Range(a) \cap B
    OBVIOUS
  <2>2. QED BY <2>1
<1> DEFINE b == x \o <<e>> \o y
<1>8. InsertPrice(a, e) = b
  BY <1>2 DEF InsertPrice
<1>9. OrderedBy(b, Less)
  <2>1. \A i \in 1 .. Len(x) : <<x[i], e>> \in Less
    BY <1>6 DEF Less
  <2>2. \A i \in 1 .. Len(y) : <<e, y[i]>> \in Less
    BY <1>7 DEF Less
  <2>3. \A i \in 1 .. Len(x), j \in 1 .. Len(y) : <<x[i], y[j]>> \in Less
    BY <1>6, <1>7 DEF Less
  <2>4. QED BY <1>4, <1>5, <2>1, <2>2, <2>3, InsertOrdered
<1>10. /\ b \in Seq(Nat) /\ Len(b) = Len(x) + 1 + Len(y) /\ Len(x) \in Nat /\ Len(y) \in Nat
       /\ \A i \in 1 .. Len(x) : b[i] = x[i]
       /\ b[Len(x) + 1] = e
       /\ \A i \in Len(x) + 2 .. Len(b) : i - (Len(x) + 1) \in 1 .. Len(y) /\ b[i] = y[i - (Len(x) + 1)]
  BY <1>5, InsertPlaces
<1> HIDE DEF b
<1>11. ASSUME NEW i \in 1 .. Len(b) PROVE b[i] = e \/ b[i] \in Range(a)
  <2>1. CASE i \in 1 .. Len(x)
    BY <1>6, <1>10, <2>1
  <2>2. CASE i = Len(x) + 1
    BY <1>10, <2>2
  <2>3. CASE i \in Len(x) + 2 .. Len(b)
    BY <1>7, <1>10, <2>3
  <2>4. i \in 1 .. Len(x) \/ i = Len(x) + 1 \/ i \in Len(x) + 2 .. Len(b)
    <3>1. PICK n \in Nat, k \in Nat : n = Len(x) /\ k = Len(b)
      BY <1>10
    <3>2. i \in 1 .. k
      BY <3>1
    <3>3. i \in 1 .. n \/ i = n + 1 \/ i \in n + 2 .. k
      BY <3>2
    <3>4. QED BY <3>1, <3>3
  <2>5. QED BY <2>1, <2>2, <2>3, <2>4
<1>12. \A v \in Range(a) : \E j \in 1 .. Len(a) : v = a[j]
  BY DEF Range
<1>13. Len(b) \in 1 .. Len(a) + 1
  BY <1>3, <1>10
<1>14. \A i \in 1 .. Len(b) : b[i] = e \/ \E j \in 1 .. Len(a) : b[i] = a[j]
  BY <1>11, <1>12
<1>15. QED BY <1>8, <1>9, <1>10, <1>13, <1>14

(* Sorting and removing duplicates leaves an order of some of the values. *)
LEMMA AscendingSorts ==
  \A v \in Seq(Nat) :
    /\ Ascending(v) \in Seq(Nat) /\ OrderedBy(Ascending(v), Less)
    /\ Len(Ascending(v)) <= Len(v) /\ (v # <<>> => Ascending(v) # <<>>)
    /\ \A i \in 1 .. Len(Ascending(v)) : \E j \in 1 .. Len(v) : Ascending(v)[i] = v[j]
<1> DEFINE step == [q \in Seq(Nat) \X Nat |-> Keep(q[1], 0 .. q[2] - 1) \o <<q[2]>> \o Keep(q[1], Nat \ (0 .. q[2]))]
           Acc == {a \in Seq(Nat) : OrderedBy(a, Less)}
           T == Nat
           Sorted(v, a) == /\ a \in Acc /\ Len(a) <= Len(v) /\ (v # <<>> => a # <<>>)
                           /\ \A i \in 1 .. Len(a) : \E j \in 1 .. Len(v) : a[i] = v[j]
           P == {v \in Seq(T) : Sorted(v, Ascending(v))}
<1>0. \A v : Ascending(v) = Fold(step, <<>>, v)
  BY DEF Ascending
<1>1. \A a \in Acc, e \in T : step[<<a, e>>] = InsertPrice(a, e)
  BY DEF InsertPrice
<1> HIDE DEF step
<1>2. ASSUME NEW a \in Acc, NEW e \in T
      PROVE  /\ InsertPrice(a, e) \in Acc
             /\ Len(InsertPrice(a, e)) \in 1 .. Len(a) + 1
             /\ \A i \in 1 .. Len(InsertPrice(a, e)) :
                  InsertPrice(a, e)[i] = e \/ \E j \in 1 .. Len(a) : InsertPrice(a, e)[i] = a[j]
  BY PriceInserted
<1>3. Leads(step, Acc, T)
  <2> HIDE DEF Acc, T
  <2>1. QED BY <1>1, <1>2 DEF Leads
<1>4. <<>> \in Acc
  BY DEF OrderedBy
<1>5. <<>> \in P
  <2>1. Ascending(<<>>) = <<>> /\ <<>> \in Seq(T)
    BY <1>0, FoldEmpty
  <2>2. Sorted(<<>>, <<>>)
    BY <1>4
  <2> HIDE DEF Sorted
  <2>3. QED BY <2>1, <2>2
<1>6. ASSUME NEW v \in Seq(T), NEW e \in T, v \in P PROVE Append(v, e) \in P
  <2>1. Ascending(v) \in Acc /\ Ascending(Append(v, e)) = step[<<Ascending(v), e>>]
    <3> DEFINE base == <<>>
    <3> HIDE DEF Acc, base, T
    <3>1. base \in Acc
      BY <1>4 DEF base
    <3>2. Fold(step, base, v) \in Acc /\ Fold(step, base, Append(v, e)) = step[<<Fold(step, base, v), e>>]
      BY <1>3, <3>1, FoldAppend
    <3>3. QED BY <1>0, <3>2 DEF base
  <2>2. PICK a \in Acc : a = Ascending(v)
    BY <2>1
  <2>3. Sorted(v, a)
    BY <1>6, <2>2
  <2> DEFINE w == Append(v, e)
             b == InsertPrice(a, e)
  <2>4. w \in Seq(T) /\ Len(w) = Len(v) + 1 /\ w[Len(v) + 1] = e /\ w # <<>> /\ Len(v) \in Nat
        /\ \A i \in 1 .. Len(v) : w[i] = v[i]
    OBVIOUS
  <2>5. Ascending(w) = b
    BY <1>1, <2>1, <2>2
  <2>6. b \in Acc /\ Len(b) \in 1 .. Len(a) + 1
        /\ \A i \in 1 .. Len(b) : b[i] = e \/ \E j \in 1 .. Len(a) : b[i] = a[j]
    BY <1>2
  <2> HIDE DEF w, b
  <2>7. Len(b) <= Len(w)
    BY <2>3, <2>4, <2>6
  <2>8. ASSUME NEW i \in 1 .. Len(b) PROVE \E j \in 1 .. Len(w) : b[i] = w[j]
    <3>1. CASE b[i] = e
      <4>1. Len(v) + 1 \in 1 .. Len(w)
        BY <2>4
      <4>2. QED BY <2>4, <3>1, <4>1
    <3>2. CASE \E j \in 1 .. Len(a) : b[i] = a[j]
      <4>1. PICK j \in 1 .. Len(a) : b[i] = a[j]
        BY <3>2
      <4>2. PICK k \in 1 .. Len(v) : a[j] = v[k]
        BY <2>3
      <4>3. k \in 1 .. Len(w) /\ w[k] = v[k]
        BY <2>4
      <4>4. QED BY <4>1, <4>2, <4>3
    <3>3. QED BY <2>6, <3>1, <3>2
  <2>9. b # <<>>
    BY <2>6
  <2>10. Sorted(w, b)
    <3> HIDE DEF Acc
    <3>1. QED BY <2>6, <2>7, <2>8, <2>9
  <2>11. QED BY <2>4, <2>5, <2>10 DEF w
<1>7. Seq(T) \subseteq P
  <2> HIDE DEF P, T
  <2>1. QED BY <1>5, <1>6, SequenceInduction
<1>8. QED BY <1>7

NotAbove == {q \in Levels \X Levels : q[1].price <= q[2].price}

(* Sorting levels leaves an order of levels among them. *)
LEMMA ByPriceSorts ==
  ASSUME NEW levels \in Seq(Levels)
  PROVE  ByPrice(levels) \in Seq(Range(levels)) /\ OrderedBy(ByPrice(levels), NotAbove)
<1> DEFINE T == Range(levels)
           low(e) == {l \in T : l.price <= e.price}
           high(e) == {l \in T : l.price > e.price}
           step == [q \in Seq(T) \X T |->
                      Keep(q[1], {l \in T : l.price <= q[2].price}) \o <<q[2]>>
                        \o Keep(q[1], {l \in T : l.price > q[2].price})]
           Acc == {a \in Seq(T) : OrderedBy(a, NotAbove)}
<1>1. levels \in Seq(T) /\ T \subseteq Levels
  BY SeqOfRange DEF Range
<1>2. ByPrice(levels) = Fold(step, <<>>, levels)
  BY DEF ByPrice
<1>3. \A a \in Acc, e \in T : step[<<a, e>>] = Keep(a, low(e)) \o <<e>> \o Keep(a, high(e))
  OBVIOUS
<1> HIDE DEF step
<1>4. \A l \in T : l \in Levels /\ l.price \in Nat
  BY <1>1 DEF Levels
<1>5. <<>> \in Acc
  BY DEF OrderedBy
<1>6. ASSUME NEW a \in Acc, NEW e \in T PROVE Keep(a, low(e)) \o <<e>> \o Keep(a, high(e)) \in Acc
  <2>1. PICK x \in Seq(T \cap low(e)), y \in Seq(T \cap high(e)) : x = Keep(a, low(e)) /\ y = Keep(a, high(e))
    <3> HIDE DEF T, low, high
    <3>1. QED BY KeepType
  <2>2. OrderedBy(x, NotAbove) /\ OrderedBy(y, NotAbove)
    <3> HIDE DEF T, low, high
    <3>1. QED BY <2>1, KeepOrdered
  <2>3. ASSUME NEW i \in 1 .. Len(x) PROVE x[i] \in T /\ x[i].price <= e.price
    <3>1. x[i] \in T \cap low(e)
      OBVIOUS
    <3>2. QED BY <3>1
  <2>4. ASSUME NEW i \in 1 .. Len(y) PROVE y[i] \in T /\ y[i].price > e.price
    <3>1. y[i] \in T \cap high(e)
      OBVIOUS
    <3>2. QED BY <3>1
  <2>5. x \in Seq(T) /\ y \in Seq(T)
    OBVIOUS
  <2> HIDE DEF T
  <2>6. \A i \in 1 .. Len(x) : <<x[i], e>> \in NotAbove
    BY <1>4, <2>3 DEF NotAbove
  <2>7. \A j \in 1 .. Len(y) : <<e, y[j]>> \in NotAbove
    BY <1>4, <2>4 DEF NotAbove
  <2>8. ASSUME NEW i \in 1 .. Len(x), NEW j \in 1 .. Len(y) PROVE <<x[i], y[j]>> \in NotAbove
    <3>1. x[i] \in Levels /\ y[j] \in Levels /\ x[i].price \in Nat /\ y[j].price \in Nat /\ e.price \in Nat
      BY <1>4, <2>3, <2>4
    <3>2. x[i].price <= y[j].price
      BY <2>3, <2>4, <3>1
    <3>3. QED BY <3>1, <3>2 DEF NotAbove
  <2>9. OrderedBy(x \o <<e>> \o y, NotAbove)
    BY <2>2, <2>5, <2>6, <2>7, <2>8, InsertOrdered
  <2>10. x \o <<e>> \o y \in Seq(T)
    BY <2>5
  <2>11. QED BY <2>1, <2>9, <2>10
<1>7. Leads(step, Acc, T)
  <2> HIDE DEF Acc, T, low, high
  <2>1. QED BY <1>3, <1>6 DEF Leads
<1>8. Fold(step, <<>>, levels) \in Acc
  <2> DEFINE base == <<>>
  <2>1. base \in Acc
    BY <1>5
  <2> HIDE DEF base, Acc, T
  <2>2. Fold(step, base, levels) \in Acc
    BY <1>1, <1>7, <2>1, FoldType
  <2>3. QED BY <2>2 DEF base
<1>9. QED BY <1>2, <1>8

-----------------------------------------------------------------------------
(***************************************************************************)
(* The comparison of two lists of orders.                                  *)
(***************************************************************************)
LEMMA AlikeIsAnEquivalence ==
  ASSUME NEW a, NEW b, NEW c
  PROVE  /\ Same(a, a)
         /\ Same(a, b) <=> Same(b, a)
         /\ Same(a, b) => (Same(a, c) <=> Same(b, c))
  BY DEF Same

\* The places of a list where an order of a kind is, among some of its places.
PlacesOf(os, kind, among) == {i \in among : Same(kind, os[i])}

(* Places of a list are finitely many; a part of them is no more, and as many only if it is all. *)
LEMMA PlacesCounted ==
  ASSUME NEW T, NEW os \in Seq(T), NEW kind, NEW among, among \subseteq DOMAIN os
  PROVE  /\ IsFiniteSet(PlacesOf(os, kind, among))
         /\ Cardinality(PlacesOf(os, kind, among)) \in Nat
         /\ HowMany(os, kind) \in Nat
         /\ Cardinality(PlacesOf(os, kind, among)) <= HowMany(os, kind)
         /\ Cardinality(PlacesOf(os, kind, among)) = HowMany(os, kind)
              => PlacesOf(os, kind, among) = PlacesOf(os, kind, DOMAIN os)
<1> DEFINE all == PlacesOf(os, kind, DOMAIN os)
           some == PlacesOf(os, kind, among)
<1>1. IsFiniteSet(DOMAIN os)
  <2>1. DOMAIN os = 1 .. Len(os) /\ Len(os) \in Nat
    OBVIOUS
  <2>2. IsFiniteSet(1 .. Len(os))
    BY <2>1, FS_Interval
  <2>3. QED BY <2>1, <2>2
<1>2. all \subseteq DOMAIN os /\ some \subseteq all
  BY DEF PlacesOf
<1>3. HowMany(os, kind) = Cardinality(all)
  BY DEF HowMany, PlacesOf
<1> HIDE DEF all, some
<1>4. IsFiniteSet(all)
  BY <1>1, <1>2, FS_Subset
<1>5. IsFiniteSet(some) /\ Cardinality(some) <= Cardinality(all)
      /\ (Cardinality(some) = Cardinality(all) => some = all)
  BY <1>2, <1>4, FS_Subset
<1>6. Cardinality(all) \in Nat /\ Cardinality(some) \in Nat
  BY <1>4, <1>5, FS_CardinalityType
<1>7. QED BY <1>3, <1>5, <1>6 DEF all, some

(* One more order is one more of its kind. *)
LEMMA HowManyAppend ==
  ASSUME NEW T, NEW os \in Seq(T), NEW e \in T, NEW kind
  PROVE  HowMany(Append(os, e), kind) = HowMany(os, kind) + (IF Same(kind, e) THEN 1 ELSE 0)
<1> DEFINE t == Append(os, e)
           n == Len(os)
           before == PlacesOf(os, kind, DOMAIN os)
           after == PlacesOf(t, kind, DOMAIN t)
<1>1. /\ n \in Nat /\ DOMAIN os = 1 .. n /\ DOMAIN t = 1 .. n + 1 /\ t[n + 1] = e
      /\ \A i \in 1 .. n : t[i] = os[i]
  OBVIOUS
<1>2. IsFiniteSet(before) /\ HowMany(os, kind) \in Nat
  BY PlacesCounted
<1>3. HowMany(os, kind) = Cardinality(before) /\ HowMany(t, kind) = Cardinality(after)
  BY DEF HowMany, PlacesOf
<1>4. n + 1 \notin before
  BY <1>1 DEF PlacesOf
<1> HIDE DEF t
<1>5. CASE Same(kind, e)
  <2>1. after = before \cup {n + 1}
    BY <1>1, <1>5 DEF PlacesOf
  <2> HIDE DEF before, after, n
  <2>2. Cardinality(before \cup {n + 1}) = Cardinality(before) + 1
    BY <1>2, <1>4, FS_AddElement
  <2>3. QED BY <1>3, <1>5, <2>1, <2>2 DEF t
<1>6. CASE ~Same(kind, e)
  <2>1. after = before
    BY <1>1, <1>6 DEF PlacesOf
  <2>2. QED BY <1>2, <1>3, <1>6, <2>1 DEF t
<1>7. QED BY <1>5, <1>6

LEMMA HowManyOfNone == ASSUME NEW kind PROVE HowMany(<<>>, kind) = 0
<1>1. {i \in DOMAIN <<>> : Same(kind, <<>>[i])} = {}
  OBVIOUS
<1>2. QED BY <1>1, FS_EmptySet DEF HowMany

(* An order that is in a list is one of its kind. *)
LEMMA OneOfItsKind ==
  ASSUME NEW T, NEW os \in Seq(T), NEW i \in DOMAIN os
  PROVE  HowMany(os, os[i]) > 0
<1> DEFINE there == PlacesOf(os, os[i], DOMAIN os)
<1>1. i \in there
  BY AlikeIsAnEquivalence DEF PlacesOf
<1>2. IsFiniteSet(there) /\ HowMany(os, os[i]) \in Nat
  BY PlacesCounted
<1>3. HowMany(os, os[i]) = Cardinality(there)
  BY DEF HowMany, PlacesOf
<1> HIDE DEF there
<1>4. Cardinality(there) # 0
  BY <1>1, <1>2, FS_EmptySet
<1>5. QED BY <1>2, <1>3, <1>4

Results(T, actual) == [matched : SUBSET DOMAIN actual, missing : Seq(T)]

Taken(result, actual, kind) == Cardinality(PlacesOf(actual, kind, result.matched))

\* What the orders looked at so far have taken and left open: every order of a kind has one or is
\* missing, and one is missing only where all open orders of the kind are taken.
SplitsUp(d, result, actual, kind) ==
  /\ Taken(result, actual, kind) + HowMany(result.missing, kind) = HowMany(d, kind)
  /\ HowMany(result.missing, kind) > 0 => Taken(result, actual, kind) = HowMany(actual, kind)

LEMMA MatchKeepsSplit ==
  ASSUME NEW T, NEW U, NEW actual \in Seq(U), NEW d \in Seq(T), NEW w \in T, NEW kind,
         NEW result \in Results(T, actual), SplitsUp(d, result, actual, kind)
  PROVE  /\ Matched(result, w, actual) \in Results(T, actual)
         /\ SplitsUp(Append(d, w), Matched(result, w, actual), actual, kind)
<1> DEFINE free == {i \in DOMAIN actual \ result.matched : Same(w, actual[i])}
           after == Matched(result, w, actual)
           one == IF Same(kind, w) THEN 1 ELSE 0
           P == PlacesOf(actual, kind, result.matched)
<1>0. result.matched \subseteq DOMAIN actual /\ result.missing \in Seq(T)
      /\ result = [matched |-> result.matched, missing |-> result.missing]
  BY DEF Results
<1>1. HowMany(Append(d, w), kind) = HowMany(d, kind) + one
  BY HowManyAppend
<1>2. /\ IsFiniteSet(P) /\ Cardinality(P) \in Nat /\ HowMany(actual, kind) \in Nat
      /\ Cardinality(P) <= HowMany(actual, kind)
      /\ HowMany(d, kind) \in Nat /\ HowMany(result.missing, kind) \in Nat
  <2>1. /\ IsFiniteSet(P) /\ Cardinality(P) \in Nat /\ HowMany(actual, kind) \in Nat
        /\ Cardinality(P) <= HowMany(actual, kind)
    BY <1>0, PlacesCounted
  <2>2. HowMany(d, kind) \in Nat
    BY PlacesCounted
  <2>3. HowMany(result.missing, kind) \in Nat
    BY <1>0, PlacesCounted
  <2>4. QED BY <2>1, <2>2, <2>3
<1>3. Cardinality(P) + HowMany(result.missing, kind) = HowMany(d, kind)
      /\ (HowMany(result.missing, kind) > 0 => Cardinality(P) = HowMany(actual, kind))
  BY DEF SplitsUp, Taken
<1>4. CASE free # {}
  <2> DEFINE x == CHOOSE i \in free : \A k \in free : i <= k
             Q == PlacesOf(actual, kind, result.matched \cup {x})
  <2>1. x \in free
    <3>1. free \subseteq Nat
      OBVIOUS
    <3>2. \E i \in free : \A k \in free : i <= k
      <4> HIDE DEF free
      <4>1. QED BY <1>4, <3>1, LeastNatural
    <3>3. QED BY <3>2
  <2>2. x \in DOMAIN actual /\ x \notin result.matched /\ Same(w, actual[x])
    BY <2>1
  <2>3. after = [matched |-> result.matched \cup {x}, missing |-> result.missing]
    BY <1>0, <1>4 DEF Matched
  <2> HIDE DEF free, x, after
  <2>4. after \in Results(T, actual)
    BY <1>0, <2>2, <2>3 DEF Results
  <2>5. after.matched = result.matched \cup {x} /\ after.missing = result.missing
    BY <2>3
  <2>6. Cardinality(Q) = Cardinality(P) + one /\ Cardinality(Q) <= HowMany(actual, kind)
    <3>1. result.matched \cup {x} \subseteq DOMAIN actual
      BY <1>0, <2>2
    <3>2. Cardinality(Q) <= HowMany(actual, kind)
      BY <3>1, PlacesCounted
    <3>3. x \notin P
      BY <2>2 DEF PlacesOf
    <3>4. CASE Same(kind, w)
      <4>1. Same(kind, actual[x])
        BY <2>2, <3>4, AlikeIsAnEquivalence
      <4>2. Q = P \cup {x}
        BY <4>1 DEF PlacesOf
      <4> HIDE DEF P, Q
      <4>3. Cardinality(P \cup {x}) = Cardinality(P) + 1
        BY <1>2, <3>3, FS_AddElement
      <4>4. QED BY <3>2, <3>4, <4>2, <4>3
    <3>5. CASE ~Same(kind, w)
      <4>1. ~Same(kind, actual[x])
        BY <2>2, <3>5, AlikeIsAnEquivalence
      <4>2. Q = P
        BY <4>1 DEF PlacesOf
      <4> HIDE DEF P, Q
      <4>3. QED BY <1>2, <3>2, <3>5, <4>2
    <3>6. QED BY <3>4, <3>5
  <2>7. SplitsUp(Append(d, w), after, actual, kind)
    <3>1. Taken(after, actual, kind) = Cardinality(Q)
      BY <2>5 DEF Taken
    <3> HIDE DEF P, Q
    <3>2. one \in {0, 1}
      OBVIOUS
    <3> HIDE DEF one
    <3>3. Cardinality(Q) + HowMany(after.missing, kind) = HowMany(Append(d, w), kind)
      BY <1>1, <1>2, <1>3, <2>5, <2>6, <3>2
    <3>4. HowMany(after.missing, kind) > 0 => Cardinality(Q) = HowMany(actual, kind)
      BY <1>2, <1>3, <2>5, <2>6, <3>2
    <3>5. QED BY <3>1, <3>3, <3>4 DEF SplitsUp
  <2>8. QED BY <2>4, <2>7 DEF after
<1>5. CASE free = {}
  <2>1. after = [matched |-> result.matched, missing |-> Append(result.missing, w)]
    BY <1>0, <1>5 DEF Matched
  <2> HIDE DEF after
  <2>2. after \in Results(T, actual)
    BY <1>0, <2>1 DEF Results
  <2>3. after.matched = result.matched /\ after.missing = Append(result.missing, w)
    BY <2>1
  <2>4. HowMany(after.missing, kind) = HowMany(result.missing, kind) + one
    BY <1>0, <2>3, HowManyAppend
  <2>5. Same(kind, w) => Cardinality(P) = HowMany(actual, kind)
    <3>1. ASSUME Same(kind, w) PROVE P = PlacesOf(actual, kind, DOMAIN actual)
      <4>1. ASSUME NEW i \in DOMAIN actual, Same(kind, actual[i]) PROVE i \in result.matched
        <5>1. Same(w, actual[i])
          BY <3>1, <4>1, AlikeIsAnEquivalence
        <5>2. i \notin free
          BY <1>5
        <5>3. QED BY <5>1, <5>2
      <4>2. QED BY <1>0, <4>1 DEF PlacesOf
    <3>2. HowMany(actual, kind) = Cardinality(PlacesOf(actual, kind, DOMAIN actual))
      BY DEF HowMany, PlacesOf
    <3>3. QED BY <3>1, <3>2
  <2>6. SplitsUp(Append(d, w), after, actual, kind)
    <3>1. Taken(after, actual, kind) = Cardinality(P)
      BY <2>3 DEF Taken
    <3> HIDE DEF P
    <3>2. one = 0 \/ (one = 1 /\ Same(kind, w))
      OBVIOUS
    <3> HIDE DEF one
    <3>3. Cardinality(P) + HowMany(after.missing, kind) = HowMany(Append(d, w), kind)
      BY <1>1, <1>2, <1>3, <2>4, <3>2
    <3>4. HowMany(after.missing, kind) > 0 => Cardinality(P) = HowMany(actual, kind)
      BY <1>2, <1>3, <2>4, <2>5, <3>2
    <3>5. QED BY <3>1, <3>3, <3>4 DEF SplitsUp
  <2>7. QED BY <2>2, <2>6 DEF after
<1>6. QED BY <1>4, <1>5

(* reconcile splits the desired orders of every kind up that way. *)
LEMMA ReconcileSplits ==
  ASSUME NEW V, NEW U, NEW desired \in Seq(V), NEW actual \in Seq(U), NEW kind
  PROVE  /\ Reconcile(desired, actual) \in Results(Range(desired), actual)
         /\ SplitsUp(desired, Reconcile(desired, actual), actual, kind)
<1> DEFINE T == Range(desired)
           Acc == [matched : SUBSET DOMAIN actual, missing : Seq(T)]
           base == [matched |-> {}, missing |-> <<>>]
           step == [q \in Acc \X T |-> Matched(q[1], q[2], actual)]
           P == {d \in Seq(T) : Fold(step, base, d) \in Acc /\ SplitsUp(d, Fold(step, base, d), actual, kind)}
<1>1. desired \in Seq(T)
  BY SeqOfRange
<1>2. Reconcile(desired, actual) = Fold(step, base, desired)
  BY DEF Reconcile
<1>3. \A a \in Acc, e \in T : step[<<a, e>>] = Matched(a, e, actual)
  OBVIOUS
<1>4. Acc = Results(T, actual)
  BY DEF Results
<1>5. base \in Acc
  OBVIOUS
<1>6. base.matched = {} /\ base.missing = <<>>
  OBVIOUS
<1> HIDE DEF step, Acc, T, base
<1>7. SplitsUp(<<>>, base, actual, kind)
  <2>1. Taken(base, actual, kind) = 0
    <3>1. PlacesOf(actual, kind, {}) = {}
      BY DEF PlacesOf
    <3>2. QED BY <1>6, <3>1, FS_EmptySet DEF Taken
  <2>2. HowMany(<<>>, kind) = 0
    BY HowManyOfNone
  <2>3. QED BY <1>6, <2>1, <2>2 DEF SplitsUp
<1>8. ASSUME NEW a \in Acc, NEW e \in T PROVE Matched(a, e, actual) \in Acc
  <2> DEFINE f == {i \in DOMAIN actual \ a.matched : Same(e, actual[i])}
  <2>1. a.matched \subseteq DOMAIN actual /\ a.missing \in Seq(T)
        /\ a = [matched |-> a.matched, missing |-> a.missing]
    BY DEF Acc
  <2>2. CASE f = {}
    <3>1. Matched(a, e, actual) = [matched |-> a.matched, missing |-> Append(a.missing, e)]
      BY <2>1, <2>2 DEF Matched
    <3>2. QED BY <2>1, <3>1 DEF Acc
  <2>3. CASE f # {}
    <3> DEFINE x == CHOOSE i \in f : \A k \in f : i <= k
    <3>1. f \subseteq Nat
      OBVIOUS
    <3>2. \E i \in f : \A k \in f : i <= k
      <4> HIDE DEF f
      <4>1. QED BY <2>3, <3>1, LeastNatural
    <3>3. x \in DOMAIN actual
      BY <3>2
    <3>4. Matched(a, e, actual) = [matched |-> a.matched \cup {x}, missing |-> a.missing]
      BY <2>1, <2>3 DEF Matched
    <3> HIDE DEF x
    <3>5. QED BY <2>1, <3>3, <3>4 DEF Acc
  <2>4. QED BY <2>2, <2>3
<1>9. Leads(step, Acc, T)
  BY <1>3, <1>8 DEF Leads
<1>10. <<>> \in P
  <2>1. Fold(step, base, <<>>) = base /\ <<>> \in Seq(T)
    BY FoldEmpty
  <2>2. QED BY <1>5, <1>7, <2>1
<1>11. ASSUME NEW d \in Seq(T), NEW w \in T, d \in P PROVE Append(d, w) \in P
  <2>1. Fold(step, base, Append(d, w)) = step[<<Fold(step, base, d), w>>] /\ Fold(step, base, d) \in Acc
    BY <1>5, <1>9, FoldAppend
  <2>2. PICK a \in Acc : a = Fold(step, base, d)
    BY <2>1
  <2>3. SplitsUp(d, a, actual, kind) /\ a \in Results(T, actual)
    BY <1>4, <1>11, <2>2
  <2>4. Fold(step, base, Append(d, w)) = Matched(a, w, actual)
    BY <1>3, <2>1, <2>2
  <2>5. Matched(a, w, actual) \in Results(T, actual) /\ SplitsUp(Append(d, w), Matched(a, w, actual), actual, kind)
    BY <2>3, MatchKeepsSplit
  <2>6. Append(d, w) \in Seq(T)
    OBVIOUS
  <2>7. QED BY <1>4, <2>4, <2>5, <2>6
<1>12. Seq(T) \subseteq P
  <2> HIDE DEF P
  <2>1. QED BY <1>10, <1>11, SequenceInduction
<1>13. Fold(step, base, desired) \in Acc /\ SplitsUp(desired, Fold(step, base, desired), actual, kind)
  BY <1>1, <1>12
<1>14. QED BY <1>2, <1>4, <1>13 DEF T

(* A comparison is exact for every kind of order. *)
LEMMA ReconcileComparesKinds ==
  ASSUME NEW V, NEW U, NEW desired \in Seq(V), NEW actual \in Seq(U), NEW kind
  PROVE  LET result == Reconcile(desired, actual)
         IN /\ HowMany(result.missing, kind) = Larger(HowMany(desired, kind) - HowMany(actual, kind), 0)
            /\ Taken(result, actual, kind) = Smaller(HowMany(desired, kind), HowMany(actual, kind))
<1> DEFINE T == Range(desired)
<1>1. PICK result \in Results(T, actual) :
        result = Reconcile(desired, actual) /\ SplitsUp(desired, result, actual, kind)
  BY ReconcileSplits
<1>2. result.matched \subseteq DOMAIN actual /\ result.missing \in Seq(T)
  BY DEF Results
<1>3. /\ Taken(result, actual, kind) \in Nat
      /\ Taken(result, actual, kind) <= HowMany(actual, kind)
      /\ HowMany(actual, kind) \in Nat
  BY <1>2, PlacesCounted DEF Taken
<1>4. HowMany(result.missing, kind) \in Nat
  BY <1>2, PlacesCounted
<1>5. HowMany(desired, kind) \in Nat
  BY PlacesCounted
<1>6. PICK t \in Nat, a \in Nat, m \in Nat, d \in Nat :
        /\ t = Taken(result, actual, kind) /\ a = HowMany(actual, kind)
        /\ m = HowMany(result.missing, kind) /\ d = HowMany(desired, kind)
  BY <1>3, <1>4, <1>5
<1>7. t <= a /\ t + m = d /\ (m > 0 => t = a)
  BY <1>1, <1>3, <1>6 DEF SplitsUp
<1>8. m = Larger(d - a, 0) /\ t = Smaller(d, a)
  BY <1>7 DEF Larger, Smaller
<1>9. QED BY <1>1, <1>6, <1>8

(* ... and converged says that the lists agree. *)
LEMMA ConvergedIsAgreement ==
  ASSUME NEW V, NEW U, NEW desired \in Seq(V), NEW actual \in Seq(U)
  PROVE  Converged(actual, Reconcile(desired, actual)) <=>
           \A kind \in Range(desired) \cup Range(actual) : HowMany(desired, kind) = HowMany(actual, kind)
<1> DEFINE T == Range(desired)
           kinds == Range(desired) \cup Range(actual)
<1>1. PICK result \in Results(T, actual) : result = Reconcile(desired, actual)
  BY ReconcileSplits
<1>2. result.matched \subseteq DOMAIN actual /\ result.missing \in Seq(T) /\ actual \in Seq(U)
  BY DEF Results
<1>3. ASSUME NEW kind
      PROVE  /\ HowMany(result.missing, kind) = Larger(HowMany(desired, kind) - HowMany(actual, kind), 0)
             /\ Taken(result, actual, kind) = Smaller(HowMany(desired, kind), HowMany(actual, kind))
             /\ HowMany(desired, kind) \in Nat /\ HowMany(actual, kind) \in Nat
  <2>1. /\ HowMany(result.missing, kind) = Larger(HowMany(desired, kind) - HowMany(actual, kind), 0)
        /\ Taken(result, actual, kind) = Smaller(HowMany(desired, kind), HowMany(actual, kind))
    BY <1>1, ReconcileComparesKinds
  <2>2. HowMany(desired, kind) \in Nat /\ HowMany(actual, kind) \in Nat
    BY PlacesCounted
  <2>3. QED BY <2>1, <2>2
<1>4. ASSUME result.missing = <<>>, result.matched = DOMAIN actual, NEW kind \in kinds
      PROVE  HowMany(desired, kind) = HowMany(actual, kind)
  <2>1. HowMany(result.missing, kind) = 0
    BY <1>4, HowManyOfNone
  <2>2. Taken(result, actual, kind) = HowMany(actual, kind)
    BY <1>4 DEF Taken, HowMany, PlacesOf
  <2>3. PICK d \in Nat, a \in Nat : d = HowMany(desired, kind) /\ a = HowMany(actual, kind)
    BY <1>3
  <2>4. 0 = Larger(d - a, 0) /\ a = Smaller(d, a)
    BY <1>3, <2>1, <2>2, <2>3
  <2>5. d = a
    BY <2>4 DEF Larger, Smaller
  <2>6. QED BY <2>3, <2>5
<1>5. ASSUME \A kind \in kinds : HowMany(desired, kind) = HowMany(actual, kind)
      PROVE  result.missing = <<>> /\ DOMAIN actual \ result.matched = {}
  <2>1. ASSUME result.missing # <<>> PROVE FALSE
    <3>1. 1 \in DOMAIN result.missing /\ result.missing[1] \in T
      BY <1>2, <2>1
    <3>2. PICK kind \in T : kind = result.missing[1]
      BY <3>1
    <3>3. HowMany(result.missing, kind) > 0
      BY <1>2, <3>1, <3>2, OneOfItsKind
    <3>4. HowMany(desired, kind) = HowMany(actual, kind)
      BY <1>5, <3>2
    <3>5. PICK a \in Nat : a = HowMany(actual, kind)
      BY <1>3
    <3>6. HowMany(result.missing, kind) = Larger(a - a, 0)
      BY <1>3, <3>4, <3>5
    <3>7. QED BY <3>3, <3>6 DEF Larger
  <2>2. ASSUME NEW i \in DOMAIN actual, i \notin result.matched PROVE FALSE
    <3>1. PICK kind \in kinds : kind = actual[i]
      BY DEF Range
    <3>2. PICK a \in Nat : a = HowMany(actual, kind) /\ a = HowMany(desired, kind)
      BY <1>3, <1>5
    <3>3. Taken(result, actual, kind) = a
      <4>1. Taken(result, actual, kind) = Smaller(a, a)
        BY <1>3, <3>2
      <4>2. QED BY <4>1 DEF Smaller
    <3>4. PlacesOf(actual, kind, result.matched) = PlacesOf(actual, kind, DOMAIN actual)
      <4>1. Cardinality(PlacesOf(actual, kind, result.matched)) = HowMany(actual, kind)
        BY <3>2, <3>3 DEF Taken
      <4>2. QED BY <1>2, <4>1, PlacesCounted
    <3>5. i \in PlacesOf(actual, kind, DOMAIN actual)
      BY <3>1, AlikeIsAnEquivalence DEF PlacesOf
    <3>6. i \in result.matched
      BY <3>4, <3>5 DEF PlacesOf
    <3>7. QED BY <2>2, <3>6
  <2>3. QED BY <2>1, <2>2
<1>6. Converged(actual, result) <=> result.missing = <<>> /\ DOMAIN actual \ result.matched = {}
  BY DEF Converged, Unmanaged
<1>7. DOMAIN actual \ result.matched = {} <=> result.matched = DOMAIN actual
  BY <1>2
<1>8. QED BY <1>1, <1>4, <1>5, <1>6, <1>7

-----------------------------------------------------------------------------
(***************************************************************************)
(* Arithmetic of the plans.                                                *)
(***************************************************************************)
LEMMA Quotient ==
  \A n \in Nat, k \in Nat : k > 0 => /\ n \div k \in Nat
                                     /\ k * (n \div k) <= n /\ (n \div k) * k <= n
<1> SUFFICES ASSUME NEW n \in Nat, NEW k \in Nat, k > 0
             PROVE  n \div k \in Nat /\ k * (n \div k) <= n /\ (n \div k) * k <= n
  OBVIOUS
<1>1. PICK down \in Int, rest \in Nat : down = n \div k /\ rest = n % k
  OBVIOUS
<1>2. n = k * down + rest /\ rest < k
  BY <1>1
<1>3. down \in Nat
  BY <1>1
<1>4. k * down <= n /\ k * down = down * k
  BY <1>2
<1>5. QED BY <1>1, <1>3, <1>4

(* Rounding is to a nearest integer, and to the even one of two. *)
LEMMA RoundsToNearest ==
  ASSUME NEW n \in Int, NEW d \in Nat, d > 0
  PROVE  LET k == RoundHalfEven(n, d)
         IN /\ k \in Int
            /\ 2 * (k * d - n) <= d /\ 2 * (n - k * d) <= d
            /\ 2 * (k * d - n) = d \/ 2 * (n - k * d) = d => k % 2 = 0
<1>1. PICK down \in Int, rest \in Nat : down = n \div d /\ rest = n % d
  OBVIOUS
<1>2. n = d * down + rest /\ rest < d
  BY <1>1
<1>3. down % 2 \in {0, 1} /\ (down % 2 = 1 => (down + 1) % 2 = 0)
  OBVIOUS
<1>4. RoundHalfEven(n, d) = IF 2 * rest > d \/ (2 * rest = d /\ down % 2 = 1) THEN down + 1 ELSE down
  BY <1>1 DEF RoundHalfEven
<1>5. PICK product \in Int : product = d * down
  OBVIOUS
<1>6. down * d = product /\ (down + 1) * d = product + d
  BY <1>5
<1>7. n = product + rest
  BY <1>2, <1>5
<1>8. CASE 2 * rest > d \/ (2 * rest = d /\ down % 2 = 1)
  <2>1. RoundHalfEven(n, d) = down + 1
    BY <1>4, <1>8
  <2>2. 2 * ((product + d) - n) <= d /\ 2 * (n - (product + d)) < d
    BY <1>2, <1>7, <1>8
  <2>3. 2 * ((product + d) - n) = d => down % 2 = 1
    BY <1>7, <1>8
  <2>4. QED BY <1>3, <1>6, <2>1, <2>2, <2>3
<1>9. CASE ~(2 * rest > d \/ (2 * rest = d /\ down % 2 = 1))
  <2>1. RoundHalfEven(n, d) = down
    BY <1>4, <1>9
  <2>2. 2 * (product - n) < d /\ 2 * (n - product) <= d
    BY <1>2, <1>7, <1>9
  <2>3. 2 * (n - product) = d => down % 2 = 0
    BY <1>3, <1>7, <1>9
  <2>4. QED BY <1>6, <2>1, <2>2, <2>3
<1>10. QED BY <1>8, <1>9

(* Whatever share of the range the mid gives a side, and however it rounds, neither side has more
   levels than the venue takes in a bulk order and neither is empty, and none of the configured
   levels is dropped (lib.rs:2206-2260). *)
THEOREM SidesFitTheVenue ==
  ASSUME NEW c, Valid(c), NEW r, NEW at \in Int, r.lower \in Int, r.upper \in Int, r.lower < r.upper
  PROVE  LET n == SideCounts(c, r, at)
             directed == c.product = "perp" /\ c.mode \in {"long", "short"}
         IN /\ n.bid \in 1 .. MaxPerSide /\ n.ask \in 1 .. MaxPerSide
            /\ n.bid + n.ask = IF directed THEN c.total + 1 ELSE c.total
<1>1. c.total \in Nat /\ 2 <= c.total /\ c.total <= 2 * MaxPerSide
      /\ MaxPerSide \in Nat /\ MaxPerSide >= 1
      /\ (c.product = "perp" /\ c.mode # "neutral" => c.total <= MaxPerSide)
  BY GridPlanningAssumption DEF Valid, GridPlanningAssumption
<1>2. CASE c.product = "perp" /\ c.mode = "long"
  <2>1. SideCounts(c, r, at) = [bid |-> c.total, ask |-> 1]
    BY <1>2 DEF SideCounts
  <2>2. QED BY <1>1, <1>2, <2>1
<1>3. CASE c.product = "perp" /\ c.mode = "short"
  <2>1. SideCounts(c, r, at) = [bid |-> 1, ask |-> c.total]
    BY <1>3 DEF SideCounts
  <2>2. QED BY <1>1, <1>3, <2>1
<1>4. CASE ~(c.product = "perp" /\ c.mode \in {"long", "short"})
  <2> DEFINE share == RoundHalfEven(c.total * (at - r.lower), r.upper - r.lower)
             low == Larger(c.total - MaxPerSide, 1)
             high == Smaller(MaxPerSide, c.total - 1)
             bids == Within(share, low, high)
  <2>1. SideCounts(c, r, at) = [bid |-> bids, ask |-> c.total - bids]
    BY <1>4 DEF SideCounts
  <2>2. share \in Int
    <3>1. c.total * (at - r.lower) \in Int /\ r.upper - r.lower \in Nat /\ r.upper - r.lower > 0
      BY <1>1
    <3>2. QED BY <3>1, RoundsToNearest
  <2> HIDE DEF share
  <2>3. low \in Int /\ high \in Int /\ low <= high /\ 1 <= low /\ c.total - MaxPerSide <= low
        /\ high <= MaxPerSide /\ high <= c.total - 1
    BY <1>1 DEF Larger, Smaller
  <2> HIDE DEF low, high
  <2>4. bids \in Int /\ low <= bids /\ bids <= high
    BY <2>2, <2>3 DEF Within, Larger, Smaller
  <2> HIDE DEF bids
  <2>5. /\ bids \in 1 .. MaxPerSide /\ c.total - bids \in 1 .. MaxPerSide
        /\ bids + (c.total - bids) = c.total
    BY <1>1, <2>3, <2>4
  <2>6. QED BY <1>4, <2>1, <2>5
<1>5. QED BY <1>2, <1>3, <1>4

\* What a configuration that validate accepts has in common with others.
ConfigTypes(c) ==
  /\ c.total \in Nat /\ 2 <= c.total /\ c.fee \in Nat /\ c.fee < FeeUnit
  /\ c.leverage \in Nat /\ c.leverage > 0 /\ c.amount \in Nat /\ c.amount > 0
  /\ c.product \in {"spot", "perp"} /\ c.allocation \in {"budget", "fixed"}
  /\ c.range \in {"bounds", "percent", "step"}
  /\ c.range = "bounds" => c.lower \in Nat /\ c.upper \in Nat /\ 0 < c.lower /\ c.lower < c.upper
  /\ c.range # "bounds" => c.percent \in 1 .. 99
  /\ c.quote # NoPlan => c.quote \in Nat /\ c.quote > 0
  /\ c.base # NoPlan => c.base \in Nat

LEMMA ValidTypes == ASSUME NEW c \in Settings, Valid(c) PROVE ConfigTypes(c)
<1>1. c \in Configs
  BY GridPlanningAssumption DEF GridPlanningAssumption
<1>2. /\ c.lower \in Int /\ c.upper \in Int /\ c.percent \in Int /\ c.total \in Int /\ c.amount \in Int
      /\ c.fee \in Int /\ c.leverage \in Int /\ c.margin \in Int
      /\ c.product \in {"spot", "perp"} /\ c.allocation \in {"budget", "fixed"}
      /\ c.range \in {"bounds", "percent", "step"}
      /\ c.quote \in Int \cup {NoPlan} /\ c.base \in Int \cup {NoPlan}
  BY <1>1 DEF Configs
<1>3. c.total \in Nat /\ 2 <= c.total
  BY <1>2, GridPlanningAssumption DEF Valid, GridPlanningAssumption
<1>4. c.fee \in Nat /\ c.fee < FeeUnit /\ c.leverage \in Nat /\ c.leverage > 0 /\ c.amount \in Nat /\ c.amount > 0
  BY <1>2 DEF Valid, FeeUnit
<1>5. /\ c.range = "bounds" => c.lower \in Nat /\ c.upper \in Nat /\ 0 < c.lower /\ c.lower < c.upper
      /\ c.range # "bounds" => c.percent \in 1 .. 99
  BY <1>2 DEF Valid
<1>6. /\ c.quote # NoPlan => c.quote \in Nat /\ c.quote > 0
      /\ c.base # NoPlan => c.base \in Nat
  BY <1>2 DEF Valid
<1>7. QED BY <1>2, <1>3, <1>4, <1>5, <1>6 DEF ConfigTypes

(* The range of a valid configuration has a width, and no bound below zero. *)
LEMMA RangeHasWidth ==
  ASSUME NEW c, ConfigTypes(c), NEW m \in Nat, m > 0
  PROVE  LET r == ResolvedRange(c, m)
         IN /\ Parts(c) \in Nat /\ Parts(c) > 0
            /\ r.lower \in Nat /\ r.upper \in Nat /\ r.lower < r.upper
<1>1. CASE c.range = "bounds"
  <2>1. Parts(c) = 1 /\ ResolvedRange(c, m) = [lower |-> c.lower, upper |-> c.upper]
    BY <1>1 DEF Parts, ResolvedRange
  <2>2. QED BY <1>1, <2>1 DEF ConfigTypes
<1>2. CASE c.range = "percent"
  <2>1. Parts(c) = 100
        /\ ResolvedRange(c, m) = [lower |-> m * (100 - c.percent), upper |-> m * (100 + c.percent)]
    BY <1>2 DEF Parts, ResolvedRange
  <2>2. PICK low \in Nat, high \in Nat : low = 100 - c.percent /\ high = 100 + c.percent /\ low < high
    BY <1>2 DEF ConfigTypes
  <2>3. low * m < high * m /\ low * m = m * low /\ high * m = m * high
    BY <2>2, Monotone, ProductLaws
  <2>4. m * low \in Nat /\ m * high \in Nat
    BY ProductLaws
  <2>5. m * low < m * high
    BY <2>3
  <2>6. QED BY <2>1, <2>2, <2>4, <2>5
<1>3. CASE c.range = "step"
  <2>1. /\ Parts(c) = Power(100, c.total)
        /\ ResolvedRange(c, m) = [lower |-> m * Power(100 - c.percent, c.total),
                                  upper |-> m * Power(100 + c.percent, c.total)]
    BY <1>3 DEF Parts, ResolvedRange
  <2>2. PICK low \in Nat, high \in Nat :
          low = 100 - c.percent /\ high = 100 + c.percent /\ low < 100 /\ 100 < high /\ 0 < low
    BY <1>3 DEF ConfigTypes
  <2>3. c.total \in Nat /\ c.total > 0
    BY DEF ConfigTypes
  <2>4. PICK n \in Nat : n = c.total /\ n > 0
    BY <2>3
  <2>5. Power(low, n) \in Nat /\ Power(100, n) \in Nat \ {0} /\ Power(high, n) \in Nat /\ Power(low, n) < Power(high, n)
    <3>1. low > 0 /\ low < high
      BY <2>2
    <3>2. Power(low, n) \in Nat \ {0} /\ Power(high, n) \in Nat \ {0} /\ Power(low, n) < Power(high, n)
      <4>1. \A k \in Nat : /\ Power(low, k) \in Nat \ {0} /\ Power(high, k) \in Nat \ {0}
                           /\ k > 0 => Power(low, k) < Power(high, k)
        BY <3>1, PowerMonotone
      <4>2. QED BY <2>4, <4>1
    <3>3. Power(100, n) \in Nat \ {0}
      <4> DEFINE h == 100
      <4>1. h \in Nat /\ low < h
        BY <2>2
      <4> HIDE DEF h
      <4>2. \A k \in Nat : Power(h, k) \in Nat \ {0}
        BY <3>1, <4>1, PowerMonotone
      <4>3. QED BY <4>2 DEF h
    <3>4. QED BY <3>2, <3>3
  <2>6. PICK x \in Nat, y \in Nat : x = Power(low, n) /\ y = Power(high, n) /\ x < y
    BY <2>5
  <2>7. x * m < y * m /\ x * m = m * x /\ y * m = m * y /\ m * x \in Nat /\ m * y \in Nat
    BY <2>6, Monotone, ProductLaws
  <2>8. m * x < m * y
    BY <2>7
  <2>9. ResolvedRange(c, m) = [lower |-> m * x, upper |-> m * y] /\ Parts(c) = Power(100, n)
    BY <2>1, <2>2, <2>4, <2>6
  <2>10. QED BY <2>5, <2>7, <2>8, <2>9
<1>4. QED BY <1>1, <1>2, <1>3 DEF ConfigTypes

(* Where a plan is measured from: within the range. *)
LEMMA MidWithinRange ==
  ASSUME NEW c, ConfigTypes(c), NEW m \in Nat, m > 0, MidAllowed(c, ResolvedRange(c, m), m)
  PROVE  LET r == ResolvedRange(c, m)
             at == AllocationMid(c, r, m)
         IN /\ at \in Nat /\ r.lower <= at /\ at <= r.upper
            /\ c.product = "perp" => at = m * Parts(c)
<1> DEFINE r == ResolvedRange(c, m)
           scaled == m * Parts(c)
<1>1. r.lower \in Nat /\ r.upper \in Nat /\ r.lower < r.upper /\ Parts(c) \in Nat
  BY RangeHasWidth
<1>2. scaled \in Nat
  BY <1>1, ProductLaws
<1>3. c.product = "perp" => r.lower < scaled /\ scaled < r.upper
  BY DEF MidAllowed
<1>4. AllocationMid(c, r, m) = IF c.product = "spot" THEN Within(scaled, r.lower, r.upper) ELSE scaled
  BY DEF AllocationMid
<1>5. c.product \in {"spot", "perp"}
  BY DEF ConfigTypes
<1> HIDE DEF r, scaled
<1>6. CASE c.product = "spot"
  <2>1. PICK x \in Nat, l \in Nat, u \in Nat : x = scaled /\ l = r.lower /\ u = r.upper /\ l < u
    BY <1>1, <1>2
  <2>2. Within(x, l, u) \in Nat /\ l <= Within(x, l, u) /\ Within(x, l, u) <= u
    BY <2>1 DEF Within, Larger, Smaller
  <2>3. QED BY <1>4, <1>6, <2>1, <2>2 DEF r
<1>7. CASE c.product = "perp"
  <2>1. AllocationMid(c, r, m) = scaled
    BY <1>4, <1>7
  <2>2. r.lower <= scaled /\ scaled <= r.upper
    BY <1>1, <1>2, <1>3, <1>7
  <2>3. QED BY <1>2, <1>7, <2>1, <2>2 DEF r, scaled
<1>8. QED BY <1>5, <1>6, <1>7

\* The ratio that a price is rounded down from.
IsRatio(q) == q[1] \in Nat /\ q[2] \in Nat /\ q[2] > 0

(* A price before it is rounded is a ratio; of a Perp grid it is on its side of the mid. *)
LEMMA RawPrices ==
  ASSUME NEW c, ConfigTypes(c), NEW m \in Nat, m > 0, NEW side \in Sides, NEW r, NEW at \in Nat,
         r.lower \in Nat, r.upper \in Nat, r.lower <= at, at <= r.upper,
         NEW count \in Nat, NEW i \in 1 .. count
  PROVE  LET q == Raw(c, side, r, at, m, count, i)
         IN /\ IsRatio(q)
            /\ at = m * Parts(c) /\ side = "bid" => q[1] <= m * q[2]
            /\ at = m * Parts(c) /\ side = "ask" => m * q[2] <= q[1]
<1> DEFINE q == Raw(c, side, r, at, m, count, i)
<1>0. side = "bid" \/ side = "ask"
  BY DEF Sides
<1>1. CASE c.range = "step"
  <2>1. PICK low \in Nat, high \in Nat, n \in Nat :
          low = 100 - c.percent /\ high = 100 + c.percent /\ low < 100 /\ 100 < high /\ 0 < low /\ n = i
    BY <1>1 DEF ConfigTypes
  <2>2. /\ Power(low, n) \in Nat /\ Power(100, n) \in Nat \ {0} /\ Power(high, n) \in Nat
        /\ Power(low, n) <= Power(100, n) /\ Power(100, n) <= Power(high, n)
    <3> DEFINE h == 100
    <3>1. h \in Nat /\ h > 0 /\ low < h /\ h < high
      BY <2>1
    <3> HIDE DEF h
    <3>2. Power(low, n) \in Nat \ {0} /\ Power(h, n) \in Nat \ {0} /\ Power(low, n) <= Power(h, n)
      BY <2>1, <3>1, PowerMonotone
    <3>3. Power(high, n) \in Nat \ {0} /\ Power(h, n) <= Power(high, n)
      <4>1. \A k \in Nat : Power(high, k) \in Nat \ {0} /\ Power(h, k) <= Power(high, k)
        BY <3>1, PowerMonotone
      <4>2. QED BY <4>1
    <3>4. QED BY <3>2, <3>3 DEF h
  <2>3. PICK x \in Nat, y \in Nat, z \in Nat : x = Power(low, n) /\ y = Power(100, n) /\ z = Power(high, n)
                                               /\ x <= y /\ y <= z /\ y > 0
    BY <2>2
  <2>4. m * x \in Nat /\ m * z \in Nat /\ m * x <= m * y /\ m * y <= m * z
    <3>1. m <= m
      OBVIOUS
    <3>2. QED BY <2>3, <3>1, Monotone, ProductLaws
  <2>5. CASE side = "bid"
    <3>1. q = <<m * x, y>>
      BY <1>1, <2>1, <2>3, <2>5 DEF Raw
    <3>2. QED BY <2>3, <2>4, <2>5, <3>1 DEF IsRatio
  <2>6. CASE side = "ask"
    <3>1. q = <<m * z, y>>
      BY <1>1, <2>1, <2>3, <2>6 DEF Raw
    <3>2. QED BY <2>3, <2>4, <2>6, <3>1 DEF IsRatio
  <2>7. QED BY <1>0, <2>5, <2>6
<1>2. CASE c.range # "step"
  <2>1. PICK parts \in Nat : parts = Parts(c) /\ parts > 0
    BY RangeHasWidth
  <2>2. PICK bound \in Nat : bound = IF side = "bid" THEN r.lower ELSE r.upper
    OBVIOUS
  <2>3. q = <<at * (count - i) + bound * i, parts * count>>
    BY <1>2, <2>1, <2>2 DEF Raw
  <2>4. PICK rest \in Nat, k \in Nat : rest = count - i /\ k = i /\ count = rest + k /\ k > 0
    OBVIOUS
  <2>5. at * rest \in Nat /\ bound * k \in Nat /\ parts * count \in Nat /\ parts * count > 0
    BY <2>1, <2>4, ProductLaws
  <2>6. PICK x \in Nat, y \in Nat, d \in Nat : x = at * rest /\ y = bound * k /\ d = parts * count /\ d > 0
    BY <2>5
  <2>7. q = <<x + y, d>>
    BY <2>3, <2>4, <2>6
  <2>8. IsRatio(q)
    BY <2>6, <2>7 DEF IsRatio
  <2>9. PICK z \in Nat : z = at * k
    BY ProductLaws
  <2>10. at * count = x + z
    BY <2>4, <2>6, <2>9, ProductLaws
  <2>11. m * d = (m * parts) * count
    BY <2>6, ProductLaws
  <2>12. CASE side = "bid"
    <3>1. bound <= at
      BY <2>2, <2>12
    <3>2. y <= z
      BY <2>4, <2>6, <2>9, <3>1, Monotone
    <3>3. at = m * parts => x + y <= m * d
      BY <2>10, <2>11, <3>2
    <3>4. QED BY <2>1, <2>7, <2>8, <2>12, <3>3
  <2>13. CASE side = "ask"
    <3>1. at <= bound
      BY <2>2, <2>13
    <3>2. z <= y
      BY <2>4, <2>6, <2>9, <3>1, Monotone
    <3>3. at = m * parts => m * d <= x + y
      BY <2>10, <2>11, <3>2
    <3>4. QED BY <2>1, <2>7, <2>8, <2>13, <3>3
  <2>14. QED BY <1>0, <2>12, <2>13
<1>3. QED BY <1>1, <1>2

(* Rounding to a tick keeps a price on its side of the tick at or below the mid. *)
LEMMA RoundedPrices ==
  ASSUME NEW q, IsRatio(q), NEW m \in Nat
  PROVE  /\ RoundDown(q) \in Nat
         /\ q[1] <= m * q[2] => RoundDown(q) <= Tick * (m \div Tick)
         /\ m * q[2] <= q[1] => Tick * (m \div Tick) <= RoundDown(q)
<1>1. PICK n \in Nat, d \in Nat : n = q[1] /\ d = q[2] /\ d > 0
  BY DEF IsRatio
<1>2. PICK e \in Nat : e = d * 2 /\ e > 0
  BY <1>1
<1>3. PICK down \in Int, rest \in Nat : down = n \div e /\ rest = n % e
  BY <1>2
<1>4. n = e * down + rest /\ rest < e /\ down \in Nat
  BY <1>2, <1>3
<1>5. PICK k \in Nat, half \in Nat : k = m \div 2 /\ half = m % 2 /\ m = 2 * k + half /\ half < 2
  OBVIOUS
<1>6. RoundDown(q) = 2 * down /\ Tick * (m \div Tick) = 2 * k
  BY <1>1, <1>2, <1>3, <1>5 DEF RoundDown, Tick
<1>7. PICK x \in Nat, y \in Nat, h \in Nat : x = d * down /\ y = d * k /\ h = half * d
  BY <1>4, ProductLaws
<1>8. e * down = 2 * x /\ m * d = 2 * y + h /\ (half = 0 => h = 0) /\ (half = 1 => h = d)
  <2>1. e * down = 2 * x
    BY <1>2, <1>4, <1>7
  <2>2. m * d = 2 * y + h
    BY <1>5, <1>7
  <2>3. (half = 0 => h = 0) /\ (half = 1 => h = d)
    BY <1>7
  <2>4. QED BY <2>1, <2>2, <2>3
<1>9. half = 0 \/ half = 1
  BY <1>5
<1>10. ASSUME n <= m * d PROVE down <= k
  <2>1. 2 * x <= 2 * y + h
    BY <1>4, <1>8, <1>10
  <2>2. SUFFICES ASSUME k + 1 <= down PROVE FALSE
    BY <1>4
  <2>3. (k + 1) * d <= down * d /\ down * d = x /\ (k + 1) * d = y + d
    <3>1. (k + 1) * d <= down * d
      BY <1>4, <2>2, Monotone
    <3>2. down * d = x
      BY <1>4, <1>7, ProductLaws
    <3>3. (k + 1) * d = y + d
      BY <1>7
    <3>4. QED BY <3>1, <3>2, <3>3
  <2>4. QED BY <1>1, <1>8, <1>9, <2>1, <2>3
<1>11. ASSUME m * d <= n PROVE k <= down
  <2>1. 2 * y <= 2 * x + rest
    BY <1>4, <1>8, <1>9, <1>11
  <2>2. SUFFICES ASSUME down + 1 <= k PROVE FALSE
    BY <1>4
  <2>3. (down + 1) * d <= k * d /\ k * d = y /\ (down + 1) * d = x + d
    <3>1. (down + 1) * d <= k * d
      BY <1>4, <2>2, Monotone
    <3>2. k * d = y
      BY <1>7, ProductLaws
    <3>3. (down + 1) * d = x + d
      BY <1>4, <1>7
    <3>4. QED BY <3>1, <3>2, <3>3
  <2>4. QED BY <1>1, <1>2, <1>4, <2>1, <2>3
<1>12. RoundDown(q) \in Nat
  BY <1>4, <1>6
<1>13. QED BY <1>1, <1>4, <1>5, <1>6, <1>10, <1>11, <1>12

-----------------------------------------------------------------------------
(***************************************************************************)
(* The prices and the sizes of a plan.                                     *)
(***************************************************************************)
Outwards(side, prices) == \A i, j \in 1 .. Len(prices) : i < j => Better(side, prices[i], prices[j])

\* The tick at or below the mid.
MidTick(m) == Tick * (m \div Tick)

OnItsSide(side, m, prices) ==
  \A i \in 1 .. Len(prices) :
    IF side = "bid" THEN prices[i] <= MidTick(m) ELSE MidTick(m) <= prices[i]

(* The prices of a side go outwards, and there is one and are no more than its count. *)
LEMMA SidePrices ==
  ASSUME NEW c, ConfigTypes(c), NEW m \in Nat, m > 0, NEW side \in Sides, NEW r, NEW at \in Nat,
         r.lower \in Nat, r.upper \in Nat, r.lower <= at, at <= r.upper,
         NEW count \in Nat, count > 0
  PROVE  LET prices == PricesOf(c, side, r, at, m, count)
         IN /\ prices \in Seq(Nat) /\ Len(prices) \in 1 .. count
            /\ Outwards(side, prices)
            /\ at = m * Parts(c) => OnItsSide(side, m, prices)
<1> DEFINE ratio(i) == Raw(c, side, r, at, m, count, i)
           v == [i \in 1 .. count |-> RoundDown(ratio(i))]
           a == Ascending(v)
           prices == PricesOf(c, side, r, at, m, count)
           fits(p) == IF side = "bid" THEN p <= MidTick(m) ELSE MidTick(m) <= p
<1>0. side = "bid" \/ side = "ask"
  BY DEF Sides
<1>1. ASSUME NEW i \in 1 .. count
      PROVE  RoundDown(ratio(i)) \in Nat /\ (at = m * Parts(c) => fits(RoundDown(ratio(i))))
  <2>1. /\ IsRatio(ratio(i))
        /\ at = m * Parts(c) /\ side = "bid" => ratio(i)[1] <= m * ratio(i)[2]
        /\ at = m * Parts(c) /\ side = "ask" => m * ratio(i)[2] <= ratio(i)[1]
    BY RawPrices
  <2> HIDE DEF ratio
  <2>2. /\ RoundDown(ratio(i)) \in Nat
        /\ ratio(i)[1] <= m * ratio(i)[2] => RoundDown(ratio(i)) <= MidTick(m)
        /\ m * ratio(i)[2] <= ratio(i)[1] => MidTick(m) <= RoundDown(ratio(i))
    BY <2>1, RoundedPrices DEF MidTick
  <2>3. QED BY <1>0, <2>1, <2>2
<1> HIDE DEF ratio
<1>2. v \in Seq(Nat) /\ Len(v) = count /\ v # <<>>
  BY <1>1
<1>3. \A i \in 1 .. count : at = m * Parts(c) => fits(v[i])
  BY <1>1
<1> HIDE DEF v
<1>4. /\ a \in Seq(Nat) /\ OrderedBy(a, Less) /\ Len(a) <= count /\ a # <<>>
      /\ \A i \in 1 .. Len(a) : \E j \in 1 .. count : a[i] = v[j]
  BY <1>2, AscendingSorts
<1>5. prices = IF side = "bid" THEN Reverse(a) ELSE a
  BY DEF PricesOf, v, ratio
<1> HIDE DEF a, prices
<1>6. \A i \in 1 .. Len(a) : at = m * Parts(c) => fits(a[i])
  BY <1>3, <1>4
<1>7. Len(a) \in 1 .. count
  BY <1>4
<1>8. CASE side = "bid"
  <2>1. /\ Reverse(a) \in Seq(Nat) /\ Len(Reverse(a)) = Len(a)
        /\ \A i, j \in 1 .. Len(a) : i < j => <<Reverse(a)[j], Reverse(a)[i]>> \in Less
    BY <1>4, ReverseOrdered
  <2>2. Outwards(side, prices)
    BY <1>5, <1>8, <2>1 DEF Outwards, Better, Less
  <2>3. ASSUME NEW i \in 1 .. Len(a) PROVE at = m * Parts(c) => fits(Reverse(a)[i])
    <3>1. PICK n \in Nat : n = Len(a)
      BY <1>4
    <3>2. n - i + 1 \in 1 .. n
      BY <3>1
    <3>3. Reverse(a)[i] = a[n - i + 1]
      BY <3>1 DEF Reverse
    <3>4. QED BY <1>6, <3>1, <3>2, <3>3
  <2>4. at = m * Parts(c) => OnItsSide(side, m, prices)
    BY <1>5, <1>8, <2>1, <2>3 DEF OnItsSide
  <2>5. prices \in Seq(Nat) /\ Len(prices) \in 1 .. count
    BY <1>5, <1>7, <1>8, <2>1
  <2>6. QED BY <2>2, <2>4, <2>5 DEF prices
<1>9. CASE side = "ask"
  <2>1. Outwards(side, a)
    BY <1>4, <1>9 DEF Outwards, Better, Less, OrderedBy
  <2>2. at = m * Parts(c) => OnItsSide(side, m, a)
    BY <1>6, <1>9 DEF OnItsSide
  <2>3. prices = a
    BY <1>5, <1>9
  <2>4. QED BY <1>4, <1>7, <2>1, <2>2, <2>3 DEF prices
<1>10. QED BY <1>0, <1>8, <1>9

PlanPrices(c, m) == GridPrices(c, ResolvedRange(c, m), AllocationMid(c, ResolvedRange(c, m), m), m)

SoundPrices(c, m, prices) ==
  /\ prices = [side \in Sides |-> prices[side]]
  /\ \A side \in Sides :
       /\ prices[side] \in Seq(Nat) /\ Len(prices[side]) \in 1 .. MaxPerSide
       /\ Outwards(side, prices[side])
       /\ c.product = "perp" => OnItsSide(side, m, prices[side])

LEMMA PricesAreSound ==
  ASSUME NEW c \in Settings, Valid(c), NEW m \in Mids, MidAllowed(c, ResolvedRange(c, m), m)
  PROVE  SoundPrices(c, m, PlanPrices(c, m))
<1> DEFINE r == ResolvedRange(c, m)
           at == AllocationMid(c, r, m)
           count == SideCounts(c, r, at)
           prices == PlanPrices(c, m)
<1>1. ConfigTypes(c) /\ m \in Nat /\ m > 0
  BY ValidTypes, GridPlanningAssumption DEF GridPlanningAssumption
<1>2. r.lower \in Nat /\ r.upper \in Nat /\ r.lower < r.upper
  BY <1>1, RangeHasWidth
<1>3. at \in Nat /\ r.lower <= at /\ at <= r.upper /\ (c.product = "perp" => at = m * Parts(c))
  BY <1>1, MidWithinRange
<1>4. prices = [side \in Sides |-> PricesOf(c, side, r, at, m, count[side])]
  BY DEF PlanPrices, GridPrices
<1> HIDE DEF r, at, prices
<1>5. count.bid \in 1 .. MaxPerSide /\ count.ask \in 1 .. MaxPerSide
  <2>1. at \in Int /\ r.lower \in Int /\ r.upper \in Int /\ r.lower < r.upper
    BY <1>2, <1>3
  <2>2. QED BY <2>1, SidesFitTheVenue
<1> HIDE DEF count
<1>6. ASSUME NEW side \in Sides
      PROVE  /\ prices[side] \in Seq(Nat) /\ Len(prices[side]) \in 1 .. MaxPerSide
             /\ Outwards(side, prices[side])
             /\ c.product = "perp" => OnItsSide(side, m, prices[side])
  <2>1. PICK n \in Nat : n = count[side] /\ n > 0 /\ n <= MaxPerSide
    BY <1>5, GridPlanningAssumption DEF Sides, GridPlanningAssumption
  <2> DEFINE p == PricesOf(c, side, r, at, m, n)
  <2>2. p \in Seq(Nat) /\ Len(p) \in 1 .. n /\ Outwards(side, p) /\ (at = m * Parts(c) => OnItsSide(side, m, p))
    BY <1>1, <1>2, <1>3, <2>1, SidePrices
  <2>3. prices[side] = p
    BY <1>4, <2>1
  <2> HIDE DEF p
  <2>4. Len(p) \in 1 .. MaxPerSide
    BY <2>1, <2>2, GridPlanningAssumption DEF GridPlanningAssumption
  <2>5. QED BY <1>3, <2>2, <2>3, <2>4
<1>7. prices = [side \in Sides |-> prices[side]]
  BY <1>4
<1>8. QED BY <1>6, <1>7 DEF SoundPrices, prices

LEMMA Cancelled == \A a, b \in Int, w \in Nat : w > 0 /\ w * a <= w * b => a <= b
<1> SUFFICES ASSUME NEW a \in Int, NEW b \in Int, NEW w \in Nat, w > 0, b < a PROVE ~(w * a <= w * b)
  OBVIOUS
<1>1. b * w < a * w
  BY Monotone
<1>2. PICK x \in Int, y \in Int : x = a * w /\ y = b * w
  OBVIOUS
<1>3. w * a = x /\ w * b = y
  BY <1>2
<1>4. QED BY <1>1, <1>2, <1>3

(* Prices without a zero cost something. *)
LEMMA SumsOfPrices ==
  ASSUME NEW prices \in Seq(Nat)
  PROVE  /\ SumOf(prices) \in Nat
         /\ Len(prices) > 0 /\ 0 \notin Range(prices) => SumOf(prices) > 0
<1>1. SumOf(prices) \in Nat /\ \A i \in 1 .. Len(prices) : prices[i] <= SumOf(prices)
  BY SumIsNat
<1>2. ASSUME Len(prices) > 0, 0 \notin Range(prices) PROVE SumOf(prices) > 0
  <2>1. 1 \in 1 .. Len(prices) /\ 1 \in DOMAIN prices
    BY <1>2
  <2>2. prices[1] \in Range(prices) /\ prices[1] \in Nat
    BY <2>1 DEF Range
  <2>3. prices[1] > 0
    BY <1>2, <2>2
  <2>4. QED BY <1>1, <2>1, <2>2, <2>3
<1>3. QED BY <1>1, <1>2

PlanSizes(c, m) ==
  DerivedSizes(c, ResolvedRange(c, m), AllocationMid(c, ResolvedRange(c, m), m), PlanPrices(c, m))

\* What a Perp grid needs: the margin of the dearer side, and the fees of both.
PerpMargin(c, bids, asks) == Larger(bids, asks) * FeeUnit + (bids + asks) * c.fee * c.leverage

SizesFit(c, prices, size) ==
  LET bids == size.bid * SumOf(prices.bid)
      asks == size.ask * SumOf(prices.ask)
  IN IF c.product = "spot"
     THEN /\ c.quote # NoPlan => bids * (FeeUnit + c.fee) <= c.quote * FeeUnit
          /\ c.base # NoPlan /\ c.base > 0 => Len(prices.ask) * size.ask <= c.base
          /\ c.quote = NoPlan /\ c.base = NoPlan /\ c.allocation = "budget" =>
               bids * (FeeUnit + c.fee) + asks * FeeUnit <= c.amount * FeeUnit
     ELSE c.allocation = "budget" => PerpMargin(c, bids, asks) <= c.amount * FeeUnit * c.leverage

(* Two shares of a budget that are paid for add up to no more than the budget. *)
LEMMA SharesFit ==
  ASSUME NEW W \in Nat, W > 0, NEW x \in Nat, NEW y \in Nat, x + y = W, NEW budget \in Nat, NEW F \in Nat,
         NEW u \in Nat, NEW v \in Nat, W * u <= (budget * x) * F, W * v <= (budget * y) * F
  PROVE  u + v <= budget * F
<1>1. PICK p \in Nat, q \in Nat, t \in Nat : p = budget * x /\ q = budget * y /\ t = budget * W
  BY ProductLaws
<1>2. p + q = t
  <2>1. budget * (x + y) = budget * x + budget * y
    BY ProductLaws
  <2>2. QED BY <1>1, <2>1
<1>3. PICK e \in Nat, f \in Nat, g \in Nat, h \in Nat :
        e = W * u /\ f = W * v /\ g = p * F /\ h = q * F
  BY ProductLaws
<1>4. e <= g /\ f <= h
  BY <1>1, <1>3
<1>5. g + h = t * F
  <2>1. (p + q) * F = p * F + q * F
    BY ProductLaws
  <2>2. QED BY <1>2, <1>3, <2>1
<1>6. t * F = W * (budget * F)
  <2>1. t = W * budget
    BY <1>1, ProductLaws
  <2>2. (W * budget) * F = W * (budget * F)
    BY ProductLaws
  <2>3. QED BY <2>1, <2>2
<1>7. W * (u + v) = e + f
  <2>1. W * (u + v) = W * u + W * v
    BY ProductLaws
  <2>2. QED BY <1>3, <2>1
<1>8. PICK b \in Nat : b = budget * F
  BY ProductLaws
<1>9. PICK k \in Nat : k = W * b
  BY ProductLaws
<1>10. W * (u + v) <= W * b
  <2>1. e + f <= k
    BY <1>4, <1>5, <1>6, <1>8, <1>9
  <2>2. QED BY <1>7, <1>9, <2>1
<1>11. QED BY <1>8, <1>10, Cancelled

LEMMA SpotSizesFit ==
  ASSUME NEW c, ConfigTypes(c), c.product = "spot", c.allocation = "budget" \/ c.quote # NoPlan \/ c.base # NoPlan,
         NEW r, NEW at \in Nat, r.lower \in Nat, r.upper \in Nat, r.lower < r.upper,
         r.lower <= at, at <= r.upper, NEW prices, prices.bid \in Seq(Nat), prices.ask \in Seq(Nat),
         SumOf(prices.bid) > 0, SumOf(prices.ask) > 0, Len(prices.ask) > 0
  PROVE  LET size == SpotSizes(c, r, at, prices)
         IN size.bid \in Nat /\ size.ask \in Nat /\ SizesFit(c, prices, size)
<1> DEFINE size == SpotSizes(c, r, at, prices)
<1>1. PICK B \in Nat, A \in Nat, L \in Nat :
        B = SumOf(prices.bid) /\ A = SumOf(prices.ask) /\ L = Len(prices.ask) /\ B > 0 /\ A > 0 /\ L > 0
  BY SumsOfPrices
<1>2. PICK W \in Nat, x \in Nat, y \in Nat :
        W = r.upper - r.lower /\ x = at - r.lower /\ y = r.upper - at /\ W > 0 /\ x + y = W
  OBVIOUS
<1>3. PICK F \in Nat, G \in Nat : F = FeeUnit /\ G = FeeUnit + c.fee /\ F > 0 /\ G > 0
  <2>1. FeeUnit \in Nat /\ FeeUnit > 0 /\ c.fee \in Nat
    BY DEF FeeUnit, ConfigTypes
  <2>2. FeeUnit + c.fee \in Nat /\ FeeUnit + c.fee > 0
    BY <2>1
  <2>3. QED BY <2>1, <2>2
<1>4. PICK budget \in Nat : budget = IF c.allocation = "budget" THEN c.amount ELSE 0
  BY DEF ConfigTypes
<1> DEFINE share == IF c.quote # NoPlan THEN <<c.quote, 1>> ELSE <<budget * x, W>>
<1>5. share[1] \in Nat /\ share[2] \in Nat /\ share[2] > 0
  <2>1. budget * x \in Nat
    BY ProductLaws
  <2>2. QED BY <1>2, <2>1 DEF ConfigTypes
<1>6. PICK s1 \in Nat, s2 \in Nat : s1 = share[1] /\ s2 = share[2] /\ s2 > 0
  BY <1>5
<1> DEFINE den == s2 * B * G
<1>7. den \in Nat /\ den > 0 /\ W * A \in Nat /\ W * A > 0 /\ s1 * F \in Nat /\ budget * y \in Nat
  BY <1>1, <1>2, <1>3, <1>6, ProductLaws
<1>8. size = [bid |-> (s1 * F) \div den,
              ask |-> IF c.base # NoPlan /\ c.base > 0 THEN c.base \div L ELSE (budget * y) \div (W * A)]
  BY <1>1, <1>2, <1>3, <1>4, <1>6 DEF SpotSizes
<1> HIDE DEF size
<1>9. PICK bid \in Nat : bid = size.bid /\ bid * den <= s1 * F
  <2>1. (s1 * F) \div den \in Nat /\ ((s1 * F) \div den) * den <= s1 * F
    <3> HIDE DEF den
    <3>1. PICK n \in Nat : n = s1 * F
      BY <1>7
    <3>2. QED BY <1>7, <3>1, Quotient
  <2>2. QED BY <1>8, <2>1
<1>10. PICK ask \in Nat :
         /\ ask = size.ask
         /\ c.base # NoPlan /\ c.base > 0 => L * ask <= c.base
         /\ c.base = NoPlan => ask * (W * A) <= budget * y
  <2>1. (budget * y) \div (W * A) \in Nat /\ ((budget * y) \div (W * A)) * (W * A) <= budget * y
    <3>1. PICK n \in Nat, d \in Nat : n = budget * y /\ d = W * A /\ d > 0
      BY <1>7
    <3>2. n \div d \in Nat /\ (n \div d) * d <= n
      BY <3>1, Quotient
    <3>3. QED BY <3>1, <3>2
  <2>2. c.base # NoPlan /\ c.base > 0 => c.base \div L \in Nat /\ L * (c.base \div L) <= c.base
    BY <1>1, Quotient DEF ConfigTypes
  <2>3. QED BY <1>8, <2>1, <2>2
<1> DEFINE U == bid * B * G
           V == ask * A * F
<1>11. bid * den = s2 * U /\ U \in Nat /\ V \in Nat
  <2>1. PICK p \in Nat, q \in Nat : p = bid * B /\ q = ask * A
    BY ProductLaws
  <2>2. U = p * G /\ V = q * F /\ p * G \in Nat /\ q * F \in Nat
    BY <2>1, ProductLaws
  <2>3. bid * den = s2 * U
    <3>1. PICK k \in Nat : k = s2 * B
      BY ProductLaws
    <3>2. bid * (k * G) = (bid * k) * G
      BY <3>1, ProductLaws
    <3>3. bid * k = s2 * p
      <4>1. bid * (s2 * B) = (bid * s2) * B /\ s2 * (bid * B) = (s2 * bid) * B /\ bid * s2 = s2 * bid
        BY ProductLaws
      <4>2. QED BY <2>1, <3>1, <4>1
    <3>4. (s2 * p) * G = s2 * (p * G)
      BY <2>1, ProductLaws
    <3>5. den = k * G
      BY <3>1
    <3> HIDE DEF den, U
    <3>6. QED BY <2>2, <3>2, <3>3, <3>4, <3>5
  <2> HIDE DEF den, U, V
  <2>4. QED BY <2>2, <2>3
<1>12. PICK u \in Nat, v \in Nat : u = U /\ v = V
  BY <1>11
<1>13. c.quote # NoPlan => u <= c.quote * F
  <2>1. SUFFICES ASSUME c.quote # NoPlan PROVE u <= c.quote * F
    OBVIOUS
  <2>2. s2 = 1 /\ s1 = c.quote
    BY <1>6, <2>1
  <2> HIDE DEF den, U
  <2>3. bid * den = u
    BY <1>11, <1>12, <2>2
  <2>4. QED BY <1>9, <2>2, <2>3
<1>14. c.quote = NoPlan /\ c.base = NoPlan /\ c.allocation = "budget" => u + v <= budget * F
  <2>1. SUFFICES ASSUME c.quote = NoPlan, c.base = NoPlan PROVE u + v <= budget * F
    OBVIOUS
  <2>2. s2 = W /\ s1 = budget * x
    BY <1>6, <2>1
  <2>3. W * u <= (budget * x) * F
    <3> HIDE DEF den, U
    <3>1. QED BY <1>9, <1>11, <1>12, <2>2
  <2>4. W * v <= (budget * y) * F
    <3>1. PICK p \in Nat, q \in Nat : p = ask * (W * A) /\ q = budget * y
      BY <1>7, ProductLaws
    <3>2. p <= q
      BY <1>10, <2>1, <3>1
    <3>3. p * F <= q * F
      BY <3>2, Monotone
    <3>4. p * F = W * v
      BY <1>12, <3>1, ProductLaws
    <3>5. QED BY <3>1, <3>3, <3>4
  <2>5. QED BY <1>2, <2>3, <2>4, SharesFit
<1>15. SizesFit(c, prices, size)
  <2>1. u = (size.bid * SumOf(prices.bid)) * (FeeUnit + c.fee) /\ v = (size.ask * SumOf(prices.ask)) * FeeUnit
    BY <1>1, <1>3, <1>9, <1>10, <1>12
  <2>2. c.quote # NoPlan => u <= c.quote * FeeUnit
    BY <1>3, <1>13
  <2>3. c.base # NoPlan /\ c.base > 0 => Len(prices.ask) * size.ask <= c.base
    BY <1>1, <1>10
  <2>4. c.quote = NoPlan /\ c.base = NoPlan /\ c.allocation = "budget" => u + v <= c.amount * FeeUnit
    BY <1>3, <1>4, <1>14
  <2>5. QED BY <2>1, <2>2, <2>3, <2>4 DEF SizesFit
<1>16. size.bid \in Nat /\ size.ask \in Nat
  BY <1>9, <1>10
<1>17. QED BY <1>15, <1>16 DEF size

(* The margin of so many lots on a side is no more than that of so many lots of all prices. *)
LEMMA MarginFits ==
  ASSUME NEW n \in Nat, NEW bids \in Nat, NEW asks \in Nat, NEW B \in Nat, NEW A \in Nat,
         NEW F \in Nat, NEW E \in Nat, NEW lev \in Nat, bids <= n * B, asks <= n * A
  PROVE  Larger(bids, asks) * F + (bids + asks) * E * lev <= n * (Larger(B, A) * F + (B + A) * E * lev)
<1>1. PICK M \in Nat, S \in Nat, k \in Nat, t \in Nat :
        M = Larger(B, A) /\ S = B + A /\ k = Larger(bids, asks) /\ t = bids + asks /\ B <= M /\ A <= M
  BY DEF Larger
<1>2. PICK b \in Nat, a \in Nat, h \in Nat, s \in Nat : b = n * B /\ a = n * A /\ h = n * M /\ s = n * S
  BY ProductLaws
<1>3. s = b + a
  BY <1>1, <1>2, ProductLaws
<1>4. b <= h /\ a <= h
  <2>1. B * n <= M * n /\ A * n <= M * n
    BY <1>1, Monotone
  <2>2. QED BY <1>2, <2>1, ProductLaws
<1>5. k <= h /\ t <= s
  BY <1>1, <1>2, <1>3, <1>4 DEF Larger
<1>6. PICK e \in Nat : e = E * lev
  BY ProductLaws
<1>7. t * E * lev = t * e /\ S * E * lev = S * e
  BY <1>6, ProductLaws
<1>8. k * F <= h * F /\ t * e <= s * e
  BY <1>5, Monotone
<1>9. PICK w \in Nat, x \in Nat, y \in Nat, z \in Nat : w = k * F /\ x = t * e /\ y = h * F /\ z = s * e
  BY ProductLaws
<1>10. n * (M * F + S * e) = y + z
  <2>1. PICK p \in Nat, q \in Nat : p = M * F /\ q = S * e
    BY ProductLaws
  <2>2. n * (p + q) = n * p + n * q
    BY ProductLaws
  <2>3. n * p = y
    BY <1>2, <1>9, <2>1, ProductLaws
  <2>4. n * q = z
    BY <1>2, <1>9, <2>1, ProductLaws
  <2>5. QED BY <2>1, <2>2, <2>3, <2>4
<1>11. w + x <= y + z
  BY <1>8, <1>9
<1>12. QED BY <1>1, <1>7, <1>9, <1>10, <1>11

LEMMA PerpSizesFit ==
  ASSUME NEW c, ConfigTypes(c), NEW prices, prices.bid \in Seq(Nat), prices.ask \in Seq(Nat),
         PerpCost(c, prices) > 0
  PROVE  /\ PerpSize(c, prices) \in Nat
         /\ \A bid, ask \in {0, PerpSize(c, prices)} :
              PerpMargin(c, bid * SumOf(prices.bid), ask * SumOf(prices.ask)) <= c.amount * FeeUnit * c.leverage
<1>1. PICK B \in Nat, A \in Nat : B = SumOf(prices.bid) /\ A = SumOf(prices.ask)
  BY SumsOfPrices
<1>2. PICK F \in Nat, E \in Nat, lev \in Nat, amount \in Nat :
        F = FeeUnit /\ E = c.fee /\ lev = c.leverage /\ amount = c.amount
  BY DEF FeeUnit, ConfigTypes
<1>3. PerpCost(c, prices) = Larger(B, A) * F + (B + A) * E * lev
  BY <1>1, <1>2 DEF PerpCost
<1>4. PICK M \in Nat, S \in Nat : M = Larger(B, A) /\ S = B + A
  BY DEF Larger
<1>5. M * F \in Nat /\ S * E * lev \in Nat
  BY ProductLaws
<1>6. PICK cost \in Nat : cost = PerpCost(c, prices) /\ cost = Larger(B, A) * F + (B + A) * E * lev /\ cost > 0
  BY <1>3, <1>4, <1>5
<1>7. PICK purse \in Nat : purse = amount * F * lev
  BY ProductLaws
<1>8. PICK n \in Nat : n = PerpSize(c, prices) /\ n * cost <= purse
  <2>1. purse \div cost \in Nat /\ (purse \div cost) * cost <= purse
    BY <1>6, <1>7, Quotient
  <2>2. PerpSize(c, prices) = purse \div cost
    BY <1>2, <1>6, <1>7 DEF PerpSize
  <2>3. QED BY <2>1, <2>2
<1>9. ASSUME NEW bid \in {0, n}, NEW ask \in {0, n}
      PROVE  PerpMargin(c, bid * B, ask * A) <= purse
  <2>1. PICK x \in Nat, y \in Nat, u \in Nat, v \in Nat : x = bid * B /\ y = ask * A /\ u = n * B /\ v = n * A
    BY ProductLaws
  <2>2. x <= u /\ y <= v
    BY <2>1, ProductLaws
  <2>3. Larger(x, y) * F + (x + y) * E * lev <= n * cost
    <3>1. x <= n * B /\ y <= n * A
      BY <2>1, <2>2
    <3>2. QED BY <1>6, <3>1, MarginFits
  <2>4. PICK p \in Nat : p = n * cost
    BY ProductLaws
  <2>5. PICK k \in Nat, t \in Nat : k = Larger(x, y) /\ t = x + y
    BY DEF Larger
  <2>6. k * F \in Nat /\ t * E * lev \in Nat
    BY ProductLaws
  <2>7. PerpMargin(c, x, y) = Larger(x, y) * F + (x + y) * E * lev
    BY <1>2 DEF PerpMargin
  <2>8. PerpMargin(c, x, y) \in Nat /\ PerpMargin(c, x, y) <= p
    BY <2>3, <2>4, <2>5, <2>6, <2>7
  <2>9. QED BY <1>8, <2>1, <2>4, <2>8, SMTT(30)
<1>10. QED BY <1>1, <1>2, <1>7, <1>8, <1>9

(* The sizes that build_plan derives keep within the budget. *)
LEMMA SizesKeepBudget ==
  ASSUME NEW c \in Settings, Valid(c), NEW m \in Mids, MidAllowed(c, ResolvedRange(c, m), m),
         Priced(c, PlanPrices(c, m))
  PROVE  /\ PlanSizes(c, m) = [bid |-> PlanSizes(c, m).bid, ask |-> PlanSizes(c, m).ask]
         /\ PlanSizes(c, m).bid \in Nat /\ PlanSizes(c, m).ask \in Nat
         /\ SizesFit(c, PlanPrices(c, m), PlanSizes(c, m))
<1> DEFINE r == ResolvedRange(c, m)
           at == AllocationMid(c, r, m)
           prices == PlanPrices(c, m)
           size == PlanSizes(c, m)
           explicit == c.product = "spot" /\ (c.quote # NoPlan \/ c.base # NoPlan)
           one == IF c.allocation = "fixed" THEN c.amount ELSE PerpSize(c, prices)
<1>1. ConfigTypes(c) /\ m \in Nat /\ m > 0
  BY ValidTypes, GridPlanningAssumption DEF GridPlanningAssumption
<1>2. r.lower \in Nat /\ r.upper \in Nat /\ r.lower < r.upper
  BY <1>1, RangeHasWidth
<1>3. at \in Nat /\ r.lower <= at /\ at <= r.upper
  BY <1>1, MidWithinRange
<1>4. prices.bid \in Seq(Nat) /\ Len(prices.bid) > 0 /\ prices.ask \in Seq(Nat) /\ Len(prices.ask) > 0
  <2>1. SoundPrices(c, m, prices)
    BY PricesAreSound
  <2> HIDE DEF prices
  <2>2. "bid" \in Sides /\ "ask" \in Sides
    BY DEF Sides
  <2>3. QED BY <2>1, <2>2 DEF SoundPrices
<1>5. size = IF explicit \/ (c.product = "spot" /\ c.allocation = "budget") THEN SpotSizes(c, r, at, prices)
             ELSE [bid |-> IF c.product = "perp" /\ c.mode = "short" THEN 0 ELSE one,
                   ask |-> IF c.product = "perp" /\ c.mode = "long" THEN 0 ELSE one]
  BY DEF PlanSizes, DerivedSizes
<1>6. Priced(c, prices)
  OBVIOUS
<1> HIDE DEF r, at, prices, size
<1>7. size = [bid |-> size.bid, ask |-> size.ask]
  BY <1>5 DEF SpotSizes
<1>8. c.product \in {"spot", "perp"} /\ c.allocation \in {"budget", "fixed"} /\ c.amount \in Nat
  BY <1>1 DEF ConfigTypes
<1>9. CASE c.product = "spot" /\ (explicit \/ c.allocation = "budget")
  <2>1. size = SpotSizes(c, r, at, prices)
    BY <1>5, <1>9
  <2>2. 0 \notin Range(prices.bid) /\ 0 \notin Range(prices.ask)
    BY <1>6, <1>9 DEF Priced
  <2>3. SumOf(prices.bid) > 0 /\ SumOf(prices.ask) > 0
    BY <1>4, <2>2, SumsOfPrices
  <2>4. c.allocation = "budget" \/ c.quote # NoPlan \/ c.base # NoPlan
    BY <1>9
  <2> DEFINE found == SpotSizes(c, r, at, prices)
  <2>5. found.bid \in Nat /\ found.ask \in Nat /\ SizesFit(c, prices, found)
    BY <1>1, <1>2, <1>3, <1>4, <1>9, <2>3, <2>4, SpotSizesFit
  <2>6. size.bid \in Nat /\ size.ask \in Nat /\ SizesFit(c, prices, size)
    BY <2>1, <2>5
  <2>7. QED BY <1>7, <2>6 DEF size, prices
<1>10. CASE c.product = "spot" /\ ~explicit /\ c.allocation = "fixed"
  <2>1. size = [bid |-> c.amount, ask |-> c.amount]
    BY <1>5, <1>10
  <2>2. c.quote = NoPlan /\ c.base = NoPlan
    BY <1>10
  <2>3. size.bid \in Nat /\ size.ask \in Nat
    BY <1>8, <2>1
  <2>4. SizesFit(c, prices, size)
    BY <1>10, <2>2 DEF SizesFit
  <2>5. QED BY <1>7, <2>3, <2>4 DEF size, prices
<1>11. CASE c.product = "perp"
  <2>1. size = [bid |-> IF c.mode = "short" THEN 0 ELSE one, ask |-> IF c.mode = "long" THEN 0 ELSE one]
    BY <1>5, <1>11
  <2>2. CASE c.allocation = "fixed"
    <3>1. size.bid \in Nat /\ size.ask \in Nat
      BY <1>8, <2>1, <2>2
    <3>2. SizesFit(c, prices, size)
      BY <1>11, <2>2 DEF SizesFit
    <3>3. QED BY <1>7, <3>1, <3>2 DEF size, prices
  <2>3. CASE c.allocation = "budget"
    <3>1. PerpCost(c, prices) > 0
      BY <1>6, <1>11, <2>3 DEF Priced
    <3>2. /\ PerpSize(c, prices) \in Nat
          /\ \A bid, ask \in {0, PerpSize(c, prices)} :
               PerpMargin(c, bid * SumOf(prices.bid), ask * SumOf(prices.ask)) <= c.amount * FeeUnit * c.leverage
      BY <1>1, <1>4, <3>1, PerpSizesFit
    <3>3. size.bid \in {0, PerpSize(c, prices)} /\ size.ask \in {0, PerpSize(c, prices)}
      BY <2>1, <2>3
    <3>4. size.bid \in Nat /\ size.ask \in Nat
      BY <3>2, <3>3
    <3>5. SizesFit(c, prices, size)
      BY <1>11, <3>2, <3>3 DEF SizesFit
    <3>6. QED BY <1>7, <3>4, <3>5 DEF size, prices
  <2>4. QED BY <1>8, <2>2, <2>3
<1>12. QED BY <1>8, <1>9, <1>10, <1>11

-----------------------------------------------------------------------------
(***************************************************************************)
(* What levels cost.                                                       *)
(***************************************************************************)

(* Where every term is at most another's, so is the sum. *)
LEMMA SumBounded ==
  ASSUME NEW s \in Seq(Nat), NEW t \in Seq(Nat), Len(s) = Len(t), \A i \in 1 .. Len(s) : s[i] <= t[i]
  PROVE  SumOf(s) <= SumOf(t)
<1> DEFINE Below(a, b) == Len(a) = Len(b) /\ \A i \in 1 .. Len(a) : a[i] <= b[i]
           P == {a \in Seq(Nat) : \A b \in Seq(Nat) : Below(a, b) => SumOf(a) <= SumOf(b)}
           T == Nat
<1>1. <<>> \in P
  <2>1. <<>> \in Seq(Nat)
    OBVIOUS
  <2>2. ASSUME NEW b \in Seq(Nat) PROVE Below(<<>>, b) => SumOf(<<>>) <= SumOf(b)
    <3>1. Below(<<>>, b) => b = <<>>
      OBVIOUS
    <3>2. SumOf(<<>>) <= SumOf(<<>>)
      BY SumAppend
    <3>3. QED BY <3>1, <3>2
  <2>3. QED BY <2>1, <2>2
<1>2. ASSUME NEW a \in Seq(T), NEW e \in T, a \in P PROVE Append(a, e) \in P
  <2>1. Append(a, e) \in Seq(Nat)
    OBVIOUS
  <2>2. ASSUME NEW b \in Seq(Nat), Below(Append(a, e), b) PROVE SumOf(Append(a, e)) <= SumOf(b)
    <3>1. PICK n \in Nat : n = Len(a)
      OBVIOUS
    <3>2. Len(b) = n + 1 /\ b[n + 1] \in Nat /\ e <= b[n + 1]
      BY <2>2, <3>1
    <3> DEFINE front == SubSeq(b, 1, n)
               last == b[n + 1]
    <3>3. front \in Seq(Nat) /\ Len(front) = n /\ \A i \in 1 .. n : front[i] = b[i]
      BY <3>2
    <3>4. b = Append(front, last)
      BY <3>2, <3>3
    <3>5. Below(a, front)
      BY <2>2, <3>1, <3>2, <3>3
    <3> HIDE DEF front, last
    <3>6. SumOf(a) <= SumOf(front)
      BY <1>2, <3>3, <3>5
    <3>7. SumOf(a) \in Int /\ SumOf(Append(a, e)) = SumOf(a) + e
      <4>1. a \in Seq(Int) /\ e \in Int
        OBVIOUS
      <4>2. QED BY <4>1, SumAppend
    <3>8. SumOf(front) \in Int /\ SumOf(Append(front, last)) = SumOf(front) + last /\ last \in Int /\ e <= last
      <4>1. front \in Seq(Int) /\ last \in Int /\ e <= last
        BY <3>2, <3>3 DEF last
      <4>2. QED BY <4>1, SumAppend
    <3>9. PICK x \in Int, y \in Int : x = SumOf(a) /\ y = SumOf(front)
      BY <3>7, <3>8
    <3>10. QED BY <3>4, <3>6, <3>7, <3>8, <3>9
  <2>3. QED BY <2>1, <2>2
<1>3. Seq(T) \subseteq P
  <2> HIDE DEF P, T
  <2>1. QED BY <1>1, <1>2, SequenceInduction
<1>4. QED BY <1>3

\* What the sums run over.
Values(levels) == [i \in DOMAIN levels |-> levels[i].price * levels[i].size]
Quantities(levels) == [i \in DOMAIN levels |-> levels[i].size]

LEMMA SumsOfLevels ==
  ASSUME NEW levels \in Seq(Levels)
  PROVE  /\ Values(levels) \in Seq(Nat) /\ Quantities(levels) \in Seq(Nat)
         /\ Len(Values(levels)) = Len(levels) /\ Len(Quantities(levels)) = Len(levels)
         /\ Notional(levels) = SumOf(Values(levels)) /\ Lots(levels) = SumOf(Quantities(levels))
         /\ Notional(levels) \in Nat /\ Lots(levels) \in Nat
<1>1. ASSUME NEW i \in DOMAIN levels PROVE levels[i].price * levels[i].size \in Nat /\ levels[i].size \in Nat
  <2>1. levels[i] \in Levels
    OBVIOUS
  <2>2. levels[i].price \in Nat /\ levels[i].size \in Nat
    BY <2>1 DEF Levels
  <2>3. QED BY <2>2, ProductLaws
<1>2. /\ Values(levels) \in Seq(Nat) /\ Quantities(levels) \in Seq(Nat)
      /\ Len(Values(levels)) = Len(levels) /\ Len(Quantities(levels)) = Len(levels)
  <2>1. PICK n \in Nat : n = Len(levels) /\ DOMAIN levels = 1 .. n
    OBVIOUS
  <2>2. Values(levels) = [i \in 1 .. n |-> levels[i].price * levels[i].size]
        /\ \A i \in 1 .. n : levels[i].price * levels[i].size \in Nat
    BY <1>1, <2>1 DEF Values
  <2>3. Values(levels) \in Seq(Nat) /\ Len(Values(levels)) = n
    <3> DEFINE v(i) == levels[i].price * levels[i].size
    <3>1. Values(levels) = [i \in 1 .. n |-> v(i)] /\ \A i \in 1 .. n : v(i) \in Nat
      BY <2>2
    <3> HIDE DEF v
    <3>2. QED BY <3>1
  <2>4. Quantities(levels) \in Seq(Nat) /\ Len(Quantities(levels)) = n
    BY <1>1, <2>1 DEF Quantities
  <2>5. QED BY <2>1, <2>3, <2>4
<1>3. Notional(levels) = SumOf(Values(levels)) /\ Lots(levels) = SumOf(Quantities(levels))
  BY DEF Notional, Lots, Values, Quantities
<1>4. QED BY <1>2, <1>3, SumIsNat

LEMMA LevelsAppend ==
  ASSUME NEW levels \in Seq(Levels), NEW l \in Levels
  PROVE  /\ Notional(Append(levels, l)) = Notional(levels) + l.price * l.size
         /\ Lots(Append(levels, l)) = Lots(levels) + l.size
         /\ l.price * l.size \in Nat /\ l.size \in Nat
<1>1. l.price \in Nat /\ l.size \in Nat /\ l.price * l.size \in Nat
  BY ProductLaws DEF Levels
<1> DEFINE all == Append(levels, l)
<1>2. all \in Seq(Levels)
  OBVIOUS
<1>3. Len(all) = Len(levels) + 1 /\ all[Len(levels) + 1] = l /\ \A i \in 1 .. Len(levels) : all[i] = levels[i]
  OBVIOUS
<1>4. Values(all) = Append(Values(levels), l.price * l.size)
  <2>1. Values(levels) \in Seq(Nat) /\ Len(Values(levels)) = Len(levels) /\ Values(all) \in Seq(Nat)
        /\ Len(Values(all)) = Len(all)
    BY <1>2, SumsOfLevels
  <2>2. ASSUME NEW i \in 1 .. Len(all) PROVE Values(all)[i] = Append(Values(levels), l.price * l.size)[i]
    <3> HIDE DEF all
    <3>1. Values(all)[i] = all[i].price * all[i].size
      BY <1>2 DEF Values
    <3>2. CASE i = Len(levels) + 1
      BY <1>3, <2>1, <3>1, <3>2
    <3>3. CASE i # Len(levels) + 1
      <4>1. i \in 1 .. Len(levels)
        BY <1>3, <3>3
      <4>2. Values(levels)[i] = levels[i].price * levels[i].size
        BY <4>1 DEF Values
      <4>3. QED BY <1>3, <2>1, <3>1, <4>1, <4>2
    <3>4. QED BY <3>2, <3>3
  <2>3. QED
    <3> HIDE DEF all
    <3>1. QED BY <1>1, <1>3, <2>1, <2>2
<1>5. Quantities(all) = Append(Quantities(levels), l.size)
  <2>1. Quantities(levels) \in Seq(Nat) /\ Len(Quantities(levels)) = Len(levels) /\ Quantities(all) \in Seq(Nat)
        /\ Len(Quantities(all)) = Len(all)
    BY <1>2, SumsOfLevels
  <2>2. ASSUME NEW i \in 1 .. Len(all) PROVE Quantities(all)[i] = Append(Quantities(levels), l.size)[i]
    <3> HIDE DEF all
    <3>1. Quantities(all)[i] = all[i].size
      BY <1>2 DEF Quantities
    <3>2. CASE i = Len(levels) + 1
      BY <1>3, <2>1, <3>1, <3>2
    <3>3. CASE i # Len(levels) + 1
      <4>1. i \in 1 .. Len(levels)
        BY <1>3, <3>3
      <4>2. Quantities(levels)[i] = levels[i].size
        BY <4>1 DEF Quantities
      <4>3. QED BY <1>3, <2>1, <3>1, <4>1, <4>2
    <3>4. QED BY <3>2, <3>3
  <2>3. QED
    <3> HIDE DEF all
    <3>1. QED BY <1>1, <1>3, <2>1, <2>2, SMTT(30)
<1>6. Values(levels) \in Seq(Int) /\ Quantities(levels) \in Seq(Int) /\ l.price * l.size \in Int /\ l.size \in Int
  <2>1. Values(levels) \in Seq(Nat) /\ Quantities(levels) \in Seq(Nat)
    BY SumsOfLevels
  <2>2. QED BY <1>1, <2>1
<1>7. /\ SumOf(Append(Values(levels), l.price * l.size)) = SumOf(Values(levels)) + l.price * l.size
      /\ SumOf(Append(Quantities(levels), l.size)) = SumOf(Quantities(levels)) + l.size
  BY <1>6, SumAppend
<1>8. Notional(all) = SumOf(Values(all)) /\ Lots(all) = SumOf(Quantities(all))
      /\ Notional(levels) = SumOf(Values(levels)) /\ Lots(levels) = SumOf(Quantities(levels))
  BY <1>2, SumsOfLevels
<1>9. QED BY <1>1, <1>4, <1>5, <1>7, <1>8

(* Levels that are left out cost nothing any more. *)
LEMMA KeptCostsLess ==
  ASSUME NEW S
  PROVE  \A levels \in Seq(Levels) :
           /\ Keep(levels, S) \in Seq(Levels)
           /\ Notional(Keep(levels, S)) <= Notional(levels) /\ Lots(Keep(levels, S)) <= Lots(levels)
<1> DEFINE P == {levels \in Seq(Levels) : /\ Keep(levels, S) \in Seq(Levels)
                                          /\ Notional(Keep(levels, S)) <= Notional(levels)
                                          /\ Lots(Keep(levels, S)) <= Lots(levels)}
<1>0. ASSUME NEW levels \in Seq(Levels) PROVE Keep(levels, S) \in Seq(Levels)
  <2>1. Keep(levels, S) \in Seq(Levels \cap S)
    BY KeepType
  <2>2. QED BY <2>1
<1>1. <<>> \in P
  <2> DEFINE none == <<>>
  <2>1. none \in Seq(Levels)
    OBVIOUS
  <2>2. Keep(none, S) = none
    BY KeepEmpty
  <2>3. Notional(none) \in Nat /\ Lots(none) \in Nat
    <3> HIDE DEF none
    <3>1. QED BY <2>1, SumsOfLevels
  <2> HIDE DEF none
  <2>4. none \in P
    BY <2>1, <2>2, <2>3
  <2>5. QED BY <2>4 DEF none
<1>2. ASSUME NEW levels \in Seq(Levels), NEW l \in Levels, levels \in P PROVE Append(levels, l) \in P
  <2> DEFINE kept == Keep(levels, S)
             all == Append(levels, l)
  <2>1. all \in Seq(Levels) /\ kept \in Seq(Levels) /\ Notional(kept) <= Notional(levels) /\ Lots(kept) <= Lots(levels)
    BY <1>2
  <2>2. Keep(all, S) = IF l \in S THEN Append(kept, l) ELSE kept
    BY KeepAppend
  <2>3. Notional(all) = Notional(levels) + l.price * l.size /\ Lots(all) = Lots(levels) + l.size
        /\ l.price * l.size \in Nat /\ l.size \in Nat
    BY LevelsAppend
  <2>4. Notional(levels) \in Nat /\ Lots(levels) \in Nat
    BY SumsOfLevels
  <2> HIDE DEF kept, all
  <2>5. Notional(Append(kept, l)) = Notional(kept) + l.price * l.size /\ Lots(Append(kept, l)) = Lots(kept) + l.size
    BY <2>1, LevelsAppend
  <2>6. Notional(kept) \in Nat /\ Lots(kept) \in Nat
    BY <2>1, SumsOfLevels
  <2>7. PICK v \in Nat : v = l.price * l.size
    BY <2>3
  <2>8. Notional(Keep(all, S)) <= Notional(all) /\ Lots(Keep(all, S)) <= Lots(all)
    BY <2>1, <2>2, <2>3, <2>4, <2>5, <2>6, <2>7, SMTT(30)
  <2>9. Keep(all, S) \in Seq(Levels)
    BY <1>0, <2>1
  <2>10. all \in P
    BY <2>1, <2>8, <2>9
  <2>11. QED BY <2>10 DEF all
<1>3. Seq(Levels) \subseteq P
  <2> HIDE DEF P
  <2>1. QED BY <1>1, <1>2, SequenceInduction
<1>4. QED BY <1>3

(* Levels of no more lots at the same prices cost no more. *)
LEMMA SmallerCostsLess ==
  ASSUME NEW a \in Seq(Levels), NEW b \in Seq(Levels), Len(a) = Len(b),
         \A i \in 1 .. Len(a) : a[i].price = b[i].price /\ a[i].size <= b[i].size
  PROVE  Notional(a) <= Notional(b) /\ Lots(a) <= Lots(b)
<1>1. ASSUME NEW i \in 1 .. Len(a) PROVE Values(a)[i] <= Values(b)[i] /\ Quantities(a)[i] <= Quantities(b)[i]
  <2>1. a[i] \in Levels /\ b[i] \in Levels
    OBVIOUS
  <2>2. PICK p \in Nat, x \in Nat, y \in Nat : p = a[i].price /\ p = b[i].price /\ x = a[i].size /\ y = b[i].size /\ x <= y
    BY <2>1 DEF Levels
  <2>3. p * x <= p * y
    BY <2>2, Monotone
  <2>4. QED BY <2>2, <2>3 DEF Values, Quantities
<1>2. /\ Values(a) \in Seq(Nat) /\ Values(b) \in Seq(Nat) /\ Len(Values(a)) = Len(a) /\ Len(Values(b)) = Len(b)
      /\ Quantities(a) \in Seq(Nat) /\ Quantities(b) \in Seq(Nat)
      /\ Len(Quantities(a)) = Len(a) /\ Len(Quantities(b)) = Len(b)
  BY SumsOfLevels
<1>3. SumOf(Values(a)) <= SumOf(Values(b))
  BY <1>1, <1>2, SumBounded
<1>4. SumOf(Quantities(a)) <= SumOf(Quantities(b))
  BY <1>1, <1>2, SumBounded
<1>5. QED BY <1>3, <1>4, SumsOfLevels

(* Levels of one size cost as much as the prices times it. *)
LEMMA EvenLevels ==
  ASSUME NEW prices \in Seq(Nat), NEW size \in Nat, NEW side \in Sides
  PROVE  LET levels == [i \in DOMAIN prices |-> Level(side, prices[i], size)]
         IN /\ levels \in Seq(Levels) /\ Len(levels) = Len(prices)
            /\ Notional(levels) = size * SumOf(prices) /\ Lots(levels) = Len(prices) * size
<1> DEFINE levels == [i \in DOMAIN prices |-> Level(side, prices[i], size)]
<1>1. \A i \in DOMAIN prices : Level(side, prices[i], size) \in Levels
  BY DEF Level, Levels
<1>2. levels \in Seq(Levels) /\ Len(levels) = Len(prices)
  BY <1>1
<1>3. \A i \in 1 .. Len(prices) : levels[i].price = prices[i] /\ levels[i].size = size
  BY DEF Level
<1>4. PICK n \in Nat : n = Len(prices)
  OBVIOUS
<1>5. DOMAIN levels = 1 .. n
  BY <1>4
<1> HIDE DEF levels
<1>6. Values(levels) = [i \in 1 .. Len(prices) |-> size * prices[i]]
  <2>1. ASSUME NEW i \in 1 .. n PROVE levels[i].price * levels[i].size = size * prices[i]
    <3>1. prices[i] \in Nat
      BY <1>4
    <3>2. QED BY <1>3, <1>4, <3>1, ProductLaws
  <2>2. QED BY <1>4, <1>5, <2>1 DEF Values
<1>7. SumOf([i \in 1 .. Len(prices) |-> size * prices[i]]) = size * SumOf(prices)
  <2>1. size \in Int /\ prices \in Seq(Int)
    OBVIOUS
  <2>2. QED BY <2>1, SumScaled
<1>8. Notional(levels) = size * SumOf(prices)
  BY <1>2, <1>6, <1>7, SumsOfLevels
<1>9. Lots(levels) = Len(prices) * size
  <2> DEFINE P == {s \in Seq(Levels) : (\A i \in 1 .. Len(s) : s[i].size = size) => Lots(s) = Len(s) * size}
  <2>1. <<>> \in P
    <3>1. Lots(<<>>) = 0
      <4>1. [i \in DOMAIN <<>> |-> <<>>[i].size] = <<>>
        OBVIOUS
      <4>2. QED BY <4>1, SumAppend DEF Lots
    <3>2. <<>> \in Seq(Levels) /\ Len(<<>>) * size = 0
      OBVIOUS
    <3>3. QED BY <3>1, <3>2
  <2>2. ASSUME NEW s \in Seq(Levels), NEW l \in Levels, s \in P PROVE Append(s, l) \in P
    <3>1. PICK k \in Nat : k = Len(s)
      OBVIOUS
    <3> DEFINE t == Append(s, l)
    <3>2. t \in Seq(Levels) /\ Len(t) = k + 1 /\ t[k + 1] = l /\ \A i \in 1 .. k : t[i] = s[i]
      BY <3>1
    <3>3. Lots(t) = Lots(s) + l.size
      BY LevelsAppend
    <3> HIDE DEF t
    <3>4. ASSUME \A i \in 1 .. Len(t) : t[i].size = size PROVE Lots(t) = Len(t) * size
      <4>1. l.size = size
        BY <3>2, <3>4
      <4>2. \A i \in 1 .. Len(s) : s[i].size = size
        BY <3>1, <3>2, <3>4
      <4>3. Lots(s) = k * size
        BY <2>2, <3>1, <4>2
      <4>4. (k + 1) * size = k * size + size
        OBVIOUS
      <4>5. QED BY <3>2, <3>3, <4>1, <4>3, <4>4
    <3>5. t \in P
      BY <3>2, <3>4
    <3>6. QED BY <3>5 DEF t
  <2>3. Seq(Levels) \subseteq P
    <3> HIDE DEF P
    <3>1. QED BY <2>1, <2>2, SequenceInduction
  <2>4. QED BY <1>2, <1>3, <2>3
<1>10. QED BY <1>2, <1>8, <1>9 DEF levels

-----------------------------------------------------------------------------
(***************************************************************************)
(* What build_plan makes.                                                  *)
(***************************************************************************)

\* Levels on their sides from the price outwards, the sides apart, and none shown as filled.
Ladder(p) ==
  /\ \A i \in 1 .. Len(p.bids) : p.bids[i].side = "bid" /\ ~p.bids[i].filled
  /\ \A i \in 1 .. Len(p.asks) : p.asks[i].side = "ask" /\ ~p.asks[i].filled
  /\ \A i, j \in 1 .. Len(p.bids) : i < j => p.bids[j].price <= p.bids[i].price
  /\ \A i, j \in 1 .. Len(p.asks) : i < j => p.asks[i].price <= p.asks[j].price
  /\ \A i \in 1 .. Len(p.bids), j \in 1 .. Len(p.asks) : p.bids[i].price <= p.asks[j].price

AllUnfilled(p) ==
  /\ \A i \in 1 .. Len(p.bids) : ~p.bids[i].filled
  /\ \A i \in 1 .. Len(p.asks) : ~p.asks[i].filled

FitsVenue(p) == Len(p.bids) \in 1 .. MaxPerSide /\ Len(p.asks) \in 1 .. MaxPerSide

KeepsBudget(c, p) ==
  IF c.product = "spot"
  THEN /\ c.quote # NoPlan => p.quote <= c.quote * FeeUnit
       /\ c.base # NoPlan /\ c.base > 0 => p.base <= c.base
       /\ c.quote = NoPlan /\ c.base = NoPlan /\ c.allocation = "budget" =>
            p.quote + Notional(p.asks) * FeeUnit <= c.amount * FeeUnit
  ELSE c.allocation = "budget" =>
         PerpMargin(c, Notional(p.bids), Notional(p.asks)) <= c.amount * FeeUnit * c.leverage

\* A plan of the prices and sizes that were worked out for its sides.
LEMMA PlanOfSizes ==
  ASSUME NEW c, ConfigTypes(c), NEW m \in Mids, NEW prices, SoundPrices(c, m, prices),
         NEW size, size.bid \in Nat, size.ask \in Nat, SizesFit(c, prices, size)
  PROVE  LET p == PlanOf(c, m, prices, size)
         IN /\ p \in Plans /\ AllUnfilled(p) /\ FitsVenue(p) /\ KeepsBudget(c, p) /\ p.base = Lots(p.asks)
            /\ c.product = "perp" => Ladder(p)
<1> DEFINE p == PlanOf(c, m, prices, size)
           bids == [i \in DOMAIN prices.bid |-> Level("bid", prices.bid[i], size.bid)]
           asks == [i \in DOMAIN prices.ask |-> Level("ask", prices.ask[i], size.ask)]
<1>1. "bid" \in Sides /\ "ask" \in Sides
  BY DEF Sides
<1>2. /\ prices.bid \in Seq(Nat) /\ Len(prices.bid) \in 1 .. MaxPerSide /\ Outwards("bid", prices.bid)
      /\ prices.ask \in Seq(Nat) /\ Len(prices.ask) \in 1 .. MaxPerSide /\ Outwards("ask", prices.ask)
      /\ c.product = "perp" => OnItsSide("bid", m, prices.bid) /\ OnItsSide("ask", m, prices.ask)
  BY <1>1 DEF SoundPrices
<1>3. p = [mid |-> m, bids |-> bids, asks |-> asks, quote |-> Notional(bids) * (FeeUnit + c.fee), base |-> Lots(asks)]
  BY <1>1 DEF PlanOf
<1>4. /\ bids \in Seq(Levels) /\ Len(bids) = Len(prices.bid)
      /\ Notional(bids) = size.bid * SumOf(prices.bid) /\ Lots(bids) = Len(prices.bid) * size.bid
  BY <1>1, <1>2, EvenLevels
<1>5. /\ asks \in Seq(Levels) /\ Len(asks) = Len(prices.ask)
      /\ Notional(asks) = size.ask * SumOf(prices.ask) /\ Lots(asks) = Len(prices.ask) * size.ask
  BY <1>1, <1>2, EvenLevels
<1>6. \A i \in 1 .. Len(prices.bid) : bids[i].side = "bid" /\ ~bids[i].filled /\ bids[i].price = prices.bid[i]
  BY <1>2 DEF Level
<1>7. \A i \in 1 .. Len(prices.ask) : asks[i].side = "ask" /\ ~asks[i].filled /\ asks[i].price = prices.ask[i]
  BY <1>2 DEF Level
<1> HIDE DEF p, bids, asks
<1>8. Notional(bids) \in Nat /\ Notional(asks) \in Nat /\ Lots(bids) \in Nat /\ Lots(asks) \in Nat
  BY <1>4, <1>5, SumsOfLevels
<1>9. PICK u \in Nat, v \in Nat : u = Notional(bids) /\ v = Notional(asks)
  BY <1>8
<1>10. PICK G \in Nat, F \in Nat : G = FeeUnit + c.fee /\ F = FeeUnit
  <2>1. FeeUnit \in Nat /\ FeeUnit + c.fee \in Nat
    BY DEF FeeUnit, ConfigTypes
  <2>2. QED BY <2>1
<1>11. u * G \in Nat
  BY ProductLaws
<1>12. p \in Plans
  BY <1>3, <1>4, <1>5, <1>8, <1>9, <1>10, <1>11 DEF Plans
<1>13. AllUnfilled(p)
  BY <1>3, <1>4, <1>5, <1>6, <1>7 DEF AllUnfilled
<1>14. FitsVenue(p)
  BY <1>2, <1>3, <1>4, <1>5 DEF FitsVenue
<1>15. p.base = Lots(p.asks)
  BY <1>3
<1>16. KeepsBudget(c, p)
  <2>1. p.quote = u * (FeeUnit + c.fee) /\ p.base = Len(prices.ask) * size.ask
        /\ Notional(p.bids) = u /\ Notional(p.asks) = v
    BY <1>3, <1>5, <1>9
  <2>2. u = size.bid * SumOf(prices.bid) /\ v = size.ask * SumOf(prices.ask)
    BY <1>4, <1>5, <1>9
  <2>3. CASE c.product = "spot"
    BY <2>1, <2>2, <2>3 DEF KeepsBudget, SizesFit
  <2>4. CASE c.product # "spot"
    BY <2>1, <2>2, <2>4 DEF KeepsBudget, SizesFit
  <2>5. QED BY <2>3, <2>4
<1>17. ASSUME c.product = "perp" PROVE Ladder(p)
  <2> DEFINE tick == MidTick(m)
  <2>0. tick \in Int
    <3>1. m \in Nat
      BY GridPlanningAssumption DEF GridPlanningAssumption
    <3>2. QED BY <3>1 DEF MidTick, Tick
  <2>1. /\ \A i \in 1 .. Len(prices.bid) : prices.bid[i] \in Nat /\ prices.bid[i] <= tick
        /\ \A i \in 1 .. Len(prices.ask) : prices.ask[i] \in Nat /\ tick <= prices.ask[i]
    <3>1. OnItsSide("bid", m, prices.bid) /\ OnItsSide("ask", m, prices.ask)
      BY <1>2, <1>17
    <3>2. (\A i \in 1 .. Len(prices.bid) : prices.bid[i] <= tick) /\ \A i \in 1 .. Len(prices.ask) : tick <= prices.ask[i]
      BY <3>1 DEF OnItsSide
    <3>3. prices.bid \in Seq(Nat) /\ prices.ask \in Seq(Nat)
      BY <1>2
    <3> HIDE DEF tick
    <3>4. QED BY <3>2, <3>3
  <2> HIDE DEF tick
  <2>2. \A i, j \in 1 .. Len(prices.bid) : i < j => prices.bid[j] <= prices.bid[i]
    BY <1>2, <2>1, SMTT(30) DEF Outwards, Better
  <2>3. \A i, j \in 1 .. Len(prices.ask) : i < j => prices.ask[i] <= prices.ask[j]
    BY <1>2, <2>1, SMTT(30) DEF Outwards, Better
  <2>4. \A i \in 1 .. Len(prices.bid), j \in 1 .. Len(prices.ask) : prices.bid[i] <= prices.ask[j]
    BY <2>0, <2>1
  <2>5. p.bids = bids /\ p.asks = asks /\ Len(bids) = Len(prices.bid) /\ Len(asks) = Len(prices.ask)
    BY <1>3, <1>4, <1>5
  <2>6. /\ \A i \in 1 .. Len(bids) : bids[i].side = "bid" /\ ~bids[i].filled /\ bids[i].price = prices.bid[i]
        /\ \A i \in 1 .. Len(asks) : asks[i].side = "ask" /\ ~asks[i].filled /\ asks[i].price = prices.ask[i]
    BY <1>6, <1>7, <2>5
  <2>7. /\ \A i, j \in 1 .. Len(bids) : i < j => bids[j].price <= bids[i].price
        /\ \A i, j \in 1 .. Len(asks) : i < j => asks[i].price <= asks[j].price
        /\ \A i \in 1 .. Len(bids), j \in 1 .. Len(asks) : bids[i].price <= asks[j].price
    BY <2>2, <2>3, <2>4, <2>5, <2>6
  <2>8. QED BY <2>5, <2>6, <2>7 DEF Ladder
<1>18. QED BY <1>12, <1>13, <1>14, <1>15, <1>16, <1>17 DEF p

(* A plan that was built fits the venue and keeps to the budget. *)
LEMMA BuiltPlans ==
  ASSUME NEW c \in Settings, NEW m \in Mids, BuildPlan(c, m) # NoPlan
  PROVE  LET p == BuildPlan(c, m)
         IN /\ Valid(c)
            /\ p \in Plans /\ AllUnfilled(p) /\ FitsVenue(p) /\ KeepsBudget(c, p) /\ p.base = Lots(p.asks)
            /\ c.product = "perp" => Ladder(p)
<1>1. /\ Valid(c) /\ MidAllowed(c, ResolvedRange(c, m), m) /\ Priced(c, PlanPrices(c, m))
      /\ BuildPlan(c, m) = PlanOf(c, m, PlanPrices(c, m), PlanSizes(c, m))
  BY DEF BuildPlan, PlanPrices, PlanSizes
<1>2. ConfigTypes(c)
  BY <1>1, ValidTypes
<1>3. SoundPrices(c, m, PlanPrices(c, m))
  BY <1>1, PricesAreSound
<1> DEFINE prices == PlanPrices(c, m)
           size == PlanSizes(c, m)
<1>4. size.bid \in Nat /\ size.ask \in Nat /\ SizesFit(c, prices, size)
  BY <1>1, SizesKeepBudget
<1>5. SoundPrices(c, m, prices)
  BY <1>3
<1>6. BuildPlan(c, m) = PlanOf(c, m, prices, size)
  BY <1>1
<1> HIDE DEF prices, size
<1> DEFINE q == PlanOf(c, m, prices, size)
<1>7. /\ q \in Plans /\ AllUnfilled(q) /\ FitsVenue(q) /\ KeepsBudget(c, q) /\ q.base = Lots(q.asks)
      /\ c.product = "perp" => Ladder(q)
  BY <1>2, <1>4, <1>5, PlanOfSizes
<1>8. QED BY <1>1, <1>6, <1>7

-----------------------------------------------------------------------------
(***************************************************************************)
(* What project_spot and resize_asks_to_available_base make of it.         *)
(***************************************************************************)

LEMMA PlanFields ==
  ASSUME NEW p \in Plans
  PROVE  /\ p.mid \in Mids /\ p.bids \in Seq(Levels) /\ p.asks \in Seq(Levels)
         /\ p.quote \in Nat /\ p.base \in Nat /\ AllLevels(p) \in Seq(Levels)
  BY DEF Plans, AllLevels

(* A projected plan is a ladder around the mid. *)
LEMMA ProjectedPlans ==
  ASSUME NEW p \in Plans, NEW m \in Mids
  PROVE  Project(p, m) \in Plans /\ Ladder(Project(p, m))
<1> DEFINE all == AllLevels(p)
           far == {l \in Range(all) : 2 * Abs(l.price - m) > Tick}
           away == Keep(all, far)
           sided == [i \in DOMAIN away |->
                       [away[i] EXCEPT !.side = IF away[i].price <= m THEN "bid" ELSE "ask", !.filled = FALSE]]
           sorted == ByPrice(sided)
           below == {l \in Range(sorted) : l.price < m}
           above == {l \in Range(sorted) : l.price >= m}
           low == Keep(sorted, below)
           bids == Reverse(low)
           asks == Keep(sorted, above)
           multiplier == IF Notional(p.bids) > 0 THEN p.quote \div Notional(p.bids) ELSE FeeUnit
           q == Project(p, m)
           Placed1(l) == l \in Levels /\ ~l.filled /\ l.side = IF l.price < m THEN "bid" ELSE "ask"
<1>0. q = [mid |-> m, bids |-> bids, asks |-> asks, quote |-> Notional(bids) * multiplier, base |-> Lots(asks)]
  BY DEF Project
<1>1. all \in Seq(Levels) /\ p.bids \in Seq(Levels) /\ p.quote \in Nat
  BY PlanFields
<1>2. m \in Nat
  BY GridPlanningAssumption DEF GridPlanningAssumption
<1>3. multiplier \in Nat
  <2>1. Notional(p.bids) \in Nat
    BY <1>1, SumsOfLevels
  <2>2. PICK n \in Nat : n = Notional(p.bids)
    BY <2>1
  <2>3. n > 0 => p.quote \div n \in Nat
    BY <1>1, Quotient
  <2>4. FeeUnit \in Nat
    BY DEF FeeUnit
  <2>5. QED BY <2>2, <2>3, <2>4
<1> HIDE DEF multiplier, q, all
<1>4. away \in Seq(Levels \cap far)
  BY <1>1, KeepType
<1> HIDE DEF away
<1>5. \A i \in 1 .. Len(away) : away[i] \in Levels /\ away[i].price # m
  <2>1. ASSUME NEW i \in 1 .. Len(away) PROVE away[i] \in Levels /\ away[i].price # m
    <3>1. away[i] \in Levels \cap far
      BY <1>4
    <3>2. away[i] \in Levels /\ 2 * Abs(away[i].price - m) > 2
      BY <3>1 DEF Tick
    <3>3. away[i].price \in Nat
      BY <3>2 DEF Levels
    <3>4. QED BY <1>2, <3>2, <3>3 DEF Abs
  <2>2. QED BY <2>1
<1>6. Len(away) \in Nat /\ DOMAIN away = 1 .. Len(away)
  BY <1>4
<1>7. ASSUME NEW i \in 1 .. Len(away) PROVE Placed1(sided[i])
  <2>1. PICK l \in Levels : l = away[i] /\ l.price # m
    BY <1>5
  <2>2. l.price \in Nat
    BY DEF Levels
  <2>3. sided[i] = [l EXCEPT !.side = IF l.price <= m THEN "bid" ELSE "ask", !.filled = FALSE]
    BY <1>6, <2>1
  <2> HIDE DEF sided
  <2>4. sided[i] = [side |-> IF l.price <= m THEN "bid" ELSE "ask", price |-> l.price, size |-> l.size, filled |-> FALSE]
    BY <2>3 DEF Levels
  <2>5. sided[i] \in Levels
    BY <2>4 DEF Levels, Sides
  <2>6. QED BY <1>2, <2>1, <2>2, <2>4, <2>5
<1>8. sided \in Seq(Levels) /\ Range(sided) \subseteq {l \in Levels : Placed1(l)}
  <2>1. sided = [i \in 1 .. Len(away) |-> sided[i]]
    BY <1>6
  <2> HIDE DEF sided
  <2>2. \A i \in 1 .. Len(away) : sided[i] \in Levels /\ Placed1(sided[i])
    BY <1>7
  <2>3. DOMAIN sided = 1 .. Len(away)
    BY <2>1
  <2>4. sided \in Seq(Levels)
    BY <1>6, <2>1, <2>2
  <2>5. QED BY <2>2, <2>3, <2>4 DEF Range
<1> HIDE DEF sided
<1>9. sorted \in Seq(Range(sided)) /\ OrderedBy(sorted, NotAbove)
  BY <1>8, ByPriceSorts
<1> HIDE DEF sorted
<1> DEFINE T == {l \in Levels : Placed1(l)}
<1>10. sorted \in Seq(T)
  BY <1>8, <1>9
<1>11. low \in Seq(T \cap below) /\ asks \in Seq(T \cap above)
  BY <1>10, KeepType
<1>12. OrderedBy(low, NotAbove) /\ OrderedBy(asks, NotAbove)
  BY <1>10, <1>9, KeepOrdered
<1> HIDE DEF low, asks
<1>13. /\ \A i \in 1 .. Len(low) : low[i] \in Levels /\ low[i].side = "bid" /\ ~low[i].filled /\ low[i].price < m
       /\ \A i \in 1 .. Len(asks) : asks[i] \in Levels /\ asks[i].side = "ask" /\ ~asks[i].filled /\ asks[i].price >= m
  <2>1. ASSUME NEW i \in 1 .. Len(low)
        PROVE  low[i] \in Levels /\ low[i].side = "bid" /\ ~low[i].filled /\ low[i].price < m
    <3>1. low[i] \in T \cap below
      BY <1>11
    <3>2. QED BY <3>1
  <2>2. ASSUME NEW i \in 1 .. Len(asks)
        PROVE  asks[i] \in Levels /\ asks[i].side = "ask" /\ ~asks[i].filled /\ asks[i].price >= m
    <3>1. asks[i] \in T \cap above
      BY <1>11
    <3>2. asks[i].price \in Nat
      BY <3>1 DEF Levels
    <3>3. QED BY <1>2, <3>1, <3>2
  <2>3. QED BY <2>1, <2>2
<1>14. low \in Seq(Levels) /\ asks \in Seq(Levels)
  BY <1>11
<1>15. /\ bids \in Seq(Levels) /\ Len(bids) = Len(low)
       /\ \A i, j \in 1 .. Len(low) : i < j => <<bids[j], bids[i]>> \in NotAbove
  BY <1>12, <1>14, ReverseOrdered
<1>16. \A i \in 1 .. Len(low) : \E j \in 1 .. Len(low) : bids[i] = low[j]
  <2>1. PICK n \in Nat : n = Len(low)
    BY <1>14
  <2>2. ASSUME NEW i \in 1 .. n PROVE \E j \in 1 .. n : bids[i] = low[j]
    <3>1. n - i + 1 \in 1 .. n
      OBVIOUS
    <3>2. bids[i] = low[n - i + 1]
      BY <2>1 DEF Reverse
    <3>3. QED BY <3>1, <3>2
  <2>3. QED BY <2>1, <2>2
<1> HIDE DEF bids
<1>17. \A i \in 1 .. Len(bids) : bids[i].side = "bid" /\ ~bids[i].filled /\ bids[i].price \in Nat /\ bids[i].price < m
  <2>1. ASSUME NEW i \in 1 .. Len(low)
        PROVE  bids[i].side = "bid" /\ ~bids[i].filled /\ bids[i].price \in Nat /\ bids[i].price < m
    <3>1. PICK j \in 1 .. Len(low) : bids[i] = low[j]
      BY <1>16
    <3>2. low[j] \in Levels /\ low[j].side = "bid" /\ ~low[j].filled /\ low[j].price < m
      BY <1>13
    <3>3. QED BY <3>1, <3>2 DEF Levels
  <2>2. QED BY <1>15, <2>1
<1>18. \A i \in 1 .. Len(asks) : asks[i].price \in Nat /\ m <= asks[i].price
  <2>1. ASSUME NEW i \in 1 .. Len(asks) PROVE asks[i].price \in Nat /\ m <= asks[i].price
    <3>1. asks[i] \in Levels /\ asks[i].price >= m
      BY <1>13
    <3>2. QED BY <1>2, <3>1 DEF Levels
  <2>2. QED BY <2>1
<1>19. \A i, j \in 1 .. Len(bids) : i < j => bids[j].price <= bids[i].price
  BY <1>15 DEF NotAbove
<1>20. \A i, j \in 1 .. Len(asks) : i < j => asks[i].price <= asks[j].price
  BY <1>12 DEF NotAbove, OrderedBy
<1>21. \A i \in 1 .. Len(bids), j \in 1 .. Len(asks) : bids[i].price <= asks[j].price
  BY <1>2, <1>17, <1>18
<1>22. Ladder(q)
  <2>1. q.bids = bids /\ q.asks = asks
    BY <1>0
  <2>2. QED BY <1>13, <1>17, <1>19, <1>20, <1>21, <2>1 DEF Ladder
<1>23. q \in Plans
  <2>1. Notional(bids) \in Nat /\ Lots(asks) \in Nat
    BY <1>14, <1>15, SumsOfLevels
  <2>2. Notional(bids) * multiplier \in Nat
    BY <1>3, <2>1, ProductLaws
  <2>3. QED BY <1>0, <1>14, <1>15, <2>1, <2>2 DEF Plans
<1>24. QED BY <1>22, <1>23 DEF q

(* Where the elements of a concatenation are. *)
Joins(u, s, t, n, k) ==
  /\ Len(u) = n + k /\ DOMAIN u = 1 .. n + k
  /\ \A i \in 1 .. n : u[i] = s[i] /\ i \in 1 .. n + k
  /\ \A j \in 1 .. k : u[n + j] = t[j] /\ n + j \in 1 .. n + k
  /\ \A i \in 1 .. n + k : IF i <= n THEN i \in 1 .. n /\ u[i] = s[i]
                            ELSE i - n \in 1 .. k /\ u[i] = t[i - n]

LEMMA Concatenated ==
  ASSUME NEW T, NEW s \in Seq(T), NEW t \in Seq(T), NEW n, n = Len(s), NEW k, k = Len(t)
  PROVE  s \o t \in Seq(T) /\ Joins(s \o t, s, t, n, k)
<1>1. n \in Nat /\ k \in Nat
  OBVIOUS
<1>2. s \o t \in Seq(T) /\ Len(s \o t) = n + k /\ DOMAIN (s \o t) = 1 .. n + k
  OBVIOUS
<1>3. ASSUME NEW i \in 1 .. n PROVE (s \o t)[i] = s[i] /\ i \in 1 .. n + k
  BY <1>1
<1>4. ASSUME NEW j \in 1 .. k PROVE (s \o t)[n + j] = t[j] /\ n + j \in 1 .. n + k
  BY <1>1
<1>5. ASSUME NEW i \in 1 .. n + k
      PROVE  IF i <= n THEN i \in 1 .. n /\ (s \o t)[i] = s[i] ELSE i - n \in 1 .. k /\ (s \o t)[i] = t[i - n]
  <2>1. CASE i <= n
    <3>1. i \in 1 .. n
      BY <1>1, <2>1
    <3>2. QED BY <1>3, <2>1, <3>1
  <2>2. CASE ~(i <= n)
    <3>1. i - n \in 1 .. k /\ i = n + (i - n)
      BY <1>1, <2>2
    <3>2. QED BY <1>4, <2>2, <3>1
  <2>3. QED BY <2>1, <2>2
<1>6. QED BY <1>2, <1>3, <1>4, <1>5 DEF Joins

LEMMA IndexedSequence ==
  ASSUME NEW T, NEW n \in Nat, NEW f, f = [i \in 1 .. n |-> f[i]], \A i \in 1 .. n : f[i] \in T
  PROVE  f \in Seq(T) /\ Len(f) = n
  OBVIOUS

(* Resizing a plan to what base there is takes lots off its asks, and leaves the rest. *)
LEMMA ResizedPlans ==
  ASSUME NEW p \in Plans, p.base = Lots(p.asks), NEW base \in Nat, ResizeAsks(p, base) # NoPlan
  PROVE  LET q == ResizeAsks(p, base)
         IN /\ q \in Plans /\ q.base = Lots(q.asks)
            /\ q.quote = p.quote /\ q.base <= p.base /\ Notional(q.asks) <= Notional(p.asks)
<1> DEFINE scaled == [i \in DOMAIN p.asks |-> [p.asks[i] EXCEPT !.size = (@ * base) \div p.base]]
           large == {l \in Range(scaled) : l.size >= MinSize}
           asks == Keep(scaled, large)
           q == ResizeAsks(p, base)
<1>1. p.asks \in Seq(Levels) /\ p.base \in Nat /\ p.quote \in Nat
  BY PlanFields
<1>2. Notional(p.asks) \in Nat /\ Lots(p.asks) \in Nat
  BY <1>1, SumsOfLevels
<1>3. CASE p.base <= base
  <2>1. q = p
    BY <1>3 DEF ResizeAsks
  <2>2. QED BY <1>1, <1>2, <2>1
<1>4. CASE ~(p.base <= base)
  <2>1. q = [p EXCEPT !.asks = asks, !.base = Lots(asks)]
    BY <1>4 DEF ResizeAsks
  <2>2. PICK b \in Nat : b = p.base /\ base < b /\ b > 0
    BY <1>1, <1>4
  <2>3. ASSUME NEW i \in DOMAIN p.asks
        PROVE  /\ scaled[i] \in Levels /\ scaled[i].price = p.asks[i].price
               /\ scaled[i].size <= p.asks[i].size
    <3>1. PICK l \in Levels : l = p.asks[i]
      BY <1>1
    <3>2. PICK n \in Nat : n = l.size
      BY DEF Levels
    <3>3. PICK x \in Nat, y \in Nat : x = n * base /\ y = n * b
      BY ProductLaws
    <3>4. x <= y
      <4>1. base * n <= b * n
        BY <2>2, Monotone
      <4>2. QED BY <3>3, <4>1, ProductLaws
    <3>5. x \div b \in Nat /\ b * (x \div b) <= x
      BY <2>2, Quotient
    <3>6. PICK k \in Nat : k = x \div b
      BY <3>5
    <3>7. k <= n
      <4>1. PICK z \in Nat : z = b * k
        BY ProductLaws
      <4>2. b * k <= b * n
        BY <3>3, <3>4, <3>5, <3>6, <4>1, ProductLaws
      <4>3. QED BY <2>2, <4>2, Cancelled
    <3>8. scaled[i] = [l EXCEPT !.size = k]
      BY <2>2, <3>1, <3>2, <3>3, <3>6
    <3> HIDE DEF scaled
    <3>9. scaled[i] = [side |-> l.side, price |-> l.price, size |-> k, filled |-> l.filled]
      BY <3>8 DEF Levels
    <3>10. scaled[i] \in Levels
      BY <3>9 DEF Levels
    <3>11. QED BY <3>1, <3>2, <3>7, <3>9, <3>10
  <2>4. scaled \in Seq(Levels) /\ Len(scaled) = Len(p.asks)
    <3>1. DOMAIN p.asks = 1 .. Len(p.asks) /\ Len(p.asks) \in Nat
      BY <1>1
    <3>2. scaled = [i \in 1 .. Len(p.asks) |-> scaled[i]]
      BY <3>1
    <3> HIDE DEF scaled
    <3>3. \A i \in 1 .. Len(p.asks) : scaled[i] \in Levels
      BY <2>3, <3>1
    <3> DEFINE n == Len(p.asks)
    <3>4. n \in Nat /\ scaled = [i \in 1 .. n |-> scaled[i]] /\ \A i \in 1 .. n : scaled[i] \in Levels
      BY <3>1, <3>2, <3>3
    <3> HIDE DEF n
    <3>5. scaled \in Seq(Levels) /\ Len(scaled) = n
      BY <3>4, IndexedSequence
    <3>6. QED BY <3>5 DEF n
  <2>5. \A i \in 1 .. Len(scaled) : scaled[i].price = p.asks[i].price /\ scaled[i].size <= p.asks[i].size
    <3>1. DOMAIN p.asks = 1 .. Len(p.asks)
      BY <1>1
    <3> HIDE DEF scaled
    <3>2. QED BY <2>3, <2>4, <3>1
  <2> HIDE DEF scaled, q
  <2>6. Notional(scaled) <= Notional(p.asks) /\ Lots(scaled) <= Lots(p.asks)
    BY <1>1, <2>4, <2>5, SmallerCostsLess
  <2> HIDE DEF large
  <2>7. asks \in Seq(Levels) /\ Notional(asks) <= Notional(scaled) /\ Lots(asks) <= Lots(scaled)
    BY <2>4, KeptCostsLess
  <2> HIDE DEF asks
  <2>8. Notional(asks) \in Nat /\ Lots(asks) \in Nat /\ Notional(scaled) \in Nat /\ Lots(scaled) \in Nat
    BY <2>4, <2>7, SumsOfLevels
  <2>9. q = [mid |-> p.mid, bids |-> p.bids, asks |-> asks, quote |-> p.quote, base |-> Lots(asks)]
    BY <2>1 DEF Plans
  <2>10. q \in Plans
    BY <2>7, <2>8, <2>9 DEF Plans
  <2>11. q.base = Lots(q.asks) /\ q.quote = p.quote
    BY <2>9
  <2>12. q.base <= p.base /\ Notional(q.asks) <= Notional(p.asks)
    <3>1. q.base = Lots(asks) /\ q.asks = asks
      BY <2>9
    <3>2. QED BY <1>2, <2>6, <2>7, <2>8, <3>1
  <2>13. QED BY <2>10, <2>11, <2>12 DEF q
<1>5. QED BY <1>3, <1>4

(* ... and so it still keeps to the budget. *)
LEMMA ResizingKeepsBudget ==
  ASSUME NEW c, ConfigTypes(c), c.product = "spot", NEW p \in Plans, KeepsBudget(c, p),
         NEW q \in Plans, q.quote = p.quote, q.base <= p.base, Notional(q.asks) <= Notional(p.asks)
  PROVE  KeepsBudget(c, q)
<1>1. PICK a \in Nat, b \in Nat, x \in Nat, y \in Nat, z \in Nat :
        a = Notional(q.asks) /\ b = Notional(p.asks) /\ x = p.quote /\ y = p.base /\ z = q.base
  <2>1. Notional(q.asks) \in Nat /\ Notional(p.asks) \in Nat
    BY PlanFields, SumsOfLevels
  <2>2. QED BY <2>1, PlanFields
<1>2. PICK F \in Nat : F = FeeUnit
  BY DEF FeeUnit
<1>3. PICK g \in Nat, h \in Nat : g = a * F /\ h = b * F /\ g <= h
  <2>1. a * F <= b * F
    BY <1>1, Monotone
  <2>2. QED BY <2>1, ProductLaws
<1>4. q.quote + Notional(q.asks) * FeeUnit = x + g /\ p.quote + Notional(p.asks) * FeeUnit = x + h
  BY <1>1, <1>2, <1>3
<1>5. c.quote # NoPlan => q.quote <= c.quote * FeeUnit
  BY DEF KeepsBudget
<1>6. c.base # NoPlan /\ c.base > 0 => q.base <= c.base
  <2>1. c.base # NoPlan /\ c.base > 0 => c.base \in Nat /\ p.base <= c.base
    BY DEF KeepsBudget, ConfigTypes
  <2>2. QED BY <1>1, <2>1
<1>7. c.quote = NoPlan /\ c.base = NoPlan /\ c.allocation = "budget" =>
        q.quote + Notional(q.asks) * FeeUnit <= c.amount * FeeUnit
  <2>1. SUFFICES ASSUME c.quote = NoPlan, c.base = NoPlan, c.allocation = "budget"
                 PROVE  x + g <= c.amount * FeeUnit
    BY <1>4
  <2>2. x + h <= c.amount * FeeUnit
    BY <1>4, <2>1 DEF KeepsBudget
  <2>3. PICK budget \in Nat : budget = c.amount * FeeUnit
    <3>1. c.amount \in Nat
      BY DEF ConfigTypes
    <3>2. QED BY <1>2, <3>1, ProductLaws
  <2>4. QED BY <1>3, <2>2, <2>3
<1>8. QED BY <1>5, <1>6, <1>7 DEF KeepsBudget

-----------------------------------------------------------------------------
(***************************************************************************)
(* What is sent of a plan.                                                 *)
(***************************************************************************)

(* Nothing is held back of levels that are not shown as filled. *)
LEMMA NothingFilled ==
  ASSUME NEW levels \in Seq(Levels), \A i \in 1 .. Len(levels) : ~levels[i].filled
  PROVE  NotFilled(levels) = levels
<1> DEFINE S == {l \in Range(levels) : ~l.filled}
<1>1. \A i \in 1 .. Len(levels) : levels[i] \in S
  BY DEF Range
<1> HIDE DEF S
<1>2. Keep(levels, S) = levels
  BY <1>1, KeepAll
<1>3. QED BY <1>2 DEF NotFilled, S

(* All levels of a plan that shows none as filled are sent. *)
LEMMA NothingLeftOut ==
  ASSUME NEW p \in Plans, AllUnfilled(p)
  PROVE  AllLevels(p) \in Seq(Levels) /\ NotFilled(AllLevels(p)) = AllLevels(p)
<1> DEFINE all == AllLevels(p)
<1>1. p.bids \in Seq(Levels) /\ p.asks \in Seq(Levels)
  BY PlanFields
<1>2. all \in Seq(Levels) /\ \A i \in 1 .. Len(all) : ~all[i].filled
  <2>1. all = p.bids \o p.asks
    BY DEF AllLevels
  <2>2. PICK n \in Nat, k \in Nat : n = Len(p.bids) /\ k = Len(p.asks)
    BY <1>1
  <2> HIDE DEF all
  <2>3. /\ \A i \in 1 .. n + k : IF i <= n THEN i \in 1 .. n /\ all[i] = p.bids[i]
                                  ELSE i - n \in 1 .. k /\ all[i] = p.asks[i - n]
        /\ all \in Seq(Levels) /\ Len(all) = n + k
    <3>1. all \in Seq(Levels) /\ Joins(all, p.bids, p.asks, n, k)
      BY <1>1, <2>1, <2>2, Concatenated
    <3>2. QED BY <3>1 DEF Joins
  <2>4. (\A i \in 1 .. n : ~p.bids[i].filled) /\ \A i \in 1 .. k : ~p.asks[i].filled
    BY <2>2 DEF AllUnfilled
  <2>5. ASSUME NEW i \in 1 .. n + k PROVE ~all[i].filled
    <3>1. CASE i <= n
      <4>1. i \in 1 .. n /\ all[i] = p.bids[i]
        BY <2>3, <3>1
      <4>2. ~p.bids[i].filled
        BY <2>4, <4>1
      <4>3. QED BY <4>1, <4>2
    <3>2. CASE ~(i <= n)
      <4>1. i - n \in 1 .. k /\ all[i] = p.asks[i - n]
        BY <2>3, <3>2
      <4>2. ~p.asks[i - n].filled
        BY <2>4, <4>1
      <4>3. QED BY <4>1, <4>2
    <3>3. QED BY <3>1, <3>2
  <2>6. QED BY <2>3, <2>5
<1>3. NotFilled(all) = all
  <2> HIDE DEF all
  <2>1. QED BY <1>2, NothingFilled
<1>4. QED BY <1>2, <1>3

(* A ladder of levels that the market allows, with no price twice, passes the validation of a bulk
   order. *)
LEMMA LaddersAreAccepted ==
  ASSUME NEW p \in Plans, Ladder(p), AllLevels(p) # <<>>,
         \A i \in DOMAIN AllLevels(p) : AllLevels(p)[i].price > 0 /\ AllLevels(p)[i].size >= MinSize,
         \A i, j \in DOMAIN AllLevels(p) : i # j => AllLevels(p)[i].price # AllLevels(p)[j].price,
         Len(p.bids) <= MaxPerSide, Len(p.asks) <= MaxPerSide
  PROVE  Accepted(p)
<1> DEFINE bids == p.bids
           asks == p.asks
           all == AllLevels(p)
<1>1. bids \in Seq(Levels) /\ asks \in Seq(Levels) /\ all = bids \o asks
  BY PlanFields DEF AllLevels
<1>2. PICK n \in Nat, k \in Nat : n = Len(bids) /\ k = Len(asks)
  BY <1>1
<1>3. /\ Len(all) = n + k /\ DOMAIN all = 1 .. n + k
      /\ \A i \in 1 .. n : all[i] = bids[i] /\ i \in 1 .. n + k
      /\ \A j \in 1 .. k : all[n + j] = asks[j] /\ n + j \in 1 .. n + k
  <2>1. all = bids \o asks
    BY <1>1
  <2> HIDE DEF bids, asks, all
  <2>2. Joins(all, bids, asks, n, k)
    BY <1>1, <1>2, <2>1, Concatenated
  <2>3. QED BY <2>2 DEF Joins
<1>4. NotFilled(p.bids) = bids /\ NotFilled(p.asks) = asks
  <2>1. (\A i \in 1 .. Len(bids) : ~bids[i].filled) /\ \A i \in 1 .. Len(asks) : ~asks[i].filled
    BY DEF Ladder
  <2> HIDE DEF bids, asks
  <2>2. NotFilled(bids) = bids /\ NotFilled(asks) = asks
    BY <1>1, <2>1, NothingFilled
  <2>3. QED BY <2>2 DEF bids, asks
<1>5. /\ \A i \in 1 .. n + k : all[i].price > 0 /\ all[i].size >= MinSize
      /\ \A i, j \in 1 .. n + k : i # j => all[i].price # all[j].price
  BY <1>3
<1>6. /\ \A i \in 1 .. n : bids[i].side = "bid"
      /\ \A i \in 1 .. k : asks[i].side = "ask"
      /\ \A i, j \in 1 .. n : i < j => bids[j].price <= bids[i].price
      /\ \A i, j \in 1 .. k : i < j => asks[i].price <= asks[j].price
      /\ \A i \in 1 .. n, j \in 1 .. k : bids[i].price <= asks[j].price
  BY <1>2 DEF Ladder
<1>7. all # <<>> /\ n <= MaxPerSide /\ k <= MaxPerSide
  BY <1>2
<1> HIDE DEF bids, asks, all
<1>8. /\ \A i \in 1 .. n : bids[i].price \in Nat
      /\ \A i \in 1 .. k : asks[i].price \in Nat
  <2>1. /\ \A i \in 1 .. n : bids[i] \in Levels
        /\ \A i \in 1 .. k : asks[i] \in Levels
    BY <1>1, <1>2
  <2>2. QED BY <2>1 DEF Levels
<1>9. SideAccepted(bids, "bid")
  <2>1. ASSUME NEW i \in 1 .. n
        PROVE  /\ bids[i].side = "bid" /\ bids[i].price > 0 /\ bids[i].size >= MinSize
               /\ i > 1 => Better("bid", bids[i - 1].price, bids[i].price)
    <3>1. bids[i].price > 0 /\ bids[i].size >= MinSize
      <4>1. all[i] = bids[i] /\ i \in 1 .. n + k
        BY <1>3
      <4>2. QED BY <1>5, <4>1
    <3>2. ASSUME i > 1 PROVE bids[i].price < bids[i - 1].price
      <4>1. i - 1 \in 1 .. n /\ i - 1 < i
        BY <3>2
      <4>2. bids[i].price <= bids[i - 1].price
        BY <1>6, <4>1
      <4>3. all[i] = bids[i] /\ all[i - 1] = bids[i - 1] /\ i \in 1 .. n + k /\ i - 1 \in 1 .. n + k
        BY <1>3, <4>1
      <4>4. bids[i].price # bids[i - 1].price
        BY <1>5, <4>1, <4>3
      <4>5. QED BY <1>8, <4>1, <4>2, <4>4
    <3>3. QED BY <1>6, <3>1, <3>2 DEF Better
  <2>2. DOMAIN bids = 1 .. n
    BY <1>1, <1>2
  <2>3. QED BY <2>1, <2>2 DEF SideAccepted
<1>10. SideAccepted(asks, "ask")
  <2>1. ASSUME NEW i \in 1 .. k
        PROVE  /\ asks[i].side = "ask" /\ asks[i].price > 0 /\ asks[i].size >= MinSize
               /\ i > 1 => Better("ask", asks[i - 1].price, asks[i].price)
    <3>1. asks[i].price > 0 /\ asks[i].size >= MinSize
      <4>1. all[n + i] = asks[i] /\ n + i \in 1 .. n + k
        BY <1>3
      <4>2. QED BY <1>5, <4>1
    <3>2. ASSUME i > 1 PROVE asks[i - 1].price < asks[i].price
      <4>1. i - 1 \in 1 .. k /\ i - 1 < i
        BY <3>2
      <4>2. asks[i - 1].price <= asks[i].price
        BY <1>6, <4>1
      <4>3. /\ all[n + i] = asks[i] /\ all[n + (i - 1)] = asks[i - 1] /\ n + i \in 1 .. n + k
            /\ n + (i - 1) \in 1 .. n + k /\ n + i # n + (i - 1)
        BY <1>3, <4>1
      <4>4. asks[i].price # asks[i - 1].price
        BY <1>5, <4>3
      <4>5. QED BY <1>8, <4>1, <4>2, <4>4
    <3>3. QED BY <1>6, <3>1, <3>2 DEF Better
  <2>2. DOMAIN asks = 1 .. k
    BY <1>1, <1>2
  <2>3. QED BY <2>1, <2>2 DEF SideAccepted
<1>11. ASSUME bids # <<>>, asks # <<>> PROVE Head(bids).price < Head(asks).price
  <2>1. 1 \in 1 .. n /\ 1 \in 1 .. k /\ Head(bids) = bids[1] /\ Head(asks) = asks[1]
    BY <1>1, <1>2, <1>11
  <2>2. bids[1].price <= asks[1].price
    BY <1>6, <2>1
  <2>3. all[1] = bids[1] /\ all[n + 1] = asks[1] /\ 1 \in 1 .. n + k /\ n + 1 \in 1 .. n + k /\ 1 # n + 1
    BY <1>3, <2>1
  <2>4. bids[1].price # asks[1].price
    BY <1>5, <2>3
  <2>5. QED BY <1>8, <2>1, <2>2, <2>4
<1>12. bids # <<>> \/ asks # <<>>
  <2>1. Len(all) # 0
    BY <1>1, <1>7
  <2>2. QED BY <1>1, <1>2, <1>3, <2>1
<1>13. Accepted(p) <=> /\ bids # <<>> \/ asks # <<>>
                       /\ Len(bids) <= MaxPerSide /\ Len(asks) <= MaxPerSide
                       /\ SideAccepted(bids, "bid") /\ SideAccepted(asks, "ask")
                       /\ bids # <<>> /\ asks # <<>> => Head(bids).price < Head(asks).price
  BY <1>4 DEF Accepted
<1>14. QED BY <1>2, <1>7, <1>9, <1>10, <1>11, <1>12, <1>13

Orders == [side : Sides, price : Nat, size : Nat \ {0}, origin : {"bulk", "standalone"}]

(* What is accepted is sent as orders of some size. *)
LEMMA AcceptedOrders ==
  ASSUME NEW p \in Plans, Ladder(p), Accepted(p)
  PROVE  DesiredOrders(p) \in Seq(Orders)
<1> DEFINE all == AllLevels(p)
<1>1. p.bids \in Seq(Levels) /\ p.asks \in Seq(Levels) /\ MinSize \in Nat /\ MinSize > 0
  BY PlanFields, GridPlanningAssumption DEF GridPlanningAssumption
<1>2. AllUnfilled(p)
  BY DEF Ladder, AllUnfilled
<1>3. NotFilled(p.bids) = p.bids /\ NotFilled(p.asks) = p.asks
  BY <1>1, <1>2, NothingFilled DEF AllUnfilled
<1>4. NotFilled(all) = all /\ all \in Seq(Levels)
  BY <1>2, NothingLeftOut
<1>5. SideAccepted(p.bids, "bid") /\ SideAccepted(p.asks, "ask")
  BY <1>3 DEF Accepted
<1>6. PICK n \in Nat, k \in Nat : n = Len(p.bids) /\ k = Len(p.asks)
  BY <1>1
<1>7. /\ \A i \in 1 .. n : p.bids[i].size >= MinSize
      /\ \A i \in 1 .. k : p.asks[i].size >= MinSize
  BY <1>1, <1>5, <1>6 DEF SideAccepted
<1>8. all = p.bids \o p.asks
  BY DEF AllLevels
<1> HIDE DEF all
<1>9. Joins(all, p.bids, p.asks, n, k)
  BY <1>1, <1>6, <1>8, Concatenated
<1>10. ASSUME NEW i \in 1 .. n + k PROVE Order(all[i], "bulk") \in Orders
  <2>1. all[i] \in Levels
    BY <1>4, <1>9 DEF Joins
  <2>2. all[i].size >= MinSize
    <3>1. CASE i <= n
      <4>1. i \in 1 .. n /\ all[i] = p.bids[i]
        BY <1>9, <3>1 DEF Joins
      <4>2. QED BY <1>7, <4>1
    <3>2. CASE ~(i <= n)
      <4>1. i - n \in 1 .. k /\ all[i] = p.asks[i - n]
        BY <1>9, <3>2 DEF Joins
      <4>2. QED BY <1>7, <4>1
    <3>3. QED BY <3>1, <3>2
  <2>3. PICK l \in Levels : l = all[i] /\ l.size \in Nat /\ l.size > 0
    BY <1>1, <2>1, <2>2 DEF Levels
  <2>4. Order(l, "bulk") \in Orders
    BY <2>3 DEF Order, Orders, Levels
  <2>5. QED BY <2>3, <2>4
<1>11. DesiredOrders(p) = [i \in 1 .. n + k |-> Order(all[i], "bulk")]
  <2>1. AllLevels(p) = all /\ NotFilled(all) = all /\ DOMAIN all = 1 .. n + k
    BY <1>4, <1>9 DEF all, Joins
  <2>2. QED BY <2>1 DEF DesiredOrders
<1>12. n + k \in Nat
  OBVIOUS
<1>13. QED
  <2> DEFINE f(i) == Order(all[i], "bulk")
  <2>1. DesiredOrders(p) = [i \in 1 .. n + k |-> f(i)] /\ \A i \in 1 .. n + k : f(i) \in Orders
    BY <1>10, <1>11
  <2> HIDE DEF f
  <2>2. QED BY <1>12, <2>1

(* What the marks of the trade history leave of a plan: everything but the marks. *)
LEMMA MarksComeOff ==
  ASSUME NEW p \in Plans, AllUnfilled(p), NEW trades
  PROVE  LET snapshot == ApplyTradeHistory(p, trades)
             levels == AllLevels(snapshot)
             wanted == [i \in DOMAIN levels |-> Order(levels[i], "bulk")]
         IN DesiredOrders(Executable(snapshot)) = wanted /\ wanted \in Seq(Range(wanted))
<1> DEFINE snapshot == ApplyTradeHistory(p, trades)
           levels == AllLevels(snapshot)
           wanted == [i \in DOMAIN levels |-> Order(levels[i], "bulk")]
           all == AllLevels(p)
<1>1. p.bids \in Seq(Levels) /\ p.asks \in Seq(Levels)
  BY PlanFields
<1>2. /\ snapshot.bids = [i \in DOMAIN p.bids |-> [p.bids[i] EXCEPT !.filled =
                             @ \/ \E t \in trades : 2 * Abs(t - p.bids[i].price) <= Tick]]
      /\ snapshot.asks = [i \in DOMAIN p.asks |-> [p.asks[i] EXCEPT !.filled =
                             @ \/ \E t \in trades : 2 * Abs(t - p.asks[i].price) <= Tick]]
  BY DEF ApplyTradeHistory, Plans
<1>3. /\ Executable(snapshot).bids = [i \in DOMAIN snapshot.bids |-> [snapshot.bids[i] EXCEPT !.filled = FALSE]]
      /\ Executable(snapshot).asks = [i \in DOMAIN snapshot.asks |-> [snapshot.asks[i] EXCEPT !.filled = FALSE]]
  BY DEF Executable, ApplyTradeHistory, Plans
<1> HIDE DEF snapshot
<1>4. /\ DOMAIN snapshot.bids = DOMAIN p.bids /\ DOMAIN snapshot.asks = DOMAIN p.asks
      /\ \A i \in DOMAIN p.bids : Order(snapshot.bids[i], "bulk") = Order(p.bids[i], "bulk")
      /\ \A i \in DOMAIN p.asks : Order(snapshot.asks[i], "bulk") = Order(p.asks[i], "bulk")
  <2>1. ASSUME NEW i \in DOMAIN p.bids PROVE Order(snapshot.bids[i], "bulk") = Order(p.bids[i], "bulk")
    <3>1. p.bids[i] \in Levels
      BY <1>1
    <3>2. QED BY <1>2, <3>1 DEF Order, Levels
  <2>2. ASSUME NEW i \in DOMAIN p.asks PROVE Order(snapshot.asks[i], "bulk") = Order(p.asks[i], "bulk")
    <3>1. p.asks[i] \in Levels
      BY <1>1
    <3>2. QED BY <1>2, <3>1 DEF Order, Levels
  <2>3. QED BY <1>2, <2>1, <2>2
<1>5. Executable(snapshot).bids = p.bids /\ Executable(snapshot).asks = p.asks
  <2>1. ASSUME NEW i \in DOMAIN p.bids PROVE [snapshot.bids[i] EXCEPT !.filled = FALSE] = p.bids[i]
    <3>1. p.bids[i] \in Levels /\ i \in 1 .. Len(p.bids)
      BY <1>1
    <3>2. p.bids[i].filled \in BOOLEAN /\ ~p.bids[i].filled
      BY <3>1 DEF AllUnfilled, Levels
    <3>3. p.bids[i].filled = FALSE
      BY <3>2
    <3>4. QED BY <1>2, <3>1, <3>3 DEF Levels
  <2>2. ASSUME NEW i \in DOMAIN p.asks PROVE [snapshot.asks[i] EXCEPT !.filled = FALSE] = p.asks[i]
    <3>1. p.asks[i] \in Levels /\ i \in 1 .. Len(p.asks)
      BY <1>1
    <3>2. p.asks[i].filled \in BOOLEAN /\ ~p.asks[i].filled
      BY <3>1 DEF AllUnfilled, Levels
    <3>3. p.asks[i].filled = FALSE
      BY <3>2
    <3>4. QED BY <1>2, <3>1, <3>3 DEF Levels
  <2>3. Executable(snapshot).bids = [i \in DOMAIN p.bids |-> p.bids[i]]
        /\ Executable(snapshot).asks = [i \in DOMAIN p.asks |-> p.asks[i]]
    BY <1>3, <1>4, <2>1, <2>2
  <2>4. QED BY <1>1, <2>3
<1>6. all \in Seq(Levels) /\ NotFilled(all) = all
  BY NothingLeftOut
<1>7. AllLevels(Executable(snapshot)) = all
  BY <1>5 DEF AllLevels
<1>9. DesiredOrders(Executable(snapshot)) = [i \in DOMAIN all |-> Order(all[i], "bulk")]
  <2> HIDE DEF all
  <2>1. QED BY <1>6, <1>7 DEF DesiredOrders
<1>10. DOMAIN levels = DOMAIN all /\ \A i \in DOMAIN all : Order(levels[i], "bulk") = Order(all[i], "bulk")
  <2>1. snapshot.bids \in Seq(Range(snapshot.bids)) /\ snapshot.asks \in Seq(Range(snapshot.asks))
        /\ Len(snapshot.bids) = Len(p.bids) /\ Len(snapshot.asks) = Len(p.asks)
    <3>1. PICK n \in Nat, k \in Nat : n = Len(p.bids) /\ k = Len(p.asks) /\ DOMAIN p.bids = 1 .. n /\ DOMAIN p.asks = 1 .. k
      BY <1>1
    <3>2. snapshot.bids = [i \in 1 .. n |-> snapshot.bids[i]] /\ snapshot.asks = [i \in 1 .. k |-> snapshot.asks[i]]
      BY <1>2, <3>1
    <3>3. snapshot.bids \in Seq(Range(snapshot.bids)) /\ Len(snapshot.bids) = n
      <4>1. \A i \in 1 .. n : snapshot.bids[i] \in Range(snapshot.bids)
        BY <1>4, <3>1 DEF Range
      <4>2. QED BY <3>2, <4>1, IndexedSequence
    <3>4. snapshot.asks \in Seq(Range(snapshot.asks)) /\ Len(snapshot.asks) = k
      <4>1. \A i \in 1 .. k : snapshot.asks[i] \in Range(snapshot.asks)
        BY <1>4, <3>1 DEF Range
      <4>2. QED BY <3>2, <4>1, IndexedSequence
    <3>5. QED BY <3>1, <3>3, <3>4
  <2>2. PICK n \in Nat, k \in Nat : n = Len(p.bids) /\ k = Len(p.asks)
    BY <1>1
  <2>3. levels = snapshot.bids \o snapshot.asks /\ all = p.bids \o p.asks
    BY DEF AllLevels
  <2> HIDE DEF levels, all
  <2> DEFINE T == Range(snapshot.bids) \cup Range(snapshot.asks)
  <2>4. /\ DOMAIN levels = 1 .. n + k /\ DOMAIN all = 1 .. n + k
        /\ \A i \in 1 .. n + k : IF i <= n THEN i \in 1 .. n /\ all[i] = p.bids[i] /\ levels[i] = snapshot.bids[i]
             ELSE i - n \in 1 .. k /\ all[i] = p.asks[i - n] /\ levels[i] = snapshot.asks[i - n]
    <3>1. snapshot.bids \in Seq(T) /\ snapshot.asks \in Seq(T) /\ n = Len(snapshot.bids) /\ k = Len(snapshot.asks)
      BY <2>1, <2>2
    <3> HIDE DEF T
    <3>2. /\ DOMAIN levels = 1 .. n + k
          /\ \A i \in 1 .. n + k : IF i <= n THEN i \in 1 .. n /\ levels[i] = snapshot.bids[i]
                                    ELSE i - n \in 1 .. k /\ levels[i] = snapshot.asks[i - n]
      <4>1. Joins(levels, snapshot.bids, snapshot.asks, n, k)
        BY <2>3, <3>1, Concatenated
      <4>2. QED BY <4>1 DEF Joins
    <3>3. /\ DOMAIN all = 1 .. n + k
          /\ \A i \in 1 .. n + k : IF i <= n THEN i \in 1 .. n /\ all[i] = p.bids[i]
                                    ELSE i - n \in 1 .. k /\ all[i] = p.asks[i - n]
      <4>1. Joins(all, p.bids, p.asks, n, k)
        BY <1>1, <2>2, <2>3, Concatenated
      <4>2. QED BY <4>1 DEF Joins
    <3>4. QED BY <3>2, <3>3
  <2>5. ASSUME NEW i \in 1 .. n + k PROVE Order(levels[i], "bulk") = Order(all[i], "bulk")
    <3>1. CASE i <= n
      <4>1. i \in DOMAIN p.bids
        BY <1>1, <2>2, <2>4, <3>1
      <4>2. QED BY <1>4, <2>4, <3>1, <4>1
    <3>2. CASE ~(i <= n)
      <4>1. i - n \in DOMAIN p.asks
        <5>1. i - n \in 1 .. k
          BY <2>4, <3>2
        <5>2. QED BY <1>1, <2>2, <5>1
      <4>2. QED BY <1>4, <2>4, <3>2, <4>1
    <3>3. QED BY <3>1, <3>2
  <2>6. QED BY <2>4, <2>5
<1>11. wanted = [i \in DOMAIN all |-> Order(all[i], "bulk")]
  <2> HIDE DEF levels, all
  <2>1. QED BY <1>10
<1>12. wanted \in Seq(Range(wanted))
  <2>1. PICK n \in Nat : DOMAIN all = 1 .. n
    BY <1>6
  <2> HIDE DEF levels, all
  <2>2. wanted = [i \in 1 .. n |-> wanted[i]] /\ DOMAIN wanted = 1 .. n
    BY <1>10, <2>1
  <2> HIDE DEF wanted
  <2>3. QED BY <2>2 DEF Range
<1>13. QED BY <1>9, <1>11, <1>12 DEF snapshot

-----------------------------------------------------------------------------
(***************************************************************************)
(* The run loop.                                                           *)
(***************************************************************************)
\* Beside the types: the loop pauses at the limit of failures; only a Spot grid pins a plan, which
\* keeps to the budget; and the plan of the last cycle is a ladder, of a Perp grid one that was built.
PlanInv ==
  /\ PlanTypeOK
  /\ run.state # "paused" => run.failures < MaxFailures
  /\ run.state = "placing" => plan \in Plans /\ Ladder(plan)
  /\ pinned # NoPlan => /\ Valid(config) /\ config.product = "spot"
                        /\ KeepsBudget(config, pinned) /\ pinned.base = Lots(pinned.asks)
  /\ plan # NoPlan => /\ Ladder(plan)
                      /\ config.product = "perp" => FitsVenue(plan) /\ KeepsBudget(config, plan)

LEMMA PlanInvInit == PlanInit => PlanInv
<1> SUFFICES ASSUME PlanInit PROVE PlanInv
  OBVIOUS
<1>1. MaxFailures \in Nat /\ MaxFailures > 0
  BY GridPlanningAssumption DEF GridPlanningAssumption
<1>2. <<>> \in Seq(Orders)
  OBVIOUS
<1>3. 0 \in 0 .. MaxFailures /\ 0 \in Nat
  BY <1>1
<1>4. PlanTypeOK
  BY <1>2, <1>3 DEF PlanInit, PlanTypeOK, Orders
<1>5. QED BY <1>1, <1>4 DEF PlanInit, PlanInv

(* What the run loop keeps of its locals when it decides. *)
LEMMA DecidesTyped ==
  ASSUME PlanInv, run.state = "cycle", NEW p, NEW may, NEW funded \in BOOLEAN, Decides(p, may, funded)
  PROVE  /\ run' \in [state : {"cycle", "placing", "paused"}, failures : 0 .. MaxFailures, submitted : Nat,
                      funded : BOOLEAN]
         /\ run'.failures < MaxFailures
<1>1. run \in [state : {"cycle", "placing", "paused"}, failures : 0 .. MaxFailures, submitted : Nat,
               funded : BOOLEAN]
  BY DEF PlanInv, PlanTypeOK
<1>2. PICK places \in BOOLEAN : run' = [run EXCEPT !.state = IF places THEN "placing" ELSE "cycle", !.funded = funded]
  BY DEF Decides
<1>3. run' = [state |-> IF places THEN "placing" ELSE "cycle", failures |-> run.failures,
              submitted |-> run.submitted, funded |-> funded]
  BY <1>1, <1>2
<1>4. run.failures < MaxFailures
  BY DEF PlanInv
<1>5. QED BY <1>1, <1>3, <1>4

\* A snapshot pins a plan that keeps to the budget.
LEMMA PinnedPlans ==
  ASSUME PlanInv, config.product = "spot", NEW snapshot, snapshot = BuildPlan(config, mid), snapshot # NoPlan
  PROVE  /\ Pin(snapshot) \in Plans /\ ConfigTypes(config) /\ Valid(config)
         /\ KeepsBudget(config, Pin(snapshot)) /\ Pin(snapshot).base = Lots(Pin(snapshot).asks)
<1>1. config \in Settings /\ mid \in Mids /\ pinned \in Plans \cup {NoPlan}
  BY DEF PlanInv, PlanTypeOK
<1>2. Valid(config) /\ snapshot \in Plans /\ KeepsBudget(config, snapshot) /\ snapshot.base = Lots(snapshot.asks)
  BY <1>1, BuiltPlans
<1>3. ConfigTypes(config)
  BY <1>1, <1>2, ValidTypes
<1>4. QED BY <1>1, <1>2, <1>3 DEF Pin, PlanInv

LEMMA PlanInvStep == PlanInv /\ [PlanNext]_planVars => PlanInv'
<1> SUFFICES ASSUME PlanInv, [PlanNext]_planVars PROVE PlanInv'
  OBVIOUS
<1>1. /\ config \in Settings /\ mid \in Mids /\ pinned \in Plans \cup {NoPlan} /\ plan \in Plans \cup {NoPlan}
      /\ orders \in Seq(Orders)
      /\ run \in [state : {"cycle", "placing", "paused"}, failures : 0 .. MaxFailures, submitted : Nat,
                  funded : BOOLEAN]
  BY DEF PlanInv, PlanTypeOK, Orders
<1>2. MaxFailures \in Nat /\ MaxFailures > 0 /\ MinSize \in Nat /\ MinSize > 0
      /\ \A b \in Balances : b.base \in Nat
  BY GridPlanningAssumption DEF GridPlanningAssumption
<1>3. ASSUME /\ orders' \in Seq(Orders) /\ UNCHANGED <<config, pinned, plan>> /\ mid' \in Mids
             /\ run' \in [state : {"cycle", "placing", "paused"}, failures : 0 .. MaxFailures, submitted : Nat,
                          funded : BOOLEAN]
             /\ run'.state # "paused" => run'.failures < MaxFailures
             /\ run'.state = "placing" => plan \in Plans /\ Ladder(plan)
      PROVE  PlanInv'
  <2>1. PlanTypeOK'
    BY <1>1, <1>3 DEF PlanTypeOK, Orders
  <2>2. /\ pinned' = pinned /\ plan' = plan /\ config' = config
        /\ run'.state # "paused" => run'.failures < MaxFailures
        /\ run'.state = "placing" => plan \in Plans /\ Ladder(plan)
    BY <1>3
  <2>3. QED BY <2>1, <2>2 DEF PlanInv
<1>4. CASE SpotCycle
  <2>1. PICK snapshot \in {BuildPlan(config, mid)} \ {NoPlan} : pinned' = Pin(snapshot)
    BY <1>4 DEF SpotCycle
  <2>2. run.state = "cycle" /\ config.product = "spot" /\ UNCHANGED <<config, mid, orders>>
    BY <1>4 DEF SpotCycle
  <2>3. /\ pinned' \in Plans /\ Valid(config) /\ KeepsBudget(config, pinned') /\ pinned'.base = Lots(pinned'.asks)
    BY <2>1, <2>2, PinnedPlans
  <2>4. plan' \in Plans /\ Ladder(plan')
    <3>1. plan' = Project(pinned', mid)
      BY <1>4 DEF SpotCycle
    <3>2. QED BY <1>1, <2>3, <3>1, ProjectedPlans
  <2>5. /\ run' \in [state : {"cycle", "placing", "paused"}, failures : 0 .. MaxFailures, submitted : Nat,
                     funded : BOOLEAN]
        /\ run'.failures < MaxFailures
    <3>1. PICK balance \in Balances : Decides(plan', Covers(balance, plan'), run.funded)
      BY <1>4 DEF SpotCycle
    <3>2. run.funded \in BOOLEAN
      BY <1>1
    <3>3. QED BY <2>2, <3>1, <3>2, DecidesTyped
  <2>6. PlanTypeOK'
    BY <1>1, <2>2, <2>3, <2>4, <2>5 DEF PlanTypeOK, Orders
  <2>7. QED BY <2>2, <2>3, <2>4, <2>5, <2>6 DEF PlanInv
<1>5. CASE PartialEntry
  <2>1. PICK snapshot \in {BuildPlan(config, mid)} \ {NoPlan}, balance \in Balances :
          /\ pinned' = ResizeAsks(Pin(snapshot), balance.base) /\ pinned' # NoPlan
          /\ plan' = Project(pinned', mid)
          /\ Decides(plan', Covers(balance, plan'), TRUE)
    BY <1>5 DEF PartialEntry
  <2>2. run.state = "cycle" /\ config.product = "spot" /\ UNCHANGED <<config, mid, orders>>
    BY <1>5 DEF PartialEntry
  <2>3. /\ Pin(snapshot) \in Plans /\ ConfigTypes(config) /\ Valid(config)
        /\ KeepsBudget(config, Pin(snapshot)) /\ Pin(snapshot).base = Lots(Pin(snapshot).asks)
    BY <2>1, <2>2, PinnedPlans
  <2>4. balance.base \in Nat
    BY <1>2
  <2>5. /\ pinned' \in Plans /\ pinned'.base = Lots(pinned'.asks) /\ pinned'.quote = Pin(snapshot).quote
        /\ pinned'.base <= Pin(snapshot).base /\ Notional(pinned'.asks) <= Notional(Pin(snapshot).asks)
    BY <2>1, <2>3, <2>4, ResizedPlans
  <2>6. KeepsBudget(config, pinned')
    BY <2>2, <2>3, <2>5, ResizingKeepsBudget
  <2>7. plan' \in Plans /\ Ladder(plan')
    BY <1>1, <2>1, <2>5, ProjectedPlans
  <2>8. /\ run' \in [state : {"cycle", "placing", "paused"}, failures : 0 .. MaxFailures, submitted : Nat,
                     funded : BOOLEAN]
        /\ run'.failures < MaxFailures
    BY <2>1, <2>2, DecidesTyped
  <2>9. PlanTypeOK'
    BY <1>1, <2>2, <2>5, <2>7, <2>8 DEF PlanTypeOK, Orders
  <2>10. QED BY <2>2, <2>3, <2>5, <2>6, <2>7, <2>8, <2>9 DEF PlanInv
<1>6. CASE PerpCycle
  <2>1. /\ run.state = "cycle" /\ config.product = "perp" /\ plan' = BuildPlan(config, mid) /\ plan' # NoPlan
        /\ Decides(plan', TRUE, FALSE) /\ UNCHANGED <<config, mid, pinned, orders>>
    BY <1>6 DEF PerpCycle
  <2>2. plan' \in Plans /\ FitsVenue(plan') /\ KeepsBudget(config, plan') /\ Ladder(plan')
    BY <1>1, <2>1, BuiltPlans
  <2>3. /\ run' \in [state : {"cycle", "placing", "paused"}, failures : 0 .. MaxFailures, submitted : Nat,
                     funded : BOOLEAN]
        /\ run'.failures < MaxFailures
    BY <2>1, DecidesTyped
  <2>4. PlanTypeOK'
    BY <1>1, <2>1, <2>2, <2>3 DEF PlanTypeOK, Orders
  <2>5. pinned = NoPlan
    BY <2>1 DEF PlanInv
  <2>6. QED BY <2>1, <2>2, <2>3, <2>4, <2>5 DEF PlanInv
<1>7. CASE Placed
  <2>1. /\ Accepted(plan) /\ orders' = Standalone(orders) \o DesiredOrders(plan)
        /\ run' = [run EXCEPT !.state = "cycle", !.failures = 0, !.submitted = Len(DesiredOrders(plan))]
        /\ UNCHANGED <<config, mid, pinned, plan>>
    BY <1>7 DEF Placed
  <2>2. plan \in Plans /\ Ladder(plan)
    BY <1>7 DEF Placed, PlanInv
  <2>3. DesiredOrders(plan) \in Seq(Orders)
    BY <2>1, <2>2, AcceptedOrders
  <2>4. Standalone(orders) \in Seq(Orders)
    <3>1. Standalone(orders) \in Seq(Orders \cap {o \in Range(orders) : o.origin = "standalone"})
      BY <1>1, KeepType DEF Standalone
    <3>2. QED BY <3>1
  <2>5. orders' \in Seq(Orders)
    BY <2>1, <2>3, <2>4
  <2>6. run' = [state |-> "cycle", failures |-> 0, submitted |-> Len(DesiredOrders(plan)), funded |-> run.funded]
    BY <1>1, <2>1
  <2>7. 0 \in 0 .. MaxFailures /\ Len(DesiredOrders(plan)) \in Nat /\ 0 < MaxFailures
    BY <1>2, <2>3
  <2>8. QED BY <1>1, <1>3, <2>1, <2>5, <2>6, <2>7
<1>8. CASE PlacementFails
  <2>1. run.state = "placing" /\ UNCHANGED <<config, mid, pinned, plan>>
    BY <1>8 DEF PlacementFails
  <2>2. PICK n \in Nat : n = run.failures /\ n < MaxFailures
    BY <1>1, <2>1 DEF PlanInv
  <2>3. CASE n + 1 < MaxFailures
    <3>1. run' = [run EXCEPT !.state = "cycle", !.failures = n + 1] /\ orders' = orders
      BY <1>8, <2>2, <2>3 DEF PlacementFails
    <3>2. run' = [state |-> "cycle", failures |-> n + 1, submitted |-> run.submitted, funded |-> run.funded]
      BY <1>1, <3>1
    <3>3. QED BY <1>1, <1>2, <1>3, <2>1, <2>3, <3>1, <3>2
  <2>4. CASE ~(n + 1 < MaxFailures)
    <3>1. run' = [run EXCEPT !.state = "paused", !.failures = n + 1] /\ orders' \in {orders, Standalone(orders)}
      BY <1>8, <2>2, <2>4 DEF PlacementFails
    <3>2. run' = [state |-> "paused", failures |-> n + 1, submitted |-> run.submitted, funded |-> run.funded]
      BY <1>1, <3>1
    <3>3. Standalone(orders) \in Seq(Orders)
      <4>1. Standalone(orders) \in Seq(Orders \cap {o \in Range(orders) : o.origin = "standalone"})
        BY <1>1, KeepType DEF Standalone
      <4>2. QED BY <4>1
    <3>4. n + 1 \in 0 .. MaxFailures
      BY <1>2, <2>2
    <3>5. QED BY <1>1, <1>3, <2>1, <3>1, <3>2, <3>3, <3>4
  <2>5. QED BY <2>3, <2>4
<1>9. CASE MidMoves
  <2>1. mid' \in Mids /\ UNCHANGED <<config, pinned, plan, orders, run>>
    BY <1>9 DEF MidMoves
  <2>2. (run'.state # "paused" => run'.failures < MaxFailures)
        /\ (run'.state = "placing" => plan \in Plans /\ Ladder(plan))
    BY <2>1 DEF PlanInv
  <2>3. QED BY <1>1, <1>3, <2>1, <2>2
<1>10. CASE Fill
  <2>1. PICK i \in DOMAIN orders, rest \in {0, 1} :
          /\ rest < orders[i].size
          /\ orders' = IF rest = 0 THEN RemoveAt(orders, i) ELSE [orders EXCEPT ![i].size = rest]
    BY <1>10 DEF Fill
  <2>2. UNCHANGED <<config, mid, pinned, plan, run>>
    BY <1>10 DEF Fill
  <2>3. orders' \in Seq(Orders)
    <3>1. PICK n \in Nat : n = Len(orders) /\ i \in 1 .. n
      BY <1>1
    <3>2. CASE rest = 0
      <4> DEFINE front == SubSeq(orders, 1, i - 1)
                 back == SubSeq(orders, i + 1, n)
      <4>1. orders' = front \o back
        BY <2>1, <3>1, <3>2 DEF RemoveAt
      <4>2. front \in Seq(Orders)
        BY <1>1, <3>1
      <4>3. back \in Seq(Orders)
        BY <1>1, <3>1
      <4> HIDE DEF front, back
      <4>4. QED BY <4>1, <4>2, <4>3
    <3>3. CASE rest = 1
      <4>1. PICK o \in Orders : o = orders[i]
        BY <1>1, <3>1
      <4>2. [o EXCEPT !.size = 1] \in Orders
        <5>1. 1 \in Nat \ {0}
          OBVIOUS
        <5>2. [o EXCEPT !.size = 1] = [side |-> o.side, price |-> o.price, size |-> 1, origin |-> o.origin]
          BY DEF Orders
        <5>3. QED BY <5>1, <5>2 DEF Orders
      <4>3. orders' = [orders EXCEPT ![i] = [o EXCEPT !.size = 1]]
        BY <2>1, <3>3, <4>1
      <4>4. QED BY <1>1, <3>1, <4>2, <4>3
    <3>4. QED BY <2>1, <3>2, <3>3
  <2>4. (run'.state # "paused" => run'.failures < MaxFailures)
        /\ (run'.state = "placing" => plan \in Plans /\ Ladder(plan))
    BY <2>2 DEF PlanInv
  <2>5. QED BY <1>1, <1>3, <2>2, <2>3, <2>4
<1>11. CASE StandalonePlaced
  <2>1. /\ plan # NoPlan /\ AllLevels(plan) # <<>> /\ Head(AllLevels(plan)).size > 0
        /\ orders' = Append(orders, Order(Head(AllLevels(plan)), "standalone"))
        /\ UNCHANGED <<config, mid, pinned, plan, run>>
    BY <1>11 DEF StandalonePlaced
  <2>2. AllLevels(plan) \in Seq(Levels)
    BY <1>1, <2>1, PlanFields
  <2>3. PICK l \in Levels : l = Head(AllLevels(plan))
    BY <2>1, <2>2
  <2>4. Order(l, "standalone") \in Orders
    BY <2>1, <2>3 DEF Order, Orders, Levels
  <2>5. orders' \in Seq(Orders)
    BY <1>1, <2>1, <2>3, <2>4
  <2>6. (run'.state # "paused" => run'.failures < MaxFailures)
        /\ (run'.state = "placing" => plan \in Plans /\ Ladder(plan))
    BY <2>1 DEF PlanInv
  <2>7. QED BY <1>1, <1>3, <2>1, <2>5, <2>6
<1>12. CASE StandaloneLeaves
  <2>1. /\ orders' = Keep(orders, {o \in Range(orders) : o.origin = "bulk"})
        /\ UNCHANGED <<config, mid, pinned, plan, run>>
    BY <1>12 DEF StandaloneLeaves
  <2>2. orders' \in Seq(Orders)
    <3>1. orders' \in Seq(Orders \cap {o \in Range(orders) : o.origin = "bulk"})
      BY <1>1, <2>1, KeepType
    <3>2. QED BY <3>1
  <2>3. (run'.state # "paused" => run'.failures < MaxFailures)
        /\ (run'.state = "placing" => plan \in Plans /\ Ladder(plan))
    BY <2>1 DEF PlanInv
  <2>4. QED BY <1>1, <1>3, <2>1, <2>2, <2>3
<1>13. CASE Paused \/ UNCHANGED planVars
  <2>1. UNCHANGED <<config, mid, pinned, plan, orders, run>>
    BY <1>13 DEF Paused, planVars
  <2>2. (run'.state # "paused" => run'.failures < MaxFailures)
        /\ (run'.state = "placing" => plan \in Plans /\ Ladder(plan))
    BY <2>1 DEF PlanInv
  <2>3. QED BY <1>1, <1>3, <2>1, <2>2
<1>14. QED BY <1>4, <1>5, <1>6, <1>7, <1>8, <1>9, <1>10, <1>11, <1>12, <1>13 DEF PlanNext

LEMMA PlanInvariance == PlanSpec => []PlanInv
<1>1. PlanInit => PlanInv
  BY PlanInvInit
<1>2. PlanInv /\ [PlanNext]_planVars => PlanInv'
  BY PlanInvStep
<1>3. QED BY <1>1, <1>2, PTL DEF PlanSpec

\* Plans, orders and locals of the run loop have their types.
THEOREM PlansTypeCorrect == PlanSpec => []PlanTypeOK
<1>1. PlanInv => PlanTypeOK
  BY DEF PlanInv
<1>2. QED BY <1>1, PlanInvariance, PTL

LEMMA PlanInvAccepts == PlanInv => SoundPlansAreAccepted
<1> SUFFICES ASSUME PlanInv, plan # NoPlan, Sound(plan) PROVE Accepted(plan)
  BY DEF SoundPlansAreAccepted
<1>1. config \in Settings /\ plan \in Plans /\ Ladder(plan)
  BY DEF PlanInv, PlanTypeOK
<1>2. config.product \in {"spot", "perp"}
  BY <1>1, GridPlanningAssumption DEF GridPlanningAssumption, Configs
<1>3. Len(plan.bids) <= MaxPerSide /\ Len(plan.asks) <= MaxPerSide
  <2>1. CASE config.product = "spot"
    BY <2>1 DEF Sound
  <2>2. CASE config.product = "perp"
    <3>1. FitsVenue(plan)
      BY <2>2 DEF PlanInv
    <3>2. QED BY <3>1, GridPlanningAssumption DEF FitsVenue, GridPlanningAssumption
  <2>3. QED BY <1>2, <2>1, <2>2
<1>4. /\ AllLevels(plan) # <<>>
      /\ \A i \in DOMAIN AllLevels(plan) : AllLevels(plan)[i].price > 0 /\ AllLevels(plan)[i].size >= MinSize
      /\ \A i, j \in DOMAIN AllLevels(plan) : i # j => AllLevels(plan)[i].price # AllLevels(plan)[j].price
  BY DEF Sound
<1>5. QED BY <1>1, <1>3, <1>4, LaddersAreAccepted

\* Whatever the mid did since a Spot plan was pinned, and however the prices of a Perp plan were
\* rounded and merged: a plan of levels that the market allows, with no price twice, is never refused
\* by the validation of the bulk order (lib.rs:1732-1805). The plan of the last cycle is a ladder, with
\* its sides apart and in order, and without equal prices the order is strict.
THEOREM AcceptanceOfSoundPlans == PlanSpec => []SoundPlansAreAccepted
<1>1. QED BY PlanInvAccepts, PlanInvariance, PTL

LEMMA PlanInvKeepsBudgets == PlanInv => BudgetsKept
<1> SUFFICES ASSUME PlanInv PROVE BudgetsKept
  OBVIOUS
<1>1. ASSUME pinned # NoPlan
      PROVE  /\ config.quote # NoPlan => pinned.quote <= config.quote * FeeUnit
             /\ config.base # NoPlan /\ config.base > 0 => pinned.base <= config.base
             /\ config.quote = NoPlan /\ config.base = NoPlan /\ config.allocation = "budget" =>
                  pinned.quote + Notional(pinned.asks) * FeeUnit <= config.amount * FeeUnit
  <2>1. KeepsBudget(config, pinned) /\ config.product = "spot"
    BY <1>1 DEF PlanInv
  <2>2. QED BY <2>1 DEF KeepsBudget
<1>2. ASSUME config.product = "perp", plan # NoPlan, config.allocation = "budget"
      PROVE  Larger(Notional(plan.bids), Notional(plan.asks)) * FeeUnit
               + (Notional(plan.bids) + Notional(plan.asks)) * config.fee * config.leverage
               <= config.amount * FeeUnit * config.leverage
  <2>1. KeepsBudget(config, plan)
    BY <1>2 DEF PlanInv
  <2>2. PerpMargin(config, Notional(plan.bids), Notional(plan.asks)) <= config.amount * FeeUnit * config.leverage
    BY <1>2, <2>1 DEF KeepsBudget
  <2>3. QED BY <2>2 DEF PerpMargin
<1>3. QED BY <1>1, <1>2 DEF BudgetsKept

\* After all the rounding of prices, level counts and sizes, and after asks were cut down to the base
\* that a partial entry bought, what the operator set aside pays for the plan: the bids with their
\* maker fees, the asks, and the margin of a Perp grid with the fees of both sides (lib.rs:2318-2415).
THEOREM BudgetsAreKept == PlanSpec => []BudgetsKept
<1>1. QED BY PlanInvKeepsBudgets, PlanInvariance, PTL

LEMMA PlanInvComparesExactly == PlanInv => ReconcileIsExact
<1> SUFFICES ASSUME PlanInv, NEW snapshot \in {Snapshot(Mids)} \ {NoPlan}
             PROVE  LET levels == AllLevels(snapshot)
                        wanted == [i \in DOMAIN levels |-> Order(levels[i], "bulk")]
                        result == ReconcileSnapshot(snapshot)
                        kinds == Range(wanted) \cup Range(orders)
                    IN /\ \A kind \in kinds :
                            /\ HowMany(result.missing, kind) = Larger(HowMany(wanted, kind) - HowMany(orders, kind), 0)
                            /\ Cardinality({i \in result.matched : Same(kind, orders[i])})
                                 = Smaller(HowMany(wanted, kind), HowMany(orders, kind))
                       /\ Converged(orders, result) <=>
                            \A kind \in kinds : HowMany(wanted, kind) = HowMany(orders, kind)
  BY DEF ReconcileIsExact
<1> DEFINE levels == AllLevels(snapshot)
           wanted == [i \in DOMAIN levels |-> Order(levels[i], "bulk")]
           result == ReconcileSnapshot(snapshot)
           kinds == Range(wanted) \cup Range(orders)
<1>1. config \in Settings /\ mid \in Mids /\ orders \in Seq(Orders)
  BY DEF PlanInv, PlanTypeOK, Orders
<1> DEFINE built == BuildPlan(config, mid)
<1>2. built # NoPlan /\ snapshot = ApplyTradeHistory(built, Mids)
  BY DEF Snapshot
<1>3. built \in Plans /\ AllUnfilled(built)
  BY <1>1, <1>2, BuiltPlans
<1> HIDE DEF built
<1>4. DesiredOrders(Executable(snapshot)) = wanted /\ wanted \in Seq(Range(wanted))
  BY <1>2, <1>3, MarksComeOff
<1> HIDE DEF levels, wanted
<1>5. result = Reconcile(wanted, orders)
  BY <1>4 DEF ReconcileSnapshot
<1> HIDE DEF result
<1>6. ASSUME NEW kind
      PROVE  /\ HowMany(result.missing, kind) = Larger(HowMany(wanted, kind) - HowMany(orders, kind), 0)
             /\ Cardinality({i \in result.matched : Same(kind, orders[i])})
                  = Smaller(HowMany(wanted, kind), HowMany(orders, kind))
  <2>1. /\ HowMany(result.missing, kind) = Larger(HowMany(wanted, kind) - HowMany(orders, kind), 0)
        /\ Taken(result, orders, kind) = Smaller(HowMany(wanted, kind), HowMany(orders, kind))
    BY <1>1, <1>4, <1>5, ReconcileComparesKinds
  <2>2. QED BY <2>1 DEF Taken, PlacesOf
<1>7. Converged(orders, result) <=> \A kind \in kinds : HowMany(wanted, kind) = HowMany(orders, kind)
  BY <1>1, <1>4, <1>5, ConvergedIsAgreement
<1>8. QED BY <1>6, <1>7 DEF levels, wanted, result

\* For any plan and any orders on the book: of every price, side and size the report of reconcile,
\* doctor and shadow misses exactly what the book lacks, no open order covers two levels, and it says
\* converged exactly if the book is the whole ladder and nothing else (reconcile.rs:97-150).
THEOREM ComparisonIsExact == PlanSpec => []ReconcileIsExact
<1>1. QED BY PlanInvComparesExactly, PlanInvariance, PTL

-----------------------------------------------------------------------------
(***************************************************************************)
(* The process.                                                            *)
(***************************************************************************)

\* A process implements the terminal UI on its own: dispatching leaves the UI in one of its initial
\* states, and a step of another part is no step of the UI (main.rs:1655-1724).
THEOREM ProcessIsTheUi == Spec => TuiSpec
<1>1. Dispatch => TuiInit
  BY DEF Dispatch, TuiRests
<1>2. [Next]_vars => [TuiNext]_uiVars
  BY DEF Next, vars
<1>3. QED BY <1>1, <1>2, PTL DEF Spec, TuiSpec

\* A process implements the stream of events on its own.
THEOREM ProcessIsTheStream == Spec => Safe
<1>1. Dispatch => SpotEventsInit
  BY DEF Dispatch
<1>2. [Next]_vars => [SpotEventsNext]_eventVars
  BY DEF Next, vars
<1>3. QED BY <1>1, <1>2, PTL DEF Spec, Safe

\* A process implements the plans of a run on their own.
THEOREM ProcessIsThePlans == Spec => PlanSpec
<1>1. Dispatch => PlanInit
  BY DEF Dispatch, PlanRests
<1>2. [Next]_vars => [PlanNext]_planVars
  BY DEF Next, vars
<1>3. QED BY <1>1, <1>2, PTL DEF Spec, PlanSpec

\* Every invariant that a process is checked for while its UI, its stream or its plans are at work.
THEOREM ProcessKeepsItsParts ==
  Spec => [](/\ SnapshotIsCurrent /\ FundingIsCurrent /\ OneSnapshotInFlight /\ GridOnScreen
             /\ MarketLoadNotLost /\ DetailForRowAsked
             /\ LossIsAnnounced /\ JournalFollowsVenue
             /\ SoundPlansAreAccepted /\ BudgetsKept /\ ReconcileIsExact)
<1>1. Spec => [](/\ SnapshotIsCurrent /\ FundingIsCurrent /\ OneSnapshotInFlight /\ GridOnScreen
                 /\ MarketLoadNotLost /\ DetailForRowAsked)
  BY ProcessIsTheUi, GridIsOfTheSettings, InstructionsAreOfTheSettings, OneSnapshotUnderWay, SelectionStaysOnGrid, LoadIsAnswered,
     DetailIsOfTheRow, PTL
<1>2. Spec => [](LossIsAnnounced /\ JournalFollowsVenue)
  <2>1. EventsInv => LossIsAnnounced
    BY DEF EventsInv
  <2>2. QED BY <2>1, ProcessIsTheStream, EventsInvariance, OrderInvariance, PTL
<1>3. Spec => [](SoundPlansAreAccepted /\ BudgetsKept /\ ReconcileIsExact)
  BY ProcessIsThePlans, AcceptanceOfSoundPlans, BudgetsAreKept, ComparisonIsExact, PTL
<1>4. QED BY <1>1, <1>2, <1>3, PTL

\* The subcommand of a process is one of those that are looked at, and the variables of its part have
\* their types.
THEOREM ProcessTypeCorrect == Spec => []TypeOK
<1> DEFINE Subcommand == part \in {"tui", "events", "plan"}
<1>1. Spec => []Subcommand
  <2>1. Dispatch => Subcommand
    BY GridBotAssumption DEF Dispatch, GridBotAssumption
  <2>2. Subcommand /\ [Next]_vars => Subcommand'
    BY DEF Next, vars
  <2>3. QED BY <2>1, <2>2, PTL DEF Spec
<1>2. Spec => []TuiTypeOK
  BY ProcessIsTheUi, UiTypeCorrect, PTL
<1>3. Spec => []EventsTypeOK
  <2>1. StreamInv => EventsTypeOK
    BY DEF StreamInv
  <2>2. QED BY <2>1, ProcessIsTheStream, StreamInvariance, PTL
<1>4. Spec => []PlanTypeOK
  BY ProcessIsThePlans, PlansTypeCorrect, PTL
<1>5. Subcommand /\ TuiTypeOK /\ EventsTypeOK /\ PlanTypeOK => TypeOK
  BY DEF TypeOK
<1>6. QED BY <1>1, <1>2, <1>3, <1>4, <1>5, PTL
=============================================================================
