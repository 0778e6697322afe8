------------------------- MODULE TopKTracker_proofs -------------------------
(***************************************************************************)
(* The counting error of the heavy-hitter tracker, and that it keeps the   *)
(* heavy hitters, for every item set, capacity and length of the stream.   *)
(***************************************************************************)
EXTENDS TopKTracker, FiniteSetTheorems, TLAPS

LEMMA InitTypeOK == Init => TypeOK
BY TopKAssumption, FS_EmptySet DEF Init, TypeOK

(* Adding an item to a map that is not full keeps it within the capacity. *)
LEMMA WithOneFits ==
  ASSUME NEW f, NEW x \in Item, x \notin DOMAIN f,
         DOMAIN f \subseteq Item, f \in [DOMAIN f -> Nat \ {0}],
         IsFiniteSet(DOMAIN f), Cardinality(DOMAIN f) < Capacity
  PROVE  LET g == WithOne(f, x) IN
         /\ DOMAIN g = DOMAIN f \cup {x} /\ DOMAIN g \subseteq Item
         /\ g \in [DOMAIN g -> Nat \ {0}]
         /\ IsFiniteSet(DOMAIN g) /\ Cardinality(DOMAIN g) =< Capacity
<1> DEFINE g == WithOne(f, x)
<1>1. DOMAIN g = DOMAIN f \cup {x}
  BY DEF WithOne
<1>2. g \in [DOMAIN g -> Nat \ {0}]
  BY <1>1 DEF WithOne
<1>3. /\ IsFiniteSet(DOMAIN f \cup {x})
      /\ Cardinality(DOMAIN f \cup {x}) = Cardinality(DOMAIN f) + 1
  BY FS_AddElement
<1>4. Cardinality(DOMAIN f) \in Nat
  BY FS_CardinalityType
<1> QED
  BY <1>1, <1>2, <1>3, <1>4, TopKAssumption

LEMMA DecrementedFits ==
  ASSUME TypeOK
  PROVE  /\ DOMAIN Decremented \subseteq DOMAIN counts
         /\ Decremented \in [DOMAIN Decremented -> Nat \ {0}]
         /\ IsFiniteSet(DOMAIN Decremented)
         /\ Cardinality(DOMAIN Decremented) =< Capacity
<1>1. DOMAIN Decremented = {z \in DOMAIN counts : counts[z] > 1}
  BY DEF Decremented
<1>2. DOMAIN Decremented \subseteq DOMAIN counts
  BY <1>1
<1>3. Decremented \in [DOMAIN Decremented -> Nat \ {0}]
  BY <1>1 DEF TypeOK, Decremented
<1>4. /\ IsFiniteSet(DOMAIN Decremented)
      /\ Cardinality(DOMAIN Decremented) =< Cardinality(DOMAIN counts)
  BY <1>2, FS_Subset DEF TypeOK
<1>5. /\ Cardinality(DOMAIN Decremented) \in Nat
      /\ Cardinality(DOMAIN counts) \in Nat
  BY <1>4, FS_CardinalityType DEF TypeOK
<1> QED
  BY <1>2, <1>3, <1>4, <1>5, TopKAssumption DEF TypeOK

LEMMA NextTypeOK == TypeOK /\ [Next]_vars => TypeOK'
<1> SUFFICES ASSUME TypeOK, [Next]_vars PROVE TypeOK'
  OBVIOUS
<1>1. CASE Reset
  BY <1>1, TopKAssumption, FS_EmptySet DEF Reset, TypeOK
<1>2. ASSUME NEW x \in Item, RecordTracked(x) PROVE TypeOK'
  BY <1>2 DEF RecordTracked, Seen, TypeOK
<1>3. ASSUME NEW x \in Item, RecordNew(x) PROVE TypeOK'
  <2>1. exact' \in [Item -> Nat] /\ total' \in Nat /\ rounds' \in Nat
    BY <1>3 DEF RecordNew, Seen, TypeOK
  <2> QED
    BY <1>3, <2>1, WithOneFits DEF RecordNew, TypeOK
<1>4. ASSUME NEW x \in Item, RecordAtCapacity(x) PROVE TypeOK'
  <2>1. exact' \in [Item -> Nat] /\ total' \in Nat /\ rounds' \in Nat
    BY <1>4 DEF RecordAtCapacity, Seen, TypeOK
  <2>2. x \notin DOMAIN Decremented /\ DOMAIN Decremented \subseteq Item
    BY <1>4, DecrementedFits DEF RecordAtCapacity, TypeOK
  <2>3. CASE Cardinality(DOMAIN Decremented) < Capacity
    <3>1. counts' = WithOne(Decremented, x)
      BY <1>4, <2>3 DEF RecordAtCapacity
    <3> QED
      BY <2>1, <2>2, <2>3, <3>1, DecrementedFits, WithOneFits DEF TypeOK
  <2>4. CASE ~(Cardinality(DOMAIN Decremented) < Capacity)
    <3>1. counts' = Decremented
      BY <1>4, <2>4 DEF RecordAtCapacity
    <3> QED
      BY <2>1, <2>2, <3>1, DecrementedFits DEF TypeOK
  <2> QED
    BY <2>3, <2>4
<1>5. CASE UNCHANGED vars
  BY <1>5 DEF vars, TypeOK
<1> QED
  BY <1>1, <1>2, <1>3, <1>4, <1>5 DEF Next

(* At every moment at most Capacity items are tracked, with positive       *)
(* counts: record never lets the map outgrow its capacity.                 *)
THEOREM TypeCorrect == Spec => []TypeOK
<1> QED
  BY InitTypeOK, NextTypeOK, PTL DEF Spec
----------------------------------------------------------------------------
LEMMA NextCountWithinRounds ==
  TypeOK /\ CountWithinRounds /\ [Next]_vars => CountWithinRounds'
<1> SUFFICES ASSUME TypeOK, CountWithinRounds, [Next]_vars,
                    NEW y \in Item
             PROVE  /\ CountOf(y)' =< exact'[y]
                    /\ exact'[y] - CountOf(y)' =< rounds'
  BY DEF CountWithinRounds
<1>0. /\ CountOf(y) =< exact[y] /\ exact[y] - CountOf(y) =< rounds
      /\ CountOf(y) \in Nat /\ exact[y] \in Nat /\ rounds \in Nat
  BY DEF CountWithinRounds, TypeOK, CountOf
<1>1. CASE Reset
  BY <1>1 DEF Reset, CountOf
<1>2. ASSUME NEW x \in Item, RecordTracked(x)
      PROVE  /\ CountOf(y)' =< exact'[y]
             /\ exact'[y] - CountOf(y)' =< rounds'
  <2>1. exact'[y] = IF y = x THEN exact[y] + 1 ELSE exact[y]
    BY <1>2 DEF RecordTracked, Seen, TypeOK
  <2>2. CountOf(y)' = IF y = x THEN CountOf(y) + 1 ELSE CountOf(y)
    BY <1>2 DEF RecordTracked, CountOf, TypeOK
  <2>3. rounds' = rounds
    BY <1>2 DEF RecordTracked
  <2> QED
    BY <1>0, <2>1, <2>2, <2>3
<1>3. ASSUME NEW x \in Item, RecordNew(x)
      PROVE  /\ CountOf(y)' =< exact'[y]
             /\ exact'[y] - CountOf(y)' =< rounds'
  <2>1. exact'[y] = IF y = x THEN exact[y] + 1 ELSE exact[y]
    BY <1>3 DEF RecordNew, Seen, TypeOK
  <2>2. CountOf(y)' = IF y = x THEN CountOf(y) + 1 ELSE CountOf(y)
    BY <1>3 DEF RecordNew, WithOne, CountOf, TypeOK
  <2>3. rounds' = rounds
    BY <1>3 DEF RecordNew
  <2> QED
    BY <1>0, <2>1, <2>2, <2>3
<1>4. ASSUME NEW x \in Item, RecordAtCapacity(x)
      PROVE  /\ CountOf(y)' =< exact'[y]
             /\ exact'[y] - CountOf(y)' =< rounds'
  <2>1. exact'[y] = IF y = x THEN exact[y] + 1 ELSE exact[y]
    BY <1>4 DEF RecordAtCapacity, Seen, TypeOK
  <2>2. rounds' = rounds + 1
    BY <1>4 DEF RecordAtCapacity
  <2>3. CASE y = x
    <3>1. CountOf(y) = 0 /\ CountOf(y)' \in {0, 1}
      BY <1>4, <2>3 DEF RecordAtCapacity, WithOne, Decremented, CountOf
    <3> QED
      BY <1>0, <2>1, <2>2, <2>3, <3>1
  <2>4. CASE y # x
    <3>1. CountOf(y)' = IF CountOf(y) > 0 THEN CountOf(y) - 1 ELSE 0
      <4>1. counts' \in {WithOne(Decremented, x), Decremented}
        BY <1>4 DEF RecordAtCapacity
      <4>2. (IF y \in DOMAIN Decremented THEN Decremented[y] ELSE 0)
              = IF CountOf(y) > 0 THEN CountOf(y) - 1 ELSE 0
        BY DEF Decremented, CountOf, TypeOK
      <4>3. CountOf(y)' = IF y \in DOMAIN Decremented THEN Decremented[y] ELSE 0
        BY <4>1, <2>4 DEF WithOne, CountOf
      <4> QED
        BY <4>2, <4>3
    <3> QED
      BY <1>0, <2>1, <2>2, <2>4, <3>1
  <2> QED
    BY <2>3, <2>4
<1>5. CASE UNCHANGED vars
  BY <1>0, <1>5 DEF vars, CountOf
<1> QED
  BY <1>1, <1>2, <1>3, <1>4, <1>5 DEF Next

(* No count is ever too high, and each is too low by at most the number of *)
(* times the full map was decremented: the error bound behind the claim    *)
(* that heavy hitters are retained.                                        *)
THEOREM CountsAccurate == Spec => []CountWithinRounds
<1>1. Init => CountWithinRounds
  BY DEF Init, CountWithinRounds, CountOf
<1> QED
  BY <1>1, TypeCorrect, NextCountWithinRounds, PTL DEF Spec
----------------------------------------------------------------------------
(* What the map still holds of the accesses: one token per unit of a count.*)
(* A round of decrements takes one from every tracked item, which are      *)
(* Capacity, so that rounds and tokens together are paid for by accesses.  *)
Tokens == UNION {{<<x, i>> : i \in 1..counts[x]} : x \in DOMAIN counts}
Paid == IsFiniteSet(Tokens) /\ Cardinality(Tokens) + rounds * Capacity =< total

LEMMA TokenIs ==
  \A p : p \in Tokens <=> \E x \in DOMAIN counts : \E i \in 1..counts[x] : p = <<x, i>>
BY DEF Tokens

LEMMA OneMoreRound ==
  ASSUME NEW r \in Nat, NEW c \in Nat
  PROVE  (r + 1) * c = r * c + c
OBVIOUS

LEMMA ProductsOrdered ==
  ASSUME NEW a \in Nat, NEW b \in Nat, NEW c \in Nat, a =< b
  PROVE  a * c =< b * c
OBVIOUS

(* The tokens a round of decrements takes: the topmost of every item.      *)
LEMMA RoundTakesOneEach ==
  ASSUME TypeOK, IsFiniteSet(Tokens)
  PROVE  LET tops == {<<y, counts[y]>> : y \in DOMAIN counts} IN
         /\ tops \subseteq Tokens /\ IsFiniteSet(tops)
         /\ Cardinality(tops) = Cardinality(DOMAIN counts)
         /\ IsFiniteSet(Tokens \ tops)
         /\ Cardinality(Tokens \ tops) = Cardinality(Tokens) - Cardinality(tops)
<1> DEFINE tops == {<<y, counts[y]>> : y \in DOMAIN counts}
           top == [y \in DOMAIN counts |-> <<y, counts[y]>>]
<1>1. tops \subseteq Tokens
  <2> SUFFICES ASSUME NEW y \in DOMAIN counts PROVE <<y, counts[y]>> \in Tokens
    OBVIOUS
  <2>1. counts[y] \in 1..counts[y]
    BY DEF TypeOK
  <2> QED
    BY <2>1, TokenIs
<1>2. top \in Bijection(DOMAIN counts, tops)
  BY DEF Bijection, Injection, Surjection, IsInjective
<1>3. IsFiniteSet(tops) /\ Cardinality(tops) = Cardinality(DOMAIN counts)
  BY <1>2, FS_Bijection DEF ExistsBijection, TypeOK
<1>4. IsFiniteSet(Tokens \ tops)
  BY FS_Subset
<1>5. Cardinality((Tokens \ tops) \cup tops)
        = Cardinality(Tokens \ tops) + Cardinality(tops)
            - Cardinality((Tokens \ tops) \cap tops)
  BY <1>3, <1>4, FS_Union
<1>6. (Tokens \ tops) \cup tops = Tokens /\ (Tokens \ tops) \cap tops = {}
  BY <1>1
<1>7. Cardinality(Tokens \ tops) \in Nat /\ Cardinality(tops) \in Nat
  BY <1>3, <1>4, FS_CardinalityType
<1>8. Cardinality(Tokens) = Cardinality(Tokens \ tops) + Cardinality(tops) - 0
  BY <1>5, <1>6, FS_EmptySet
<1>9. Cardinality(Tokens \ tops) = Cardinality(Tokens) - Cardinality(tops)
  BY <1>7, <1>8
<1> QED
  BY <1>1, <1>3, <1>4, <1>9

LEMMA PaidStep ==
  ASSUME TypeOK, Paid, [Next]_vars
  PROVE  Paid'
<1>1. /\ rounds \in Nat /\ total \in Nat /\ Capacity \in Nat
      /\ rounds * Capacity \in Nat
      /\ IsFiniteSet(Tokens) /\ Cardinality(Tokens) \in Nat
      /\ Cardinality(Tokens) + rounds * Capacity =< total
  BY TopKAssumption, FS_CardinalityType DEF Paid, TypeOK
<1>2. CASE Reset
  <2>1. Tokens' = {} /\ rounds' * Capacity = 0 /\ total' = 0
    BY <1>1, <1>2 DEF Reset, Tokens
  <2> QED
    BY <2>1, FS_EmptySet DEF Paid
<1>3. ASSUME NEW x \in Item, NEW i \in Nat, Tokens' = Tokens \cup {<<x, i>>},
             rounds' = rounds, total' = total + 1
      PROVE  Paid'
  <2>1. /\ IsFiniteSet(Tokens') /\ Cardinality(Tokens') \in Nat
        /\ Cardinality(Tokens') =< Cardinality(Tokens) + 1
    BY <1>1, <1>3, FS_AddElement, FS_CardinalityType
  <2> QED
    BY <1>1, <1>3, <2>1 DEF Paid
<1>4. ASSUME NEW x \in Item, RecordTracked(x) PROVE Paid'
  <2>1. /\ x \in DOMAIN counts /\ counts[x] \in Nat /\ DOMAIN counts' = DOMAIN counts
        /\ \A y \in DOMAIN counts : counts'[y] = IF y = x THEN counts[x] + 1 ELSE counts[y]
    BY <1>4 DEF RecordTracked, TypeOK
  <2>2. \A y \in DOMAIN counts : counts[y] \in Nat
    BY DEF TypeOK
  <2>3. Tokens' = Tokens \cup {<<x, counts[x] + 1>>}
    <3>1. ASSUME NEW p \in Tokens' PROVE p \in Tokens \cup {<<x, counts[x] + 1>>}
      <4>0. PICK y \in DOMAIN counts : \E i \in 1..counts'[y] : p = <<y, i>>
        BY <2>1 DEF Tokens
      <4>1. PICK i \in 1..counts'[y] : p = <<y, i>>
        BY <4>0
      <4>2. i \in 1..counts[y] \/ (y = x /\ i = counts[x] + 1)
        BY <2>1, <2>2, <4>1
      <4> QED
        BY <4>1, <4>2, TokenIs
    <3>2. ASSUME NEW p \in Tokens PROVE p \in Tokens'
      <4>0. PICK y \in DOMAIN counts : \E i \in 1..counts[y] : p = <<y, i>>
        BY TokenIs
      <4>1. PICK i \in 1..counts[y] : p = <<y, i>>
        BY <4>0
      <4>2. i \in 1..counts'[y]
        BY <2>1, <2>2, <4>1
      <4> QED
        BY <2>1, <4>1, <4>2 DEF Tokens
    <3>3. <<x, counts[x] + 1>> \in Tokens'
      <4>1. counts[x] + 1 \in 1..counts'[x]
        BY <2>1
      <4> QED
        BY <2>1, <4>1 DEF Tokens
    <3> QED
      BY <3>1, <3>2, <3>3
  <2> QED
    BY <1>3, <1>4, <2>1, <2>3 DEF RecordTracked, Seen
<1>5. ASSUME NEW x \in Item, RecordNew(x) PROVE Paid'
  <2>1. /\ DOMAIN counts' = DOMAIN counts \cup {x} /\ x \notin DOMAIN counts
        /\ \A y \in DOMAIN counts' : counts'[y] = IF y = x THEN 1 ELSE counts[y]
    BY <1>5 DEF RecordNew, WithOne
  <2>2. Tokens' = Tokens \cup {<<x, 1>>}
    BY <2>1 DEF Tokens
  <2> QED
    BY <1>3, <1>5, <2>2 DEF RecordNew, Seen
<1>6. ASSUME NEW x \in Item, RecordAtCapacity(x) PROVE Paid'
  <2> DEFINE tops == {<<y, counts[y]>> : y \in DOMAIN counts}
             left == Tokens \ tops
  <2>1. /\ IsFiniteSet(left) /\ Cardinality(left) \in Nat
        /\ Cardinality(left) + Capacity =< Cardinality(Tokens)
    <3>1. Cardinality(DOMAIN counts) \in Nat /\ Cardinality(DOMAIN counts) >= Capacity
      BY <1>6, FS_CardinalityType DEF RecordAtCapacity, TypeOK
    <3> QED
      BY <1>1, <3>1, RoundTakesOneEach, FS_CardinalityType
  <2>2. \A y \in DOMAIN counts : counts[y] \in Nat \ {0}
    BY DEF TypeOK
  <2>3. /\ DOMAIN Decremented = {y \in DOMAIN counts : counts[y] > 1}
        /\ \A y \in DOMAIN Decremented : Decremented[y] = counts[y] - 1
    BY DEF Decremented
  <2>4. \A y, i : <<y, i>> \in left <=> y \in DOMAIN Decremented /\ i \in 1..Decremented[y]
    <3> TAKE y, i
    <3>1. <<y, i>> \in Tokens <=> y \in DOMAIN counts /\ i \in 1..counts[y]
      BY TokenIs
    <3>2. <<y, i>> \in tops <=> y \in DOMAIN counts /\ i = counts[y]
      OBVIOUS
    <3> QED
      BY <2>2, <2>3, <3>1, <3>2
  <2>5. \A p \in left : \E y, i : p = <<y, i>>
    BY TokenIs
  <2> HIDE DEF left
  <2>6. Tokens' \subseteq left \cup {<<x, 1>>}
    <3> SUFFICES ASSUME NEW p \in Tokens' PROVE p \in left \cup {<<x, 1>>}
      OBVIOUS
    <3>1. PICK y \in DOMAIN counts' : \E i \in 1..counts'[y] : p = <<y, i>>
      BY DEF Tokens
    <3>2. PICK i \in 1..counts'[y] : p = <<y, i>>
      BY <3>1
    <3>3. counts' \in {WithOne(Decremented, x), Decremented}
      BY <1>6 DEF RecordAtCapacity
    <3>4. \/ y \in DOMAIN Decremented /\ counts'[y] = Decremented[y]
          \/ y = x /\ counts'[y] = 1
      BY <3>1, <3>3 DEF WithOne
    <3> QED
      BY <2>4, <3>2, <3>4
  <2>7. /\ IsFiniteSet(Tokens') /\ Cardinality(Tokens') \in Nat
        /\ Cardinality(Tokens') =< Cardinality(left) + 1
    <3>0. /\ IsFiniteSet(left \cup {<<x, 1>>})
          /\ Cardinality(left \cup {<<x, 1>>})
               = IF <<x, 1>> \in left THEN Cardinality(left) ELSE Cardinality(left) + 1
      BY <2>1, FS_AddElement
    <3>1. /\ Cardinality(left \cup {<<x, 1>>}) =< Cardinality(left) + 1
          /\ Cardinality(left \cup {<<x, 1>>}) \in Nat
      BY <2>1, <3>0
    <3>2. /\ IsFiniteSet(Tokens')
          /\ Cardinality(Tokens') =< Cardinality(left \cup {<<x, 1>>})
      BY <2>6, <3>0, FS_Subset
    <3>3. Cardinality(Tokens') \in Nat
      BY <3>2, FS_CardinalityType
    <3> QED
      BY <2>1, <3>1, <3>2, <3>3
  <2>8. rounds' = rounds + 1 /\ total' = total + 1
    BY <1>6 DEF RecordAtCapacity, Seen
  <2>9. rounds' * Capacity = rounds * Capacity + Capacity
    BY <1>1, <2>8, OneMoreRound
  <2> QED
    BY <1>1, <2>1, <2>7, <2>8, <2>9 DEF Paid
<1>7. CASE UNCHANGED vars
  BY <1>7 DEF vars, Paid, Tokens
<1> QED
  BY <1>2, <1>4, <1>5, <1>6, <1>7 DEF Next

(* An item that is not tracked was accessed at most once per round, and    *)
(* Capacity times the rounds is no more than all accesses: whatever item   *)
(* has a larger share of them is in the map, at every moment and for every *)
(* stream, which is what the tracker is for.                               *)
THEOREM HeavyHittersKept == Spec => []HeavyHittersTracked
<1>1. Init => Paid
  <2> SUFFICES ASSUME Init PROVE Paid
    OBVIOUS
  <2>1. Tokens = {} /\ rounds * Capacity = 0 /\ total = 0
    BY TopKAssumption DEF Init, Tokens
  <2> QED
    BY <2>1, FS_EmptySet DEF Paid
<1>2. Spec => []Paid
  BY <1>1, TypeCorrect, PaidStep, PTL DEF Spec
<1>3. TypeOK /\ CountWithinRounds /\ Paid => HeavyHittersTracked
  <2> SUFFICES ASSUME TypeOK, CountWithinRounds, Paid, NEW x \in Item,
                      exact[x] * Capacity > total, x \notin DOMAIN counts
               PROVE  FALSE
    BY DEF HeavyHittersTracked
  <2>1. /\ exact[x] \in Nat /\ rounds \in Nat /\ total \in Nat
        /\ Capacity \in Nat /\ exact[x] =< rounds
    BY TopKAssumption DEF TypeOK, CountWithinRounds, CountOf
  <2>2. exact[x] * Capacity =< rounds * Capacity
    BY <2>1, ProductsOrdered
  <2>3. Cardinality(Tokens) \in Nat /\ Cardinality(Tokens) + rounds * Capacity =< total
    BY FS_CardinalityType DEF Paid
  <2>4. exact[x] * Capacity \in Nat /\ rounds * Capacity \in Nat
    BY <2>1
  <2> QED
    BY <2>1, <2>2, <2>3, <2>4
<1> QED
  BY <1>2, <1>3, TypeCorrect, CountsAccurate, PTL
=============================================================================
