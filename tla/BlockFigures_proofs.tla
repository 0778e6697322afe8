------------------------- MODULE BlockFigures_proofs ------------------------
(***************************************************************************)
(* The contention figures published at the end of a block are those of the *)
(* block: counts, sums and truncated lists, for every feed, every loss and *)
(* every length of the lists.  What is accumulated is known from           *)
(* StretchAccumulated; here the stretch since the last BlockStart is shown *)
(* to be the block, and each figure to be the one asked for.  Sums are     *)
(* folds over sets, so a theory of such folds comes first; what is         *)
(* inductive in it is stated of sets of numbers and of subsets.            *)
(***************************************************************************)
EXTENDS EventPipeline_proofs, WellFoundedInduction

(* Every set of numbers that is closed under counting up has them all.     *)
LEMMA CountingUp ==
  ASSUME NEW T \in SUBSET Nat, 0 \in T, \A n \in T : n + 1 \in T
  PROVE  \A n \in Nat : n \in T
<1> SUFFICES ASSUME Nat \ T # {} PROVE FALSE
  OBVIOUS
<1>1. PICK n \in Nat \ T : \A m \in Nat \ T : <<m, n>> \notin OpToRel(<, Nat)
  BY WFMin, NatLessThanWellFounded
<1>2. n \in Nat /\ n # 0 /\ n - 1 \in Nat /\ n - 1 < n /\ (n - 1) + 1 = n
  OBVIOUS
<1>3. n - 1 \notin T
  BY <1>1, <1>2
<1>4. <<n - 1, n>> \in OpToRel(<, Nat)
  BY <1>2 DEF OpToRel
<1> QED
  BY <1>1, <1>2, <1>3, <1>4

(* The same for the subsets of a finite set, element by element.           *)
LEMMA SubsetsOneByOne ==
  ASSUME NEW S, IsFiniteSet(S), NEW G \in SUBSET (SUBSET S), {} \in G,
         \A T \in SUBSET S : (\E x \in T : T \ {x} \in G) => T \in G
  PROVE  \A T \in SUBSET S : T \in G
<1> DEFINE sizes == {n \in Nat : \A T \in SUBSET S : Cardinality(T) = n => T \in G}
<1>1. \A T \in SUBSET S : IsFiniteSet(T) /\ Cardinality(T) \in Nat
  BY FS_Subset, FS_CardinalityType
<1>2. 0 \in sizes
  <2>1. \A T \in SUBSET S : Cardinality(T) = 0 => T = {}
    BY <1>1, FS_EmptySet
  <2> QED
    BY <2>1
<1>3. ASSUME NEW n \in sizes PROVE n + 1 \in sizes
  <2>1. n \in Nat /\ n + 1 \in Nat /\ n + 1 # 0 /\ (n + 1) - 1 = n
    OBVIOUS
  <2>2. SUFFICES ASSUME NEW T \in SUBSET S, Cardinality(T) = n + 1 PROVE T \in G
    BY <2>1
  <2>3. T # {}
    BY <2>1, <2>2, FS_EmptySet
  <2>4. PICK x \in T : TRUE
    BY <2>3
  <2>5. Cardinality(T \ {x}) = n
    BY <1>1, <2>1, <2>2, FS_RemoveElement
  <2>6. T \ {x} \in G
    BY <2>5
  <2> QED
    BY <2>6
<1> HIDE DEF sizes
<1>4. sizes \subseteq Nat
  BY DEF sizes
<1>5. \A n \in Nat : n \in sizes
  BY <1>2, <1>3, <1>4, CountingUp
<1> QED
  BY <1>1, <1>5 DEF sizes

(* F sums g over every subset of S, taking elements as the library does.   *)
First(s) == CHOOSE x \in s : TRUE
Sums(F, g, S) ==
  F = [s \in SUBSET S |->
         IF s = {} THEN 0 ELSE g[First(s)] + F[s \ {First(s)}]]

LEMMA FirstIsMember == ASSUME NEW s, s # {} PROVE First(s) \in s
BY DEF First

(* Such a function exists over every finite set, and unfolds.              *)
LEMMA SumsExist ==
  ASSUME NEW S, IsFiniteSet(S), NEW g
  PROVE  \E F : Sums(F, g, S)
<1> DEFINE upTo(n) == {s \in SUBSET S : Cardinality(s) =< n}
           Good(F, n) == F = [s \in upTo(n) |->
                                IF s = {} THEN 0 ELSE g[First(s)] + F[s \ {First(s)}]]
           sizes == {n \in Nat : \E F : Good(F, n)}
<1>1. \A s \in SUBSET S : /\ IsFiniteSet(s) /\ Cardinality(s) \in Nat
                          /\ Cardinality(s) =< Cardinality(S)
  BY FS_Subset, FS_CardinalityType
<1>2. 0 \in sizes
  <2>1. upTo(0) = {{}}
    <3>1. \A s \in SUBSET S : Cardinality(s) =< 0 <=> s = {}
      BY <1>1, FS_EmptySet
    <3> QED
      BY <3>1
  <2> DEFINE Z == [s \in upTo(0) |-> 0]
  <2>2. Good(Z, 0)
    BY <2>1
  <2> QED
    BY <2>2
<1>3. ASSUME NEW n \in sizes PROVE n + 1 \in sizes
  <2>1. PICK F : Good(F, n)
    OBVIOUS
  <2> DEFINE H == [s \in upTo(n + 1) |->
                     IF s = {} THEN 0 ELSE g[First(s)] + F[s \ {First(s)}]]
  <2>2. n \in Nat /\ n + 1 \in Nat
    OBVIOUS
  <2>3. \A s \in upTo(n) : s \in upTo(n + 1) /\ H[s] = F[s]
    <3>1. \A s \in upTo(n) : s \in upTo(n + 1)
      BY <1>1, <2>2
    <3>2. \A s \in upTo(n) : F[s] = IF s = {} THEN 0 ELSE g[First(s)] + F[s \ {First(s)}]
      BY <2>1
    <3> QED
      BY <3>1, <3>2
  <2>4. ASSUME NEW s \in upTo(n + 1), s # {} PROVE s \ {First(s)} \in upTo(n)
    <3>1. First(s) \in s /\ s \in SUBSET S /\ Cardinality(s) =< n + 1
      BY <2>4, FirstIsMember
    <3>2. Cardinality(s \ {First(s)}) = Cardinality(s) - 1
      BY <1>1, <3>1, FS_RemoveElement
    <3>3. Cardinality(s) \in Nat
      BY <1>1, <3>1
    <3> QED
      BY <2>2, <3>1, <3>2, <3>3
  <2>5. \A s \in upTo(n + 1) : s # {} => H[s \ {First(s)}] = F[s \ {First(s)}]
    BY <2>3, <2>4
  <2>6. H = [s \in upTo(n + 1) |->
               IF s = {} THEN 0 ELSE g[First(s)] + H[s \ {First(s)}]]
    BY <2>5
  <2>7. Good(H, n + 1)
    BY <2>6
  <2> QED
    BY <2>2, <2>7
<1>4. \A n \in Nat : n \in sizes
  <2> HIDE DEF sizes
  <2>1. sizes \subseteq Nat
    BY DEF sizes
  <2> QED
    BY <1>2, <1>3, <2>1, CountingUp
<1>5. upTo(Cardinality(S)) = SUBSET S
  BY <1>1
<1>6. \E F : Good(F, Cardinality(S))
  BY <1>1, <1>4
<1> QED
  BY <1>5, <1>6 DEF Sums

LEMMA SumsUnfold ==
  ASSUME NEW S, NEW g, NEW F, Sums(F, g, S), NEW s \in SUBSET S
  PROVE  F[s] = IF s = {} THEN 0 ELSE g[First(s)] + F[s \ {First(s)}]
BY DEF Sums

(* Any element may be taken first.                                         *)
TakesAny(F, g, S) ==
  \A s \in SUBSET S : F[s] \in Nat /\ \A x \in s : F[s] = g[x] + F[s \ {x}]

LEMMA SumsTakeAny ==
  ASSUME NEW S, IsFiniteSet(S), NEW g \in [S -> Nat], NEW F, Sums(F, g, S)
  PROVE  TakesAny(F, g, S)
<1> DEFINE G == {s \in SUBSET S : /\ F[s] \in Nat
                                  /\ \A x \in s : F[s] = g[x] + F[s \ {x}]}
           sizes == {n \in Nat : \A s \in SUBSET S : Cardinality(s) =< n => s \in G}
<1>0. \A s \in SUBSET S : s \in G <=> /\ F[s] \in Nat
                                      /\ \A x \in s : F[s] = g[x] + F[s \ {x}]
  OBVIOUS
<1> HIDE DEF G
<1>1. \A s \in SUBSET S : IsFiniteSet(s) /\ Cardinality(s) \in Nat
  BY FS_Subset, FS_CardinalityType
<1>2. 0 \in sizes
  <2>1. \A s \in SUBSET S : Cardinality(s) =< 0 => s = {}
    BY <1>1, FS_EmptySet
  <2>2. F[{}] = 0
    BY SumsUnfold
  <2>3. {} \in G
    BY <1>0, <2>2
  <2> QED
    BY <2>1, <2>3
<1>3. ASSUME NEW n \in sizes PROVE n + 1 \in sizes
  <2>1. n \in Nat /\ n + 1 \in Nat /\ \A s \in SUBSET S : Cardinality(s) =< n => s \in G
    OBVIOUS
  <2> HIDE DEF sizes
  <2> SUFFICES ASSUME NEW s \in SUBSET S, Cardinality(s) =< n + 1, s # {}
               PROVE  s \in G
    <3>1. {} \in G
      BY <1>1, <1>2, FS_EmptySet DEF sizes
    <3> QED
      BY <2>1, <3>1 DEF sizes
  <2> DEFINE p == First(s)
  <2>2. p \in s
    BY FirstIsMember
  <2> HIDE DEF p
  <2>3. \A x \in s : s \ {x} \in G
    <3>1. ASSUME NEW x \in s PROVE Cardinality(s \ {x}) =< n
      <4>1. Cardinality(s \ {x}) = Cardinality(s) - 1
        BY <1>1, FS_RemoveElement
      <4> QED
        BY <1>1, <2>1, <4>1
    <3> QED
      BY <2>1, <3>1
  <2>4. F[s] = g[p] + F[s \ {p}]
    BY SumsUnfold DEF p
  <2>5. g[p] \in Nat /\ \A x \in s : g[x] \in Nat /\ F[s \ {x}] \in Nat
    BY <1>0, <2>2, <2>3
  <2>6. ASSUME NEW x \in s, x # p PROVE F[s] = g[x] + F[s \ {x}]
    <3>1. F[s \ {p}] = g[x] + F[(s \ {p}) \ {x}]
      BY <1>0, <2>2, <2>3, <2>6
    <3>2. F[s \ {x}] = g[p] + F[(s \ {x}) \ {p}]
      BY <1>0, <2>2, <2>3, <2>6
    <3>3. (s \ {p}) \ {x} = (s \ {x}) \ {p}
      OBVIOUS
    <3>4. F[(s \ {x}) \ {p}] \in Nat
      <4>1. Cardinality((s \ {x}) \ {p}) =< n /\ (s \ {x}) \ {p} \in SUBSET S
        <5>1. Cardinality(s \ {x}) = Cardinality(s) - 1
          BY <1>1, FS_RemoveElement
        <5>2. Cardinality((s \ {x}) \ {p}) = Cardinality(s \ {x}) - 1
          BY <1>1, <2>2, <2>6, FS_RemoveElement
        <5> QED
          BY <1>1, <2>1, <5>1, <5>2
      <4> QED
        BY <1>0, <2>1, <4>1
    <3>5. g[p] \in Nat /\ g[x] \in Nat
      BY <2>2
    <3> QED
      BY <2>4, <3>1, <3>2, <3>3, <3>4, <3>5
  <2>7. F[s] \in Nat
    BY <2>2, <2>4, <2>5
  <2> QED
    BY <1>0, <2>4, <2>6, <2>7
<1>4. \A n \in Nat : n \in sizes
  <2> HIDE DEF sizes
  <2>1. sizes \subseteq Nat
    BY DEF sizes
  <2> QED
    BY <1>2, <1>3, <2>1, CountingUp
<1> QED
  <2>1. \A s \in SUBSET S : s \in G
    BY <1>1, <1>4
  <2> QED
    BY <1>0, <2>1 DEF TakesAny

(* Two sums are equal if b matches the terms of one with the terms of the  *)
(* other that are not zero.                                                *)
LEMMA SumsMatch ==
  ASSUME NEW S, IsFiniteSet(S), NEW g \in [S -> Nat], NEW F, Sums(F, g, S),
         NEW R, IsFiniteSet(R), NEW h \in [R -> Nat], NEW H, Sums(H, h, R),
         NEW b \in [R -> S],
         \A p \in R : h[p] = g[b[p]],
         \A p, q \in R : b[p] = b[q] => p = q,
         \A x \in S : g[x] = 0 \/ \E p \in R : b[p] = x
  PROVE  F[S] = H[R]
<1> DEFINE over(s) == {p \in R : b[p] \in s}
           G == {s \in SUBSET S : F[s] = H[over(s)]}
<1>1. /\ \A s \in SUBSET S : over(s) \in SUBSET R
      /\ over({}) = {} /\ over(S) = R
      /\ \A s \in SUBSET S : \A x \in s, p \in R :
           b[p] = x => p \in over(s) /\ over(s) \ {p} = over(s \ {x})
      /\ \A s \in SUBSET S : \A x \in s :
           (\A p \in R : b[p] # x) => over(s) = over(s \ {x})
  OBVIOUS
<1> HIDE DEF over
<1>2. \A s \in SUBSET S : s \in G <=> F[s] = H[over(s)]
  OBVIOUS
<1> HIDE DEF G
<1>3. F[{}] = 0 /\ H[{}] = 0
  <2>1. F[{}] = IF {} = {} THEN 0 ELSE g[First({})] + F[{} \ {First({})}]
    BY SumsUnfold
  <2>2. H[{}] = IF {} = {} THEN 0 ELSE h[First({})] + H[{} \ {First({})}]
    BY SumsUnfold
  <2> QED
    BY <2>1, <2>2
<1>4. {} \in G
  BY <1>1, <1>2, <1>3
<1>5. TakesAny(F, g, S) /\ TakesAny(H, h, R)
  BY SumsTakeAny
<1>6. /\ \A s \in SUBSET S : F[s] \in Nat /\ \A x \in s : F[s] = g[x] + F[s \ {x}]
      /\ \A r \in SUBSET R : \A p \in r : H[r] = h[p] + H[r \ {p}]
  BY <1>5 DEF TakesAny
<1>7. ASSUME NEW s \in SUBSET S, NEW x \in s, s \ {x} \in G PROVE s \in G
  <2>1. F[s] = g[x] + F[s \ {x}] /\ F[s \ {x}] \in Nat /\ g[x] \in Nat
    BY <1>6
  <2>2. F[s \ {x}] = H[over(s \ {x})]
    BY <1>2, <1>7
  <2>3. CASE \E p \in R : b[p] = x
    <3>1. PICK p \in R : b[p] = x
      BY <2>3
    <3>2. over(s) \in SUBSET R /\ p \in over(s) /\ over(s) \ {p} = over(s \ {x})
      BY <1>1, <3>1
    <3>3. H[over(s)] = h[p] + H[over(s) \ {p}]
      BY <1>6, <3>2
    <3> QED
      BY <1>2, <2>1, <2>2, <3>1, <3>2, <3>3
  <2>4. CASE ~ \E p \in R : b[p] = x
    <3>1. over(s) = over(s \ {x}) /\ g[x] = 0
      BY <1>1, <2>4
    <3> QED
      BY <1>2, <2>1, <2>2, <3>1
  <2> QED
    BY <2>3, <2>4
<1>8. S \in G
  <2>1. G \subseteq SUBSET S
    BY DEF G
  <2>2. \A s \in SUBSET S : (\E x \in s : s \ {x} \in G) => s \in G
    BY <1>7
  <2> QED
    BY <1>4, <2>1, <2>2, SubsetsOneByOne
<1> QED
  BY <1>1, <1>2, <1>8
----------------------------------------------------------------------------
(* The stretch since the last BlockStart is the end of what was handled,   *)
(* and the transactions of both counters are the same if every header has  *)
(* an index.                                                               *)
StretchIsTail ==
  /\ \A s \in InStretch("BlockStart") : since = {m \in handled : m >= s}
  /\ \A s \in handled : feed[s].kind = "BlockStart" =>
       \E t \in InStretch("BlockStart") : s =< t
BothCountersAgree == txnCount = currentTxs

LEMMA TailHandled ==
  ASSUME PInv, InBlocks(feed), StretchIsTail, BothCountersAgree, Forward, Handle
  PROVE  StretchIsTail' /\ BothCountersAgree'
<1> DEFINE n == Head(queue)
           e == feed[n]
<1>1. /\ n \in Positions /\ n \notin handled /\ \A m \in handled : m < n
      /\ feed' = feed /\ handled' = handled \cup {n} /\ e \in Event
  BY NewEvent DEF PInv
<1>2. n \in Nat /\ handled \subseteq Nat /\ since \subseteq handled /\ n \in DOMAIN feed
  BY <1>1, FeedFacts DEF PInv, Counters
<1>3. CASE HandleBlockStart(n, e)
  <2>1. since' = {n} /\ e.kind = "BlockStart" /\ txnCount' = 0 /\ currentTxs' = 0
    BY <1>3 DEF HandleBlockStart, OnBlockStart, MoveWindow
  <2>2. InStretch("BlockStart")' = {n}
    BY <1>1, <2>1 DEF InStretch
  <2>3. since' = {m \in handled' : m >= n}
    <3>1. n >= n /\ \A m \in handled : ~(m >= n)
      BY <1>1, <1>2
    <3> QED
      BY <1>1, <2>1, <3>1
  <2>4. \A s \in handled' : s =< n
    BY <1>1, <1>2
  <2> QED
    BY <2>1, <2>2, <2>3, <2>4 DEF StretchIsTail, BothCountersAgree
<1>4. ASSUME e.kind # "BlockStart", since' = since \cup {n} PROVE StretchIsTail'
  <2>1. InStretch("BlockStart")' = InStretch("BlockStart")
    BY <1>1, <1>4 DEF InStretch
  <2>2. \A s \in InStretch("BlockStart") : s \in handled /\ s =< n
    BY <1>1, <1>2 DEF InStretch
  <2>3. \A s \in InStretch("BlockStart") : since' = {m \in handled' : m >= s}
    BY <1>1, <1>2, <1>4, <2>2 DEF StretchIsTail
  <2>4. \A s \in handled' : feed'[s].kind = "BlockStart" =>
          \E t \in InStretch("BlockStart") : s =< t
    BY <1>1, <1>4 DEF StretchIsTail
  <2> QED
    BY <2>1, <2>3, <2>4 DEF StretchIsTail
<1>5. CASE HandleTxnHeaderStart(n, e)
  <2>1. e.txn # None /\ e.kind = "TxnHeaderStart"
    BY <1>2, <1>5 DEF InBlocks, HandleTxnHeaderStart
  <2>2. txnCount' = txnCount + 1 /\ currentTxs' = currentTxs + 1 /\ since' = since \cup {n}
    BY <1>5, <2>1 DEF HandleTxnHeaderStart, OnTxnStart, RecordTx
  <2> QED
    BY <1>4, <2>1, <2>2 DEF BothCountersAgree
<1>6. CASE HandleTxnEnd(n, e)
  BY <1>4, <1>6 DEF HandleTxnEnd, OnTxnEnd, tpsVars, contentionVars, BothCountersAgree
<1>7. CASE HandleStorageAccess(n, e)
  BY <1>4, <1>7 DEF HandleStorageAccess, OnStorageAccess, tpsVars, BothCountersAgree
<1>8. CASE HandleBlockEnd(n, e) \/ HandleOther(n, e)
  BY <1>4, <1>8 DEF HandleBlockEnd, HandleOther, figureVars, tpsVars, contentionVars,
                    BothCountersAgree
<1> QED
  BY <1>3, <1>5, <1>6, <1>7, <1>8 DEF Handle

(* When the end of a block whose start was handled comes, the stretch is   *)
(* that block's.                                                           *)
LEMMA StretchIsBlock ==
  ASSUME PInv, InBlocks(feed), StretchIsTail,
         NEW n \in Positions, \A m \in handled : m < n,
         NEW s \in handled, feed[s].kind = "BlockStart",
         feed[s].block = feed[n].block
  PROVE  /\ since = OfBlock(feed[n].block)
         /\ current = Some(feed[n].block)
<1>1. /\ handled \subseteq DOMAIN feed /\ n \in DOMAIN feed
      /\ n \in Nat /\ handled \subseteq Nat /\ since \subseteq handled
  BY FeedFacts DEF PInv, Counters
<1>2. \A l, m \in DOMAIN feed : feed[l].block = feed[m].block =>
        /\ feed[l].kind = "BlockStart" => l =< m
        /\ \A k \in l..m : feed[k].block = feed[l].block
  BY DEF InBlocks
<1>3. PICK t \in InStretch("BlockStart") : s =< t
  BY DEF StretchIsTail
<1>4. t \in handled /\ feed[t].kind = "BlockStart" /\ since = {m \in handled : m >= t}
  BY <1>1, <1>3 DEF InStretch, StretchIsTail
<1>5. \A m \in handled : m >= s => feed[m].block = feed[n].block
  <2> SUFFICES ASSUME NEW m \in handled, m >= s PROVE feed[m].block = feed[n].block
    OBVIOUS
  <2>1. m \in s..n
    BY <1>1
  <2> QED
    BY <1>1, <1>2, <2>1
<1>6. t =< s
  BY <1>1, <1>2, <1>3, <1>4, <1>5
<1>7. t = s
  BY <1>1, <1>3, <1>4, <1>6
<1>8. \A m \in handled : m >= s <=> feed[m].block = feed[n].block
  BY <1>1, <1>2, <1>5
<1>9. since = OfBlock(feed[n].block)
  BY <1>4, <1>7, <1>8 DEF OfBlock
<1>10. current = Some(feed[t].block)
  BY <1>3 DEF PInv, StretchAccumulated
<1> QED
  BY <1>7, <1>9, <1>10
----------------------------------------------------------------------------
(* The figures of the stretch are those of the block b that it is.         *)
LEMMA StretchIsFinite ==
  ASSUME PInv, NEW b, since = OfBlock(b)
  PROVE  /\ IsFiniteSet(OfBlock(b)) /\ OfBlock(b) \subseteq Nat
         /\ \A m \in OfBlock(b) : m \in DOMAIN feed /\ feed[m] \in Event
<1>1. OfBlock(b) \in SUBSET Positions
  BY DEF OfBlock, PInv, Counters
<1>2. IsFiniteSet(OfBlock(b))
  BY <1>1, CountedHeaders DEF PInv
<1> QED
  BY <1>1, <1>2, FeedFacts DEF PInv

LEMMA SlotsOfStretch ==
  ASSUME PInv, NEW b, since = OfBlock(b)
  PROVE  /\ TouchedSlots = SlotsOf(b) /\ SlotsOf(b) \subseteq Slots
         /\ \A s, i : <<s, i>> \in slotTxns <=> i \in TxnsAt(b, s)
<1>1. slotTxns = UNION {{<<feed[m].slot, i>> : i \in feed[m].txn} :
                          m \in InStretch("StorageAccess")}
  BY DEF PInv, StretchAccumulated
<1>2. \A s, i : <<s, i>> \in slotTxns <=> i \in TxnsAt(b, s)
  BY <1>1 DEF TxnsAt, AccessesTo, InStretch
<1>3. \A p \in slotTxns : \E m \in InStretch("StorageAccess") :
        p[1] = feed[m].slot /\ feed[m].txn # {}
  BY <1>1
<1>4. \A m \in InStretch("StorageAccess") : feed[m].txn # {} =>
        \E p \in slotTxns : p[1] = feed[m].slot
  <2> SUFFICES ASSUME NEW m \in InStretch("StorageAccess"), NEW i \in feed[m].txn
               PROVE  \E p \in slotTxns : p[1] = feed[m].slot
    OBVIOUS
  <2>1. <<feed[m].slot, i>> \in slotTxns
    BY <1>1
  <2> QED
    BY <2>1
<1>5. TouchedSlots = SlotsOf(b)
  BY <1>3, <1>4 DEF TouchedSlots, SlotsOf, InStretch, None
<1>6. SlotsOf(b) \subseteq Slots
  BY StretchIsFinite DEF SlotsOf, Event
<1> QED
  BY <1>2, <1>5, <1>6

LEMMA TxnsAreFinite ==
  ASSUME PInv, NEW b, since = OfBlock(b), NEW A \in SUBSET OfBlock(b)
  PROVE  IsFiniteSet(UNION {feed[m].txn : m \in A})
<1> DEFINE N == {feed[m].txn : m \in A}
           g == [m \in A |-> feed[m].txn]
<1>1. IsFiniteSet(A)
  BY StretchIsFinite, FS_Subset
<1>2. g \in Surjection(A, N)
  BY DEF Surjection
<1>3. IsFiniteSet(N)
  BY <1>1, <1>2, FS_Surjection
<1>4. \A t \in N : IsFiniteSet(t)
  <2> SUFFICES ASSUME NEW m \in A PROVE IsFiniteSet(feed[m].txn)
    OBVIOUS
  <2>1. \A i, j \in feed[m].txn : i = j
    BY StretchIsFinite DEF Event
  <2>2. feed[m].txn = {} \/ \E i : feed[m].txn = {i}
    BY <2>1
  <2> QED
    BY <2>2, FS_EmptySet, FS_Singleton
<1> QED
  BY <1>3, <1>4, FS_UNION

LEMMA SlotsAreFinite ==
  ASSUME PInv, NEW b, since = OfBlock(b)
  PROVE  /\ IsFiniteSet(SlotsOf(b)) /\ IsFiniteSet(Shared(b))
         /\ \A s : IsFiniteSet(TxnsAt(b, s)) /\ Cardinality(TxnsAt(b, s)) \in Nat
<1> DEFINE D == {k \in OfBlock(b) : feed[k].kind = "StorageAccess" /\ feed[k].txn # None}
           f == [m \in D |-> feed[m].slot]
<1>1. IsFiniteSet(D)
  <2>1. D \subseteq OfBlock(b)
    OBVIOUS
  <2> QED
    BY <2>1, StretchIsFinite, FS_Subset
<1>2. f \in Surjection(D, SlotsOf(b))
  BY DEF Surjection, SlotsOf
<1>3. IsFiniteSet(SlotsOf(b))
  BY <1>1, <1>2, FS_Surjection
<1>4. IsFiniteSet(Shared(b))
  <2>1. Shared(b) \subseteq SlotsOf(b)
    BY DEF Shared
  <2> QED
    BY <1>3, <2>1, FS_Subset
<1>5. ASSUME NEW s PROVE IsFiniteSet(TxnsAt(b, s)) /\ Cardinality(TxnsAt(b, s)) \in Nat
  <2>1. AccessesTo(b, s) \in SUBSET OfBlock(b)
    BY DEF AccessesTo
  <2>2. IsFiniteSet(TxnsAt(b, s))
    BY <2>1, TxnsAreFinite DEF TxnsAt
  <2> QED
    BY <2>2, FS_CardinalityType
<1> QED
  BY <1>3, <1>4, <1>5

LEMMA TxnsOfSlot ==
  ASSUME PInv, NEW b, since = OfBlock(b), NEW s
  PROVE  TxnsOn(s) = Cardinality(TxnsAt(b, s))
<1> DEFINE P == {p \in slotTxns : p[1] = s}
           f == [i \in TxnsAt(b, s) |-> <<s, i>>]
<1>1. \A i : <<s, i>> \in slotTxns <=> i \in TxnsAt(b, s)
  BY SlotsOfStretch
<1>2. \A p \in slotTxns : p = <<p[1], p[2]>>
  BY DEF PInv, StretchAccumulated
<1>3. f \in Bijection(TxnsAt(b, s), P)
  <2>1. f \in Injection(TxnsAt(b, s), P)
    BY <1>1 DEF Injection, IsInjective
  <2>2. \A p \in P : \E i \in TxnsAt(b, s) : f[i] = p
    BY <1>1, <1>2
  <2> QED
    BY <2>1, <2>2 DEF Bijection, Surjection, Injection
<1>4. Cardinality(P) = Cardinality(TxnsAt(b, s))
  BY <1>3, SlotsAreFinite, FS_Bijection DEF ExistsBijection
<1> QED
  BY <1>4 DEF TxnsOn

LEMMA ContendedOfStretch ==
  ASSUME PInv, NEW b, since = OfBlock(b)
  PROVE  Contended = Shared(b)
<1>1. \A s : TxnsOn(s) >= 2 <=> Cardinality(TxnsAt(b, s)) > 1
  BY TxnsOfSlot, SlotsAreFinite
<1> QED
  BY <1>1, SlotsOfStretch DEF Contended, Shared

LEMMA MinOfTwo ==
  ASSUME NEW a \in Int, NEW b \in Int
  PROVE  Min({a, b}) \in {a, b} /\ Min({a, b}) =< a /\ Min({a, b}) =< b
<1>1. \E x \in {a, b} : \A y \in {a, b} : x =< y
  <2>1. CASE a >= b
    BY <2>1
  <2>2. CASE b >= a
    BY <2>2
  <2> QED
    BY <2>1, <2>2
<1> QED
  BY <1>1 DEF Min

LEMMA TopSlotsOfStretch ==
  ASSUME PInv, NEW b, since = OfBlock(b),
         NEW top \in TopByTxns({SlotEntry(s) : s \in Contended}, TopSlots)
  PROVE  TopSlotsOf(b, top)
<1> DEFINE E == {SlotEntry(s) : s \in Shared(b)}
           f == [s \in Shared(b) |-> SlotEntry(s)]
<1>1. top \in TopByTxns(E, TopSlots)
  BY ContendedOfStretch
<1>2. f \in Bijection(Shared(b), E)
  <2>1. \A s, r \in Shared(b) : SlotEntry(s) = SlotEntry(r) => s = r
    BY DEF SlotEntry
  <2> QED
    BY <2>1 DEF Bijection, Injection, IsInjective, Surjection
<1>3. Cardinality(E) = Cardinality(Shared(b))
  BY <1>2, SlotsAreFinite, FS_Bijection DEF ExistsBijection
<1>4. /\ top \subseteq E /\ Cardinality(top) = Min({TopSlots, Cardinality(E)})
      /\ \A x \in top, y \in E \ top : x.txns >= y.txns
  BY <1>1 DEF TopByTxns, Cuts, kSubset
<1>5. ASSUME NEW x \in top
      PROVE  /\ x.slot \in Shared(b)
             /\ x.txns = Cardinality(TxnsAt(b, x.slot))
             /\ x.accesses = Cardinality(AccessesTo(b, x.slot))
             /\ \A s \in Shared(b) : Cardinality(TxnsAt(b, s)) > x.txns =>
                  \E y \in top : y.slot = s
  <2>1. PICK r \in Shared(b) : x = SlotEntry(r)
    BY <1>4
  <2>2. x.slot = r /\ x.txns = TxnsOn(r) /\ x.accesses = CountOf(slotAccesses, r)
    BY <2>1 DEF SlotEntry
  <2>3. r \in Slots
    BY SlotsOfStretch DEF Shared
  <2>4. x.accesses = Cardinality(Accesses(r))
    BY <2>2, <2>3 DEF PInv, StretchAccumulated
  <2>5. Accesses(r) = AccessesTo(b, r)
    BY DEF Accesses, InStretch, AccessesTo
  <2>6. ASSUME NEW s \in Shared(b), Cardinality(TxnsAt(b, s)) > x.txns
        PROVE  \E y \in top : y.slot = s
    <3>1. SlotEntry(s) \in E /\ SlotEntry(s).slot = s
          /\ SlotEntry(s).txns = Cardinality(TxnsAt(b, s))
      BY TxnsOfSlot DEF SlotEntry
    <3>2. /\ Cardinality(TxnsAt(b, s)) \in Nat /\ x.txns = Cardinality(TxnsAt(b, r))
          /\ Cardinality(TxnsAt(b, r)) \in Nat
      BY <2>2, TxnsOfSlot, SlotsAreFinite
    <3>3. SlotEntry(s) \in top
      BY <1>4, <2>6, <3>1, <3>2
    <3> QED
      BY <3>1, <3>3
  <2> QED
    BY <2>1, <2>2, <2>4, <2>5, <2>6, TxnsOfSlot
<1> QED
  BY <1>3, <1>4, <1>5 DEF TopSlotsOf

(* The edges: the transactions of the block that touched both contracts.   *)
EdgesOf(b, edges) ==
  \A x \in edges : x.pair # {} /\ x.txns = Cardinality(TxnsOnBoth(b, x.pair))

LEMMA EdgesOfStretch ==
  ASSUME PInv, NEW b, since = OfBlock(b), NEW edges \in TopByTxns(Edges, TopEdges)
  PROVE  EdgesOf(b, edges)
<1>1. edges \subseteq Edges
  BY DEF TopByTxns, Cuts, kSubset
<1> SUFFICES ASSUME NEW x \in edges
             PROVE  x.pair # {} /\ x.txns = Cardinality(TxnsOnBoth(b, x.pair))
  BY DEF EdgesOf
<1>2. PICK e \in kSubset(2, {p[2] : p \in txnContracts}) :
        x = [pair |-> e, txns |-> Cardinality(Together(e))]
  BY <1>1 DEF Edges
<1>3. e # {}
  <2>1. Cardinality(e) = 2
    BY DEF kSubset
  <2> QED
    BY <2>1, FS_EmptySet
<1> DEFINE T == TxnsOnBoth(b, e)
           g == [i \in Together(e) |-> <<b, i>>]
<1>4. txnContracts = UNION {{<<i, feed[m].slot.address>> : i \in feed[m].txn} :
                              m \in InStretch("StorageAccess")}
  BY DEF PInv, StretchAccumulated
<1>5. \A i, a : <<i, a>> \in txnContracts
         <=> \E m \in InStretch("StorageAccess") : i \in feed[m].txn /\ feed[m].slot.address = a
  BY <1>4
<1>6. \A i, a : <<i, a>> \in txnContracts
         <=> \E s \in SlotsOf(b) : s.address = a /\ i \in TxnsAt(b, s)
  <2>1. \A i, s : i \in TxnsAt(b, s) <=>
          \E m \in InStretch("StorageAccess") : i \in feed[m].txn /\ feed[m].slot = s
    BY DEF InStretch, TxnsAt, AccessesTo
  <2>2. \A m \in InStretch("StorageAccess") : feed[m].txn # {} => feed[m].slot \in SlotsOf(b)
    BY DEF InStretch, SlotsOf, None
  <2>3. ASSUME NEW i, NEW a, NEW m \in InStretch("StorageAccess"),
               i \in feed[m].txn, feed[m].slot.address = a
        PROVE  \E s \in SlotsOf(b) : s.address = a /\ i \in TxnsAt(b, s)
    BY <2>1, <2>2, <2>3
  <2>4. ASSUME NEW i, NEW a, NEW s \in SlotsOf(b), s.address = a, i \in TxnsAt(b, s)
        PROVE  \E m \in InStretch("StorageAccess") :
                 i \in feed[m].txn /\ feed[m].slot.address = a
    BY <2>1, <2>4
  <2>5. ASSUME NEW i, NEW a, <<i, a>> \in txnContracts
        PROVE  \E s \in SlotsOf(b) : s.address = a /\ i \in TxnsAt(b, s)
    <3>1. PICK m \in InStretch("StorageAccess") :
            i \in feed[m].txn /\ feed[m].slot.address = a
      BY <1>5, <2>5
    <3> QED
      BY <2>3, <3>1
  <2>6. ASSUME NEW i, NEW a, \E s \in SlotsOf(b) : s.address = a /\ i \in TxnsAt(b, s)
        PROVE  <<i, a>> \in txnContracts
    <3>1. PICK s \in SlotsOf(b) : s.address = a /\ i \in TxnsAt(b, s)
      BY <2>6
    <3>2. \E m \in InStretch("StorageAccess") : i \in feed[m].txn /\ feed[m].slot.address = a
      BY <2>4, <3>1
    <3> QED
      BY <1>5, <3>2
  <2> QED
    BY <2>5, <2>6
<1>7. \A i : i \in Together(e) <=> \A a \in e : <<i, a>> \in txnContracts
  <2>1. \A q \in txnContracts : q = <<q[1], q[2]>>
    BY <1>4
  <2>2. ASSUME NEW i, \A a \in e : <<i, a>> \in txnContracts PROVE i \in Together(e)
    <3>1. PICK a \in e : TRUE
      BY <1>3
    <3>2. <<i, a>> \in txnContracts /\ <<i, a>>[1] = i
      BY <2>2
    <3> QED
      BY <2>2, <3>2 DEF Together
  <2> QED
    BY <2>2 DEF Together
<1>8. ASSUME NEW i \in Together(e)
      PROVE  i \in UNION {feed[m].txn : m \in OfBlock(b)}
  <2>1. PICK a \in e : <<i, a>> \in txnContracts
    BY <1>3, <1>7
  <2> QED
    BY <1>5, <2>1 DEF InStretch
<1>9. T = {<<b, i>> : i \in Together(e)}
  <2>1. T = {<<b, i>> : i \in {j \in UNION {feed[m].txn : m \in OfBlock(b)} :
               \A a \in e : \E s \in SlotsOf(b) : s.address = a /\ j \in TxnsAt(b, s)}}
    BY DEF TxnsOnBoth, TxnOf
  <2>2. {j \in UNION {feed[m].txn : m \in OfBlock(b)} :
           \A a \in e : \E s \in SlotsOf(b) : s.address = a /\ j \in TxnsAt(b, s)}
          = Together(e)
    BY <1>6, <1>7, <1>8
  <2> QED
    BY <2>1, <2>2
<1>10. g \in Bijection(Together(e), T)
  BY <1>9 DEF Bijection, Injection, IsInjective, Surjection
<1>11. IsFiniteSet(Together(e))
  <2>1. PICK a \in e : TRUE
    BY <1>3
  <2> DEFINE C == UNION {TxnsAt(b, s) : s \in SlotsOf(b)}
             h == [s \in SlotsOf(b) |-> TxnsAt(b, s)]
  <2>2. h \in Surjection(SlotsOf(b), {TxnsAt(b, s) : s \in SlotsOf(b)})
    BY DEF Surjection
  <2>3. IsFiniteSet(C)
    <3>1. IsFiniteSet({TxnsAt(b, s) : s \in SlotsOf(b)})
      BY <2>2, SlotsAreFinite, FS_Surjection
    <3> QED
      BY <3>1, SlotsAreFinite, FS_UNION
  <2>4. Together(e) \subseteq C
    <3> SUFFICES ASSUME NEW i \in Together(e) PROVE i \in C
      OBVIOUS
    <3>1. PICK s \in SlotsOf(b) : i \in TxnsAt(b, s)
      BY <1>6, <1>7, <2>1
    <3> QED
      BY <3>1
  <2> QED
    BY <2>3, <2>4, FS_Subset
<1>12. Cardinality(T) = Cardinality(Together(e))
  BY <1>10, <1>11, FS_Bijection DEF ExistsBijection
<1> QED
  BY <1>2, <1>3, <1>12

(* The time of the transactions: the folds are sums, and those of the two  *)
(* sides have the same terms.                                              *)
LEMMA TotalIsSum ==
  ASSUME NEW S, S = DOMAIN txStart \cap DOMAIN txEnd, IsFiniteSet(S),
         NEW g, g = [i \in S |-> SaturatingSub(txEnd[i], txStart[i])]
  PROVE  \E F : Sums(F, g, S) /\ TotalTxTime = F[S]
<1> DEFINE Adds(F) ==
             F = [s \in SUBSET S |->
                    IF s = {} THEN 0
                    ELSE SaturatingSub(txEnd[First(s)], txStart[First(s)])
                           + F[s \ {First(s)}]]
           T == CHOOSE F : Adds(F)
<1>1. TotalTxTime = T[S]
  BY DEF TotalTxTime, MapThenSumSet, MapThenFoldSet, First
<1>2. ASSUME NEW F PROVE Sums(F, g, S) <=> Adds(F)
  <2>1. \A s \in SUBSET S : s # {} =>
          g[First(s)] = SaturatingSub(txEnd[First(s)], txStart[First(s)])
    BY FirstIsMember
  <2>2. [s \in SUBSET S |-> IF s = {} THEN 0 ELSE g[First(s)] + F[s \ {First(s)}]]
        = [s \in SUBSET S |->
             IF s = {} THEN 0
             ELSE SaturatingSub(txEnd[First(s)], txStart[First(s)]) + F[s \ {First(s)}]]
    BY <2>1
  <2> QED
    BY <2>2 DEF Sums
<1>3. PICK F : Adds(F)
  BY <1>2, SumsExist
<1>4. Adds(T)
  BY <1>3
<1> QED
  BY <1>1, <1>2, <1>4

LEMMA SpanIsSum ==
  ASSUME NEW f, NEW R, IsFiniteSet(R),
         NEW h, h = [p \in R |-> f[p[2]].time - f[p[1]].time]
  PROVE  \E H : Sums(H, h, R) /\ SpanSum(f, R) = H[R]
<1> DEFINE Adds(F) ==
             F = [s \in SUBSET R |->
                    IF s = {} THEN 0
                    ELSE (f[First(s)[2]].time - f[First(s)[1]].time)
                           + F[s \ {First(s)}]]
           T == CHOOSE F : Adds(F)
<1>1. SpanSum(f, R) = T[R]
  BY DEF SpanSum, MapThenSumSet, MapThenFoldSet, First
<1>2. ASSUME NEW F PROVE Sums(F, h, R) <=> Adds(F)
  <2>1. \A s \in SUBSET R : s # {} =>
          h[First(s)] = f[First(s)[2]].time - f[First(s)[1]].time
    BY FirstIsMember
  <2>2. [s \in SUBSET R |-> IF s = {} THEN 0 ELSE h[First(s)] + F[s \ {First(s)}]]
        = [s \in SUBSET R |->
             IF s = {} THEN 0
             ELSE (f[First(s)[2]].time - f[First(s)[1]].time) + F[s \ {First(s)}]]
    BY <2>1
  <2> QED
    BY <2>2 DEF Sums
<1>3. PICK F : Adds(F)
  BY <1>2, SumsExist
<1>4. Adds(T)
  BY <1>3
<1> QED
  BY <1>1, <1>2, <1>4

LEMMA OneHeaderOneEnd ==
  ASSUME PInv, InBlocks(feed), NEW b, since = OfBlock(b),
         NEW m \in since, NEW n \in since, feed[m].kind = feed[n].kind,
         feed[m].kind \in {"TxnHeaderStart", "TxnEnd"}, feed[m].txn = feed[n].txn
  PROVE  m = n
<1>1. m \in DOMAIN feed /\ n \in DOMAIN feed
  BY StretchIsFinite
<1>2. feed[m].block = feed[n].block
  BY DEF OfBlock
<1> QED
  BY <1>1, <1>2 DEF InBlocks

(* The times kept of a transaction are those of its header and of its end. *)
LEMMA TimesAreOfEvents ==
  ASSUME PInv, InBlocks(feed), NEW b, since = OfBlock(b)
  PROVE  /\ \A i \in DOMAIN txStart : \E m \in since :
              /\ feed[m].kind = "TxnHeaderStart" /\ feed[m].txn = {i}
              /\ txStart[i] = feed[m].time
         /\ \A i \in DOMAIN txEnd : \E m \in since :
              /\ feed[m].kind = "TxnEnd" /\ feed[m].txn = {i}
              /\ txEnd[i] = feed[m].time
         /\ \A m \in since : \A i : feed[m].kind = "TxnHeaderStart" /\ feed[m].txn = {i} =>
              i \in DOMAIN txStart /\ txStart[i] = feed[m].time
         /\ \A m \in since : \A i : feed[m].kind = "TxnEnd" /\ feed[m].txn = {i} =>
              i \in DOMAIN txEnd /\ txEnd[i] = feed[m].time
<1>1. LastTimes(txStart, "TxnHeaderStart") /\ LastTimes(txEnd, "TxnEnd")
  BY DEF PInv, StretchAccumulated
<1>2. \A m \in since : \A i, j \in feed[m].txn : i = j
  BY StretchIsFinite DEF Event
<1>3. \A m \in since : \A i \in feed[m].txn : feed[m].txn = {i}
  BY <1>2
<1>4. \A i \in DOMAIN txStart : \E m \in since :
        /\ feed[m].kind = "TxnHeaderStart" /\ feed[m].txn = {i}
        /\ txStart[i] = feed[m].time
  BY <1>1, <1>3 DEF LastTimes, InStretch
<1>5. \A i \in DOMAIN txEnd : \E m \in since :
        /\ feed[m].kind = "TxnEnd" /\ feed[m].txn = {i}
        /\ txEnd[i] = feed[m].time
  BY <1>1, <1>3 DEF LastTimes, InStretch
<1>6. ASSUME NEW m \in since, NEW i, feed[m].kind = "TxnHeaderStart", feed[m].txn = {i}
      PROVE  i \in DOMAIN txStart /\ txStart[i] = feed[m].time
  <2>1. i \in DOMAIN txStart
    BY <1>1, <1>6 DEF LastTimes, InStretch
  <2>2. PICK n \in since : /\ feed[n].kind = "TxnHeaderStart" /\ feed[n].txn = {i}
                           /\ txStart[i] = feed[n].time
    BY <1>4, <2>1
  <2> QED
    BY <1>6, <2>1, <2>2, OneHeaderOneEnd
<1>7. ASSUME NEW m \in since, NEW i, feed[m].kind = "TxnEnd", feed[m].txn = {i}
      PROVE  i \in DOMAIN txEnd /\ txEnd[i] = feed[m].time
  <2>1. i \in DOMAIN txEnd
    BY <1>1, <1>7 DEF LastTimes, InStretch
  <2>2. PICK n \in since : /\ feed[n].kind = "TxnEnd" /\ feed[n].txn = {i}
                           /\ txEnd[i] = feed[n].time
    BY <1>5, <2>1
  <2> QED
    BY <1>7, <2>1, <2>2, OneHeaderOneEnd
<1> QED
  BY <1>4, <1>5, <1>6, <1>7

LEMMA Spans ==
  ASSUME NEW s \in Nat, NEW e \in Nat
  PROVE  /\ SaturatingSub(e, s) \in Nat
         /\ s < e => SaturatingSub(e, s) = e - s /\ e - s \in Nat
         /\ ~(s < e) => SaturatingSub(e, s) = 0
<1>1. e - s \in Int
  OBVIOUS
<1>2. /\ Max({e - s, 0}) \in {e - s, 0}
      /\ Max({e - s, 0}) >= e - s /\ Max({e - s, 0}) >= 0
  BY <1>1, MaxOfTwo
<1> QED
  BY <1>1, <1>2 DEF SaturatingSub

LEMMA TimeOfStretch ==
  ASSUME PInv, InBlocks(feed), NEW b, since = OfBlock(b)
  PROVE  TotalTxTime = SpanSum(feed, Durations(b))
<1> DEFINE S == DOMAIN txStart \cap DOMAIN txEnd
           R == Durations(b)
           g == [i \in S |-> SaturatingSub(txEnd[i], txStart[i])]
           h == [p \in R |-> feed[p[2]].time - feed[p[1]].time]
           match == [p \in R |-> CHOOSE i : feed[p[1]].txn = {i}]
<1>1. \A m \in since : feed[m].time \in Nat /\ feed[m].txn \subseteq Nat
  BY StretchIsFinite DEF Event
<1>2. IsFiniteSet(S)
  <2>1. S \subseteq UNION {feed[m].txn : m \in OfBlock(b)}
    BY TimesAreOfEvents
  <2>2. IsFiniteSet(UNION {feed[m].txn : m \in OfBlock(b)})
    BY TxnsAreFinite
  <2> QED
    BY <2>1, <2>2, FS_Subset
<1>3. IsFiniteSet(R)
  <2>1. IsFiniteSet(OfBlock(b) \X OfBlock(b))
    BY StretchIsFinite, FS_Product
  <2>2. R \subseteq OfBlock(b) \X OfBlock(b)
    BY DEF Durations
  <2> QED
    BY <2>1, <2>2, FS_Subset
<1>4. \A i \in S : txStart[i] \in Nat /\ txEnd[i] \in Nat
  BY <1>1, TimesAreOfEvents
<1>5. g \in [S -> Nat]
  BY <1>4, Spans
(* Every pair of Durations is a header and an end of one transaction.      *)
<1>6. ASSUME NEW p \in R
      PROVE  /\ p[1] \in since /\ p[2] \in since /\ p = <<p[1], p[2]>>
             /\ feed[p[1]].kind = "TxnHeaderStart" /\ feed[p[2]].kind = "TxnEnd"
             /\ feed[p[1]].txn = {match[p]} /\ feed[p[2]].txn = {match[p]}
             /\ match[p] \in S /\ feed[p[1]].time < feed[p[2]].time
             /\ h[p] = g[match[p]] /\ h[p] \in Nat
  <2>1. /\ p[1] \in since /\ p[2] \in since /\ p = <<p[1], p[2]>>
        /\ feed[p[1]].kind = "TxnHeaderStart" /\ feed[p[2]].kind = "TxnEnd"
        /\ feed[p[1]].txn = feed[p[2]].txn /\ feed[p[1]].time < feed[p[2]].time
    BY DEF Durations
  <2>2. \E i : feed[p[1]].txn = {i}
    <3>1. p[1] \in DOMAIN feed /\ feed[p[1]] \in Event
      BY <2>1, StretchIsFinite
    <3>2. feed[p[1]].txn # {}
      BY <2>1, <3>1 DEF InBlocks, None
    <3>3. \A i, j \in feed[p[1]].txn : i = j
      BY <3>1 DEF Event
    <3> QED
      BY <3>2, <3>3
  <2>3. feed[p[1]].txn = {match[p]}
    BY <2>2
  <2> HIDE DEF match
  <2>4. /\ match[p] \in DOMAIN txStart /\ txStart[match[p]] = feed[p[1]].time
        /\ match[p] \in DOMAIN txEnd /\ txEnd[match[p]] = feed[p[2]].time
    <3>1. \A m \in since : \A i : feed[m].kind = "TxnHeaderStart" /\ feed[m].txn = {i} =>
            i \in DOMAIN txStart /\ txStart[i] = feed[m].time
      BY TimesAreOfEvents
    <3>2. \A m \in since : \A i : feed[m].kind = "TxnEnd" /\ feed[m].txn = {i} =>
            i \in DOMAIN txEnd /\ txEnd[i] = feed[m].time
      BY TimesAreOfEvents
    <3>3. feed[p[2]].txn = {match[p]}
      BY <2>1, <2>3
    <3> QED
      BY <2>1, <2>3, <3>1, <3>2, <3>3
  <2>5. /\ SaturatingSub(feed[p[2]].time, feed[p[1]].time)
              = feed[p[2]].time - feed[p[1]].time
        /\ feed[p[2]].time - feed[p[1]].time \in Nat
    BY <1>1, <2>1, Spans
  <2> QED
    BY <2>1, <2>3, <2>4, <2>5
<1>7. match \in [R -> S] /\ h \in [R -> Nat]
  <2> DEFINE choice(p) == CHOOSE i : feed[p[1]].txn = {i}
  <2>1. \A p \in R : match[p] = choice(p) /\ match[p] \in S
    BY <1>6
  <2> HIDE DEF choice
  <2>2. match = [p \in R |-> choice(p)]
    BY DEF choice
  <2>3. match \in [R -> S]
    BY <2>1, <2>2
  <2> QED
    BY <1>6, <2>3
<1>8. \A p, q \in R : match[p] = match[q] => p = q
  <2> HIDE DEF R, S, g, h, match
  <2> SUFFICES ASSUME NEW p \in R, NEW q \in R, match[p] = match[q] PROVE p = q
    OBVIOUS
  <2>1. /\ p[1] \in since /\ q[1] \in since /\ feed[p[1]].kind = "TxnHeaderStart"
        /\ feed[q[1]].kind = "TxnHeaderStart" /\ feed[p[1]].txn = feed[q[1]].txn
        /\ p[2] \in since /\ q[2] \in since /\ feed[p[2]].kind = "TxnEnd"
        /\ feed[q[2]].kind = "TxnEnd" /\ feed[p[2]].txn = feed[q[2]].txn
    BY <1>6
  <2>2. p[1] = q[1]
    BY <2>1, OneHeaderOneEnd
  <2>3. p[2] = q[2]
    BY <2>1, OneHeaderOneEnd
  <2>4. p = <<p[1], p[2]>> /\ q = <<q[1], q[2]>>
    BY <1>6
  <2> QED
    BY <2>2, <2>3, <2>4
(* A transaction without one took no time.                                 *)
<1>9. \A i \in S : g[i] = 0 \/ \E p \in R : match[p] = i
  <2> SUFFICES ASSUME NEW i \in S, g[i] # 0 PROVE \E p \in R : match[p] = i
    OBVIOUS
  <2>1. PICK m \in since : /\ feed[m].kind = "TxnHeaderStart" /\ feed[m].txn = {i}
                           /\ txStart[i] = feed[m].time
    BY TimesAreOfEvents
  <2>2. PICK n \in since : /\ feed[n].kind = "TxnEnd" /\ feed[n].txn = {i}
                           /\ txEnd[i] = feed[n].time
    BY TimesAreOfEvents
  <2>3. feed[m].time < feed[n].time
    <3>1. g[i] = SaturatingSub(feed[n].time, feed[m].time)
      BY <2>1, <2>2
    <3> QED
      BY <1>1, <3>1, Spans
  <2>4. <<m, n>> \in R
    BY <2>1, <2>2, <2>3 DEF Durations
  <2>5. {match[<<m, n>>]} = {i}
    <3> HIDE DEF match, R
    <3>1. feed[<<m, n>>[1]].txn = {match[<<m, n>>]}
      BY <1>6, <2>4
    <3> QED
      BY <2>1, <3>1
  <2> HIDE DEF match, R
  <2> QED
    BY <2>4, <2>5
<1>10. PICK F : Sums(F, g, S) /\ TotalTxTime = F[S]
  BY <1>2, TotalIsSum
<1>11. PICK H : Sums(H, h, R) /\ SpanSum(feed, R) = H[R]
  BY <1>3, SpanIsSum
<1>12. \A p \in R : h[p] = g[match[p]]
  BY <1>6
<1> HIDE DEF R, S, g, h, match
<1>13. F[S] = H[R]
  BY <1>2, <1>3, <1>5, <1>7, <1>8, <1>9, <1>10, <1>11, <1>12, SumsMatch
<1> QED
  BY <1>10, <1>11, <1>13 DEF R

LEMMA FiguresOfBlock ==
  ASSUME PInv, InBlocks(feed), BothCountersAgree, NEW b, since = OfBlock(b),
         current = Some(b), NEW t, NEW data \in OnBlockEnd(t)
  PROVE  FiguresOf(b, data) /\ EdgesOf(b, data.edges)
<1>1. /\ data.block = b /\ data.txTime = TotalTxTime /\ data.txns = txnCount
      /\ data.slots = Cardinality(TouchedSlots)
      /\ data.contended = Cardinality(Contended)
      /\ data.topSlots \in TopByTxns({SlotEntry(s) : s \in Contended}, TopSlots)
      /\ data.edges \in TopByTxns(Edges, TopEdges)
  <2> DEFINE tops == TopByTxns({SlotEntry(s) : s \in Contended}, TopSlots)
             contracts == TopByContention({ContractEntry(s.address) : s \in Contended},
                                          TopContracts)
             cuts == TopByTxns(Edges, TopEdges)
             Made(n, topSlots, topContracts, edges) ==
               [block        |-> n,
                wall         |-> SaturatingSub(t, blockStart),
                txTime       |-> TotalTxTime,
                slots        |-> Cardinality(TouchedSlots),
                contended    |-> ContendedSlotCount,
                txns         |-> txnCount,
                topSlots     |-> topSlots,
                topContracts |-> topContracts,
                edges        |-> edges]
  <2>1. OnBlockEnd(t) = {Made(n, topSlots, topContracts, edges) :
                           n \in current, topSlots \in tops,
                           topContracts \in contracts, edges \in cuts}
    BY DEF OnBlockEnd
  <2> HIDE DEF tops, contracts, cuts, Made
  <2>2. PICK n \in current, topSlots \in tops, topContracts \in contracts, edges \in cuts :
          data = Made(n, topSlots, topContracts, edges)
    BY <2>1
  <2>3. n = b
    BY DEF Some
  <2> QED
    BY <2>2, <2>3 DEF Made, tops, cuts, ContendedSlotCount
<1>2. txnCount = Cardinality(Headers(OfBlock(b)))
  BY DEF BothCountersAgree, PInv, Counters, TxnsCounted
<1>3. TopSlotsOf(b, data.topSlots) /\ EdgesOf(b, data.edges)
  BY <1>1, TopSlotsOfStretch, EdgesOfStretch
<1>4. /\ TotalTxTime = SpanSum(feed, Durations(b))
      /\ TouchedSlots = SlotsOf(b) /\ Contended = Shared(b)
  BY TimeOfStretch, SlotsOfStretch, ContendedOfStretch
<1> QED
  BY <1>1, <1>2, <1>3, <1>4 DEF FiguresOf, EdgesOf

(* The BlockEnd itself adds nothing to the figures.                        *)
LEMMA EndAddsNothing ==
  ASSUME NEW n, feed[n].kind = "BlockEnd", feed' = feed, handled' = handled \cup {n},
         NEW b, NEW data, FiguresOf(b, data), EdgesOf(b, data.edges)
  PROVE  FiguresOf(b, data)'
<1>1. \A m : m # n => (m \in OfBlock(b)' <=> m \in OfBlock(b))
  BY DEF OfBlock
<1>2. \A m \in OfBlock(b) : m \in OfBlock(b)'
  BY DEF OfBlock
<1>3. Headers(OfBlock(b))' = Headers(OfBlock(b))
  BY <1>1 DEF Headers
<1>4. \A s : AccessesTo(b, s)' = AccessesTo(b, s)
  BY <1>1 DEF AccessesTo
<1>5. \A s : TxnsAt(b, s)' = TxnsAt(b, s)
  BY <1>4 DEF TxnsAt
<1>6. SlotsOf(b)' = SlotsOf(b)
  <2>1. {k \in OfBlock(b)' : feed[k].kind = "StorageAccess" /\ feed[k].txn # None}
          = {k \in OfBlock(b) : feed[k].kind = "StorageAccess" /\ feed[k].txn # None}
    BY <1>1
  <2> QED
    BY <2>1 DEF SlotsOf
<1>7. Shared(b)' = Shared(b)
  BY <1>5, <1>6 DEF Shared
<1>8. Durations(b)' = Durations(b)
  BY <1>1 DEF Durations
<1>9. ASSUME NEW pair, pair # {} PROVE TxnsOnBoth(b, pair)' = TxnsOnBoth(b, pair)
  <2>1. \A s, i : i \in TxnsAt(b, s) =>
          /\ i \in UNION {feed[m].txn : m \in OfBlock(b)}
          /\ i \in UNION {feed[m].txn : m \in OfBlock(b)'}
    BY <1>2 DEF TxnsAt, AccessesTo
  <2> DEFINE both(i) == \A a \in pair : \E s \in SlotsOf(b) :
                          s.address = a /\ i \in TxnsAt(b, s)
  <2>2. \A i : both(i) => /\ i \in UNION {feed[m].txn : m \in OfBlock(b)}
                         /\ i \in UNION {feed[m].txn : m \in OfBlock(b)'}
    BY <1>9, <2>1
  <2>3. TxnsOnBoth(b, pair) =
          {<<b, i>> : i \in {j \in UNION {feed[m].txn : m \in OfBlock(b)} : both(j)}}
    BY DEF TxnsOnBoth, TxnOf
  <2>4. TxnsOnBoth(b, pair)' =
          {<<b, i>> : i \in {j \in UNION {feed[m].txn : m \in OfBlock(b)'} : both(j)}}
    BY <1>5, <1>6 DEF TxnsOnBoth, TxnOf
  <2>5. {j \in UNION {feed[m].txn : m \in OfBlock(b)} : both(j)}
          = {j \in UNION {feed[m].txn : m \in OfBlock(b)'} : both(j)}
    BY <2>2
  <2> QED
    BY <2>3, <2>4, <2>5
<1>10. SpanSum(feed, Durations(b))' = SpanSum(feed, Durations(b))
  BY <1>8
<1>11. TopSlotsOf(b, data.topSlots)'
  BY <1>4, <1>5, <1>7 DEF FiguresOf, TopSlotsOf
<1>12. \A x \in data.edges : x.txns = Cardinality(TxnsOnBoth(b, x.pair)')
  BY <1>9 DEF EdgesOf
<1> QED
  BY <1>3, <1>6, <1>7, <1>10, <1>11, <1>12 DEF FiguresOf

ContentionInv == StretchIsTail /\ BothCountersAgree /\ ContentionOfItsBlock

LEMMA ContentionHandled ==
  ASSUME PInv, InBlocks(feed), ContentionInv, Forward, Handle
  PROVE  ContentionOfItsBlock'
<1> DEFINE n == Head(queue)
           e == feed[n]
<1>0. PICK b : b = e.block
  OBVIOUS
<1>1. /\ n \in Positions /\ \A m \in handled : m < n
      /\ feed' = feed /\ handled' = handled \cup {n}
  BY NewEvent DEF PInv
<1>2. output'.event = n
  BY DEF Handle, HandleBlockStart, HandleBlockEnd, HandleTxnHeaderStart, HandleTxnEnd,
         HandleStorageAccess, HandleOther, Publishes
<1>3. CASE output'.contention = {}
  BY <1>3 DEF ContentionOfItsBlock
<1>4. CASE output'.contention # {}
  <2>1. /\ e.kind = "BlockEnd"
        /\ \E data \in OnBlockEnd(e.time) : output'.contention = {data}
    BY <1>4 DEF Handle, HandleBlockStart, HandleBlockEnd, HandleTxnHeaderStart, HandleTxnEnd,
           HandleStorageAccess, HandleOther, Publishes, None, Some
  <2>2. PICK data \in OnBlockEnd(e.time) : output'.contention = {data}
    BY <2>1
  <2>3. ASSUME NEW s \in OfBlock(b)', feed'[s].kind = "BlockStart"
        PROVE  FiguresOf(b, data)'
    <3>1. s \in handled /\ feed[s].kind = "BlockStart" /\ feed[s].block = feed[n].block
      BY <1>0, <1>1, <2>1, <2>3 DEF OfBlock
    <3>2. since = OfBlock(b) /\ current = Some(b)
      BY <1>0, <1>1, <3>1, StretchIsBlock DEF ContentionInv
    <3>3. FiguresOf(b, data) /\ EdgesOf(b, data.edges)
      BY <3>2, FiguresOfBlock DEF ContentionInv
    <3> QED
      BY <1>1, <2>1, <3>3, EndAddsNothing
  <2> QED
    BY <1>0, <1>1, <1>2, <2>2, <2>3 DEF ContentionOfItsBlock
<1> QED
  BY <1>3, <1>4

LEMMA FiguresKept ==
  ASSUME feed' = feed, handled' = handled, NEW b, NEW data
  PROVE  OfBlock(b)' = OfBlock(b) /\ (FiguresOf(b, data)' <=> FiguresOf(b, data))
<1>1. OfBlock(b)' = OfBlock(b)
  BY DEF OfBlock
<1>2. /\ Headers(OfBlock(b))' = Headers(OfBlock(b))
      /\ \A s : AccessesTo(b, s)' = AccessesTo(b, s)
      /\ SlotsOf(b)' = SlotsOf(b) /\ Durations(b)' = Durations(b)
  BY <1>1 DEF Headers, AccessesTo, SlotsOf, Durations
<1>3. \A s : TxnsAt(b, s)' = TxnsAt(b, s)
  BY <1>2 DEF TxnsAt
<1>4. Shared(b)' = Shared(b)
  BY <1>2, <1>3 DEF Shared
<1>5. SpanSum(feed, Durations(b))' = SpanSum(feed, Durations(b))
  BY <1>2
<1>6. \A pair : TxnsOnBoth(b, pair)' = TxnsOnBoth(b, pair)
  BY <1>1, <1>2, <1>3 DEF TxnsOnBoth
<1>7. TopSlotsOf(b, data.topSlots)' <=> TopSlotsOf(b, data.topSlots)
  BY <1>2, <1>3, <1>4 DEF TopSlotsOf
<1> QED
  BY <1>1, <1>2, <1>4, <1>5, <1>6, <1>7 DEF FiguresOf

LEMMA ContentionStep ==
  ASSUME PInv, InBlocks(feed), ContentionInv, [Next]_vars
  PROVE  ContentionInv'
<1>1. ASSUME UNCHANGED <<feed, handled, since, output, txnCount, currentTxs>>
      PROVE  ContentionInv'
  <2>1. StretchIsTail' /\ BothCountersAgree'
    BY <1>1 DEF ContentionInv, StretchIsTail, InStretch, BothCountersAgree
  <2>2. ContentionOfItsBlock'
    BY <1>1, FiguresKept DEF ContentionInv, ContentionOfItsBlock
  <2> QED
    BY <2>1, <2>2 DEF ContentionInv
<1>2. CASE Forward
  <2>1. CASE Handle
    BY <1>2, <2>1, TailHandled, ContentionHandled DEF ContentionInv
  <2>2. CASE Panic \/ Drained
    BY <1>1, <1>2, <2>2 DEF Panic, Drained, Forward, ringVars, figureVars, contentionVars,
                            tpsVars
  <2> QED
    BY <1>2, <2>1, <2>2 DEF Forward
<1>3. CASE Stop
  <2>1. /\ handled' = {} /\ since' = {} /\ output'.event = 0
        /\ txnCount' = 0 /\ currentTxs' = 0 /\ ~(0 > 0)
    BY <1>3 DEF Stop, FiguresGone, Silent
  <2> QED
    BY <2>1 DEF ContentionInv, StretchIsTail, InStretch, BothCountersAgree,
                ContentionOfItsBlock
<1>4. CASE Write \/ Listen \/ Age \/ UNCHANGED vars
  BY <1>1, <1>4 DEF Write, Listen, Age, ringVars, forwarderVars, figureVars, contentionVars,
                    tpsVars, vars
<1> QED
  BY <1>2, <1>3, <1>4 DEF Next, ListenerEnds, ServerEnds, Health

(* If the client writes block after block, the contention figures of a     *)
(* block whose BlockStart was handled are those of the events of the block *)
(* that were handled: whatever was missed, and nothing of another block.   *)
THEOREM FiguresAreOfTheirBlock ==
  ASSUME \A f \in Feeds : InBlocks(f)
  PROVE  Spec => []ContentionOfItsBlock
<1>1. Init => ContentionInv
  <2> SUFFICES ASSUME Init PROVE ContentionInv
    OBVIOUS
  <2>1. /\ handled = {} /\ since = {} /\ output.event = 0
        /\ txnCount = 0 /\ currentTxs = 0 /\ ~(0 > 0)
    BY DEF Init, FiguresInit, Silent
  <2> QED
    BY <2>1 DEF ContentionInv, StretchIsTail, InStretch, BothCountersAgree,
                ContentionOfItsBlock
<1>2. PInv /\ ContentionInv /\ [Next]_vars => ContentionInv'
  <2>1. PInv => feed \in Feeds
    BY DEF PInv, RingTypeOK
  <2> QED
    BY <2>1, ContentionStep
<1>3. ContentionInv => ContentionOfItsBlock
  BY DEF ContentionInv
<1> QED
  BY <1>1, <1>2, <1>3, PInvAlways, PTL DEF Spec
=============================================================================
