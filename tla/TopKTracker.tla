----------------------------- MODULE TopKTracker ----------------------------
(***************************************************************************)
(* The heavy-hitter counter of top_k_tracker.rs, of which the forwarder    *)
(* keeps two: accounts and storage slots touched since the last reset.     *)
(* A full map is decremented as a whole to make room.  The history         *)
(* variables hold the exact counts the map approximates.                   *)
(***************************************************************************)
EXTENDS Integers, FiniteSets

CONSTANTS
  Item,       \* what is counted: addresses, or address and slot pairs
  Capacity,   \* capacity (1_000)
  MaxTotal    \* bound: accesses recorded between two resets

ASSUME TopKAssumption == Capacity \in Nat /\ MaxTotal \in Nat

VARIABLES
  counts,     \* counts: tracked item -> approximate count
  exact,      \* history: exact number of accesses per item since the reset
  total,      \* history: accesses since the reset
  rounds      \* history: decrement rounds since the reset

vars == <<counts, exact, total, rounds>>

Init ==
  /\ counts = <<>>
  /\ exact = [x \in Item |-> 0] /\ total = 0 /\ rounds = 0
----------------------------------------------------------------------------
CountOf(x) == IF x \in DOMAIN counts THEN counts[x] ELSE 0

WithOne(f, x) == [y \in DOMAIN f \cup {x} |-> IF y = x THEN 1 ELSE f[y]]

(* Every count decremented, the zeros removed. *)
Decremented == [y \in {z \in DOMAIN counts : counts[z] > 1} |-> counts[y] - 1]

Seen(x) ==
  /\ total < MaxTotal
  /\ exact' = [exact EXCEPT ![x] = @ + 1] /\ total' = total + 1

RecordTracked(x) ==
  /\ x \in DOMAIN counts
  /\ counts' = [counts EXCEPT ![x] = @ + 1]
  /\ Seen(x) /\ UNCHANGED rounds

RecordNew(x) ==
  /\ x \notin DOMAIN counts /\ Cardinality(DOMAIN counts) < Capacity
  /\ counts' = WithOne(counts, x)
  /\ Seen(x) /\ UNCHANGED rounds

(* Faulty variants: the new item is inserted without room; the full map is *)
(* cleared.                                                                *)
RecordBeyondCapacity(x) ==
  /\ x \notin DOMAIN counts /\ Cardinality(DOMAIN counts) >= Capacity
  /\ counts' = WithOne(Decremented, x)
  /\ Seen(x) /\ rounds' = rounds + 1
RecordClearing(x) ==
  /\ x \notin DOMAIN counts /\ Cardinality(DOMAIN counts) >= Capacity
  /\ counts' = WithOne(<<>>, x)
  /\ Seen(x) /\ rounds' = rounds + 1

RecordAtCapacity(x) ==
  /\ x \notin DOMAIN counts /\ Cardinality(DOMAIN counts) >= Capacity
  /\ counts' = IF Cardinality(DOMAIN Decremented) < Capacity
                 THEN WithOne(Decremented, x) ELSE Decremented
  /\ Seen(x) /\ rounds' = rounds + 1

(* Faulty variant: the counts survive the reset. *)
ResetNothing ==
  /\ exact' = [x \in Item |-> 0] /\ total' = 0 /\ rounds' = 0
  /\ UNCHANGED counts

(* The forwarder resets its trackers every five minutes. *)
Reset ==
  /\ counts' = <<>>
  /\ exact' = [x \in Item |-> 0] /\ total' = 0 /\ rounds' = 0

Next == Reset \/ \E x \in Item : RecordTracked(x) \/ RecordNew(x)
                                   \/ RecordAtCapacity(x)

Spec == Init /\ [][Next]_vars
----------------------------------------------------------------------------
(* The type invariant: only positive counts are kept, at most Capacity. *)
TypeOK ==
  /\ DOMAIN counts \subseteq Item
  /\ counts \in [DOMAIN counts -> Nat \ {0}]
  /\ IsFiniteSet(DOMAIN counts) /\ Cardinality(DOMAIN counts) =< Capacity
  /\ exact \in [Item -> Nat] /\ total \in Nat /\ rounds \in Nat

(* A reported count never exceeds the truth, and falls short of it by at   *)
(* most the number of decrement rounds, for tracked and forgotten items.   *)
CountWithinRounds ==
  \A x \in Item : CountOf(x) =< exact[x] /\ exact[x] - CountOf(x) =< rounds

(* "Ensures heavy hitters are retained": an item with more than a share    *)
(* 1/Capacity of the accesses is tracked.  It follows from                 *)
(* CountWithinRounds as every round consumes Capacity earlier accesses.    *)
HeavyHittersTracked ==
  \A x \in Item : exact[x] * Capacity > total => x \in DOMAIN counts
=============================================================================
