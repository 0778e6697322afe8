--------------------------- MODULE MCEventPipeline --------------------------
(* Feeds of two blocks: two transactions that run at the same time and     *)
(* meet in a slot, then one more block that uses their indices again.      *)
EXTENDS EventPipeline

Make(kind, block, txn, slot, time) ==
  [kind |-> kind, block |-> block, txn |-> txn, slot |-> slot, time |-> time]
Slot(a, k) == [address |-> a, key |-> k]
NoSlot == Slot("none", 0)

Start(b, t) == Make("BlockStart", b, None, NoSlot, t)
End(b, t) == Make("BlockEnd", b, None, NoSlot, t)
Header(b, i, t) == Make("TxnHeaderStart", b, Some(i), NoSlot, t)
Done(b, i, t) == Make("TxnEnd", b, Some(i), NoSlot, t)
Other(b, i, t) == Make("TxnOther", b, Some(i), NoSlot, t)
Access(b, i, s, t) == Make("StorageAccess", b, Some(i), s, t)
SystemAccess(b, s, t) == Make("StorageAccess", b, None, s, t)
Strange(b, t) == Make("Unknown", b, None, NoSlot, t)

A1 == Slot("A", 1)
B1 == Slot("B", 1)
AllSlots == {NoSlot, A1, B1}

(* Both transactions touch A1 and one of them B1 too. *)
Meeting == <<Start(1, 1), Header(1, 0, 2), Header(1, 1, 2),
             Access(1, 0, A1, 3), Access(1, 1, A1, 3), Access(1, 1, B1, 4),
             Done(1, 1, 5), Done(1, 0, 6), End(1, 7)>>
(* Two slots are contended, with more accesses than transactions; the      *)
(* second transaction is rejected.                                         *)
Crowded == <<Start(1, 1), Header(1, 0, 1), Access(1, 0, A1, 2), Access(1, 0, B1, 2),
             SystemAccess(1, A1, 2), Header(1, 1, 3), Access(1, 1, A1, 3),
             Access(1, 1, B1, 3), Done(1, 0, 4), End(1, 4)>>
Next1 == <<Start(2, 8), Header(2, 0, 8), Access(2, 0, A1, 9), Other(2, 1, 9),
           Done(2, 0, 9), End(2, 10)>>
Next2 == <<Start(2, 5), Strange(2, 5), Header(2, 1, 6), Other(2, 1, 5),
           Done(2, 1, 6), End(2, 6)>>
(* A block with more transactions than the table has places. *)
Large == <<Start(1, 1), Header(1, 0, 1), Done(1, 0, 2), Header(1, 2, 2), End(1, 3)>>
Short == <<Start(1, 1), Header(1, 0, 1), End(1, 2), Start(2, 3), Header(2, 0, 3),
           Header(2, 1, 3), End(2, 4), Start(3, 5), Header(3, 0, 5), Start(4, 6),
           Start(5, 7)>>

TwoBlocks == {Meeting \o Next1, Crowded \o Next2, Large, Short}

ASSUME FeedsAssumption == \A f \in Feeds : InTurn(f) /\ InBlocks(f)
=============================================================================
