---------------------------- MODULE BlockFigures ----------------------------
(***************************************************************************)
(* The per-block contention figures (contention_tracker.rs) and the        *)
(* sliding TPS window (server.rs, TPSTracker).  Both live in the event     *)
(* forwarder and are driven by the events it handles.                      *)
(***************************************************************************)
EXTENDS Integers, FiniteSets, FiniteSetsExt

CONSTANTS
  TopSlots,     \* entries kept of the contended slots (20)
  TopContracts, \* entries kept of the contended contracts (15)
  TopEdges      \* entries kept of the contract edges (15)

ASSUME ContentionAssumption == {TopSlots, TopContracts, TopEdges} \subseteq Nat

(* A storage slot is an address and a key. *)
VARIABLES
  current,      \* current_block_number (Option)
  blockStart,   \* block_start_ns
  txStart,      \* tx_start_ns: transaction index -> time
  txEnd,        \* tx_end_ns
  slotTxns,     \* slot_txns: pairs of a slot and a transaction
  slotAccesses, \* slot_access_counts: slot -> Nat
  txnContracts, \* txn_contracts: pairs of a transaction and an address
  txnCount,     \* txn_count
  window,       \* TPSTracker: block_1_txs, block_2_txs, block_3_txs
  currentTxs    \* TPSTracker: current_tx_count

contentionVars == <<current, blockStart, txStart, txEnd, slotTxns,
                    slotAccesses, txnContracts, txnCount>>
tpsVars == <<window, currentTxs>>
figureVars == <<contentionVars, tpsVars>>

None == {}
Some(x) == {x}
NoEntry == [x \in {} |-> 0]
Insert(f, k, v) == [x \in DOMAIN f \cup {k} |-> IF x = k THEN v ELSE f[x]]
CountOf(f, k) == IF k \in DOMAIN f THEN f[k] ELSE 0
----------------------------------------------------------------------------
FiguresInit ==
  /\ current = None /\ blockStart = 0
  /\ txStart = NoEntry /\ txEnd = NoEntry
  /\ slotTxns = {} /\ slotAccesses = NoEntry /\ txnContracts = {}
  /\ txnCount = 0
  /\ window = <<0, 0, 0>> /\ currentTxs = 0

FiguresGone ==
  /\ current' = None /\ blockStart' = 0
  /\ txStart' = NoEntry /\ txEnd' = NoEntry
  /\ slotTxns' = {} /\ slotAccesses' = NoEntry /\ txnContracts' = {}
  /\ txnCount' = 0
  /\ window' = <<0, 0, 0>> /\ currentTxs' = 0

(* Faulty variant: the slots of the last block are kept. *)
OnBlockStartKeepsSlots(n, t) ==
  /\ current' = Some(n) /\ blockStart' = t
  /\ txStart' = NoEntry /\ txEnd' = NoEntry
  /\ slotAccesses' = NoEntry /\ txnContracts' = {} /\ txnCount' = 0
  /\ UNCHANGED slotTxns

OnBlockStart(n, t) ==
  /\ current' = Some(n) /\ blockStart' = t
  /\ txStart' = NoEntry /\ txEnd' = NoEntry
  /\ slotTxns' = {} /\ slotAccesses' = NoEntry /\ txnContracts' = {}
  /\ txnCount' = 0

OnTxnStart(i, t) ==
  /\ txStart' = Insert(txStart, i, t) /\ txnCount' = txnCount + 1
  /\ UNCHANGED <<current, blockStart, txEnd, slotTxns, slotAccesses,
                 txnContracts>>

OnTxnEnd(i, t) ==
  /\ txEnd' = Insert(txEnd, i, t)
  /\ UNCHANGED <<current, blockStart, txStart, slotTxns, slotAccesses,
                 txnContracts, txnCount>>

(* An access counts for its slot; who made it only if a transaction did. *)
OnStorageAccess(slot, txn) ==
  /\ slotAccesses' = Insert(slotAccesses, slot, CountOf(slotAccesses, slot) + 1)
  /\ slotTxns' = slotTxns \cup {<<slot, i>> : i \in txn}
  /\ txnContracts' = txnContracts \cup {<<i, slot.address>> : i \in txn}
  /\ UNCHANGED <<current, blockStart, txStart, txEnd, txnCount>>
----------------------------------------------------------------------------
(* What on_block_end computes from the accumulated state. *)
SaturatingSub(a, b) == Max({a - b, 0})

TotalTxTime ==
  LET paired == DOMAIN txStart \cap DOMAIN txEnd
  IN  MapThenSumSet(LAMBDA i : SaturatingSub(txEnd[i], txStart[i]), paired)

TouchedSlots == {p[1] : p \in slotTxns}
TxnsOn(slot) == Cardinality({p \in slotTxns : p[1] = slot})
Contended == {s \in TouchedSlots : TxnsOn(s) >= 2}

SlotEntry(s) == [slot |-> s, txns |-> TxnsOn(s),
                 accesses |-> CountOf(slotAccesses, s)]

ContractEntry(a) ==
  LET slots == {s \in TouchedSlots : s.address = a} IN
  [address |-> a, slots |-> Cardinality(slots),
   contended |-> Cardinality(slots \cap Contended),
   accesses |-> MapThenSumSet(LAMBDA s : CountOf(slotAccesses, s), slots)]

(* Two contracts that some transaction touched both. *)
Together(pair) ==
  {p[1] : p \in {q \in txnContracts :
                   \A a \in pair : <<q[1], a>> \in txnContracts}}
Edges ==
  LET pairs == kSubset(2, {p[2] : p \in txnContracts}) IN
  {[pair |-> e, txns |-> Cardinality(Together(e))] :
     e \in {d \in pairs : Together(d) # {}}}

(* Sorted in descending order and truncated to n: entries that are equally *)
(* large come in the order of a hash map, so any of them may be cut.       *)
Cuts(entries, n) == kSubset(Min({n, Cardinality(entries)}), entries)

TopByTxns(entries, n) ==
  {kept \in Cuts(entries, n) :
     \A x \in kept, y \in entries \ kept : x.txns >= y.txns}

MoreContended(x, y) ==
  \/ x.contended > y.contended
  \/ x.contended = y.contended /\ x.contended * y.slots > y.contended * x.slots
TopByContention(entries, n) ==
  {kept \in Cuts(entries, n) :
     \A x \in kept, y \in entries \ kept : ~MoreContended(y, x)}

(* Faulty variant: the slots are counted after the list was truncated. *)
ContendedKeptCount == Min({Cardinality(Contended), TopSlots})

ContendedSlotCount == Cardinality(Contended)

(* The figures on_block_end may return: none without a current block.  The *)
(* ratios are quotients of the figures here.                               *)
OnBlockEnd(t) ==
  {[block        |-> n,
    wall         |-> SaturatingSub(t, blockStart),
    txTime       |-> TotalTxTime,
    slots        |-> Cardinality(TouchedSlots),
    contended    |-> ContendedSlotCount,
    txns         |-> txnCount,
    topSlots     |-> topSlots,
    topContracts |-> topContracts,
    edges        |-> edges] :
     n \in current,
     topSlots \in TopByTxns({SlotEntry(s) : s \in Contended}, TopSlots),
     topContracts \in TopByContention({ContractEntry(s.address) : s \in Contended},
                                      TopContracts),
     edges \in TopByTxns(Edges, TopEdges)}
----------------------------------------------------------------------------
(* TPSTracker::record_tx *)
RecordTx == currentTxs' = currentTxs + 1 /\ UNCHANGED window

(* TPSTracker::get_tps: the window moves on and the newest block counts    *)
(* half.                                                                   *)
Tps(w) == w[1] + w[2] + w[3] \div 2

(* Faulty variant: the oldest place is overwritten last. *)
MoveWindowLate ==
  /\ window' = <<window[3], window[3], currentTxs>>
  /\ currentTxs' = 0

(* Faulty variant: the count of the block goes on. *)
MoveWindowGoesOn ==
  /\ window' = <<window[2], window[3], currentTxs>>
  /\ UNCHANGED currentTxs

MoveWindow ==
  /\ window' = <<window[2], window[3], currentTxs>>
  /\ currentTxs' = 0
=============================================================================
