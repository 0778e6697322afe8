---------------------------- MODULE ChainTracking ---------------------------
(***************************************************************************)
(* The lifecycle tracker fed by a chain.  The chain is the environment     *)
(* (the execution client and its event ring); it is modelled from how the  *)
(* gateway uses it: blocks are executed one at a time, BlockReject is      *)
(* about the block being executed, every height is finalized once, and     *)
(* BlockVerified follows the finalization of its height.                   *)
(*                                                                         *)
(* The question is whether the stage the gateway publishes for a block is  *)
(* the stage the chain gave to that block.                                 *)
(***************************************************************************)
EXTENDS BlockLifecycle

CONSTANT MaxMissed  \* bound: events the reader misses (Gap, reset, late start)

ASSUME ChainAssumption == MaxMissed \in Nat

VARIABLES
  executing,        \* the block being executed (a set with at most one)
  chain,            \* chain[h]: the stages block h has reached
  ran,              \* the blocks whose BlockEnd happened
  txnsRun,          \* transactions started per block
  missed            \* events that did not reach the forwarder

chainVars == <<executing, chain, ran, txnsRun, missed>>
allVars == <<vars, chainVars>>
----------------------------------------------------------------------------
ChainInit ==
  /\ Init
  /\ executing = {} /\ ran = {} /\ missed = 0
  /\ chain = [h \in Hash |-> {}]
  /\ txnsRun = [h \in Hash |-> 0]

Reach(h, s) == chain' = [chain EXCEPT ![h] = @ \cup {s}]

(* A height is finalized once, and nothing is proposed for it afterwards. *)
HeightOpen(n) ==
  \A g \in Hash : NumberOf[g] = n => "Finalized" \notin chain[g]

(* The event reaches the forwarder, or the reader misses it. *)
Delivered(handled) ==
  \/ handled /\ UNCHANGED missed
  \/ /\ missed < MaxMissed /\ missed' = missed + 1
     /\ Silent /\ UNCHANGED <<tracker, currentBlock>>

ChainStart(h, t) ==
  /\ executing = {} /\ chain[h] = {} /\ HeightOpen(NumberOf[h])
  /\ executing' = {h} /\ Reach(h, "Proposed") /\ UNCHANGED <<ran, txnsRun>>
  /\ Delivered(BlockStart(h, t))

ChainTxn(h) ==
  /\ executing = {h} /\ txnsRun[h] < MaxTxns
  /\ txnsRun' = [txnsRun EXCEPT ![h] = @ + 1]
  /\ UNCHANGED <<executing, chain, ran>>
  /\ Delivered(TxnHeaderStart)

ChainEnd(h) ==
  /\ executing = {h}
  /\ executing' = {} /\ ran' = ran \cup {h} /\ UNCHANGED <<chain, txnsRun>>
  /\ Delivered(BlockEnd)

ChainReject(h, t) ==
  /\ executing = {h} /\ chain[h] \cap {"Voted", "Finalized"} = {}
  /\ executing' = {} /\ Reach(h, "Rejected") /\ UNCHANGED <<ran, txnsRun>>
  /\ Delivered(BlockReject(t))

ChainQC(h, t) ==
  /\ chain[h] = {"Proposed"}
  /\ Reach(h, "Voted") /\ UNCHANGED <<executing, ran, txnsRun>>
  /\ Delivered(BlockQC(h, t))

ChainFinalize(h, t) ==
  /\ chain[h] = {"Proposed", "Voted"} /\ h \in ran
  /\ HeightOpen(NumberOf[h])
  /\ Reach(h, "Finalized") /\ UNCHANGED <<executing, ran, txnsRun>>
  /\ Delivered(BlockFinalized(h, t))

ChainVerify(h, t) ==
  /\ "Finalized" \in chain[h] /\ "Verified" \notin chain[h]
  /\ Reach(h, "Verified") /\ UNCHANGED <<executing, ran, txnsRun>>
  /\ Delivered(BlockVerified(NumberOf[h], t))

ChainNext ==
  \E h \in Hash :
     \/ ChainTxn(h) \/ ChainEnd(h)
     \/ \E t \in Time : \/ ChainStart(h, t) \/ ChainReject(h, t)
                         \/ ChainQC(h, t) \/ ChainFinalize(h, t)
                         \/ ChainVerify(h, t)

ChainSpec == ChainInit /\ [][ChainNext]_allVars
----------------------------------------------------------------------------
NothingMissed == missed = 0
NoCompetition ==
  \A g, h \in Hash : g # h /\ NumberOf[g] = NumberOf[h]
                       => chain[g] = {} \/ chain[h] = {}

(* Voted and Finalized are published of the right block also when blocks   *)
(* compete for a height, because their events carry the block id; and also *)
(* when events are missed, as long as no blocks compete.  The by-number    *)
(* fallback must not move a sibling.                                       *)
FinalityIsTrue ==
  NothingMissed \/ NoCompetition =>
    \A h \in Hash : published[h] \in {"Voted", "Finalized"}
                       => published[h] \in chain[h]

(* With nothing missed and no competition, the published stage is the      *)
(* furthest stage the block reached: no transition is lost to the          *)
(* monotonic check, to the fallback or to the eviction of the index, and   *)
(* no block is moved by the event of another.                              *)
PublishedIsCurrent ==
  NothingMissed /\ NoCompetition =>
    \A h \in Hash :
      IF chain[h] = {} THEN published[h] = Unknown
      ELSE published[h] \in chain[h]
           /\ \A s \in chain[h] : Ord[s] =< Ord[published[h]]

(* txn_count, attributed through current_block_number and the index, then  *)
(* counts the transactions of the block it is published with.              *)
TxnsOfTheirBlock ==
  NothingMissed /\ NoCompetition =>
    /\ \A h \in DOMAIN active : active[h].txns = txnsRun[h]
    /\ \A i \in 1..Len(completed) :
          completed[i].txns = txnsRun[completed[i].hash]

(* Without competition every active block is reached through its number,   *)
(* as BlockEnd, BlockVerified, BlockReject and commit_stage need, and      *)
(* whatever is evicted.                                                    *)
ActiveReachable ==
  NoCompetition => \A h \in DOMAIN active : Target(Zero, NumberOf[h]) = {h}

(* A reader of the tracker by number is told the stage last published for  *)
(* the block that the index names, whether it is active or completed.      *)
ReadersSeePublished ==
  \A n \in DOMAIN numberToHash :
     CurrentStageByNumber(n) = {published[numberToHash[n]]}
----------------------------------------------------------------------------
(* block_lifecycle.rs: "Primary key is block_hash (B256) for reorg safety" *)
(* - with every event received, a block is never published at a stage the  *)
(* chain did not give to it.                                               *)
NoMisattribution ==
  NothingMissed =>
    \A h \in Hash : published[h] # Unknown => published[h] \in chain[h]
=============================================================================
