--------------------------- MODULE BlockLifecycle ---------------------------
(***************************************************************************)
(* The block lifecycle tracker (block_lifecycle.rs, BlockLifecycleTracker) *)
(* driven by the lifecycle part of the event forwarder (server.rs,         *)
(* run_event_forwarder).  One action per execution event that reaches the  *)
(* tracker; each runs under the tracker's write lock, so it is atomic for  *)
(* the REST handlers and the sessions that read the tracker.               *)
(*                                                                         *)
(* Events come in any order with any content: the tracker has to cope with *)
(* proposals that compete for a block number, events it missed the start   *)
(* of, and blocks proposed again.  ChainTracking restricts the stream to   *)
(* what a chain does.                                                      *)
(***************************************************************************)
EXTENDS BlockStage, Sequences, FiniteSets, FiniteSetsExt

CONSTANTS
  Hash,          \* block ids
  Zero,          \* B256::ZERO, passed when an event carries no block id
  Number,        \* block numbers
  NumberOf,      \* the number each block id was proposed for
  MaxCompleted,  \* max_completed (128)
  Time,          \* event timestamps
  MaxTxns        \* bound: transactions recorded per block

ASSUME LifecycleAssumption ==
  /\ Zero \notin Hash
  /\ Number \subseteq Nat
  /\ NumberOf \in [Hash -> Number]
  /\ MaxCompleted \in Nat
  /\ Time \subseteq Nat
  /\ MaxTxns \in Nat

VARIABLES
  active,        \* active_blocks: block id -> lifecycle
  numberToHash,  \* number_to_hash: block number -> block id
  completed,     \* completed_blocks, oldest first
  currentBlock,  \* current_block_number of the forwarder (0 at start)
  update,        \* Option<BlockLifecycleUpdate> the last event produced
  published,     \* history: last to_stage published per block id
  stageTime      \* history: sum of the published time_in_previous_stage

tracker == <<active, numberToHash, completed>>
vars == <<active, numberToHash, completed, currentBlock, update, published,
          stageTime>>
----------------------------------------------------------------------------
(* Maps with a variable domain (HashMap): insert, remove, optional get.    *)

Put(f, k, v) == [x \in DOMAIN f \cup {k} |-> IF x = k THEN v ELSE f[x]]
Remove(f, k) == [x \in DOMAIN f \ {k} |-> f[x]]

(* An Option is the empty set or a singleton. *)
Resolve(n) == {numberToHash[x] : x \in {n} \cap DOMAIN numberToHash}

(* Faulty variant: the block id is ignored. *)
TargetByNumber(h, n) == Resolve(n) \cap DOMAIN active

(* The block a (hash, number) pair designates, if it is active. *)
Target(h, n) == (IF h \in DOMAIN active THEN {h} ELSE Resolve(n))
                  \cap DOMAIN active
----------------------------------------------------------------------------
NewLifecycle(h, t) ==
  [hash |-> h, stage |-> "Proposed", ts |-> Put(<<>>, "Proposed", t),
   txns |-> 0, executed |-> FALSE]

(* Time from entering s to the earliest later stage, rejection excluded. *)
DurationInStage(lc, s) ==
  LET later == {lc.ts[x] : x \in {y \in DOMAIN lc.ts \ {"Rejected"} :
                                    Ord[y] > Ord[s]}}
  IN  IF later = {} THEN {} ELSE {Min(later) - lc.ts[s]}

TotalAge(lc) == lc.ts[lc.stage] - lc.ts["Proposed"]

(* The update is returned to the forwarder, which broadcasts it. *)
Emit(h, from, to, inPrev, age) ==
  /\ update' = {[hash |-> h, from |-> from, to |-> to,
                 inPrev |-> inPrev, age |-> age]}
  /\ published' = [published EXCEPT ![h] = to]
  /\ stageTime' = [stageTime EXCEPT ![h] =
                     IF from = {} THEN 0
                     ELSE IF inPrev = {} THEN @
                     ELSE @ + CHOOSE d \in inPrev : TRUE]

Silent == update' = {} /\ UNCHANGED <<published, stageTime>>
----------------------------------------------------------------------------
(* Faulty variants: an entry of the same id is kept; the index forgets the *)
(* parent's number.                                                        *)
OnBlockProposedKeeps(h, t) ==
  /\ active' = IF h \in DOMAIN active THEN active
                ELSE Put(active, h, NewLifecycle(h, t))
  /\ numberToHash' = Put(numberToHash, NumberOf[h], h)
  /\ Emit(h, {}, "Proposed", {}, 0)
  /\ UNCHANGED completed
OnBlockProposedForgets(h, t) ==
  /\ active' = Put(active, h, NewLifecycle(h, t))
  /\ numberToHash' = Put(Remove(numberToHash, NumberOf[h] - 1), NumberOf[h], h)
  /\ Emit(h, {}, "Proposed", {}, 0)
  /\ UNCHANGED completed

OnBlockProposed(h, t) ==
  /\ active' = Put(active, h, NewLifecycle(h, t))
  /\ numberToHash' = Put(numberToHash, NumberOf[h], h)
  /\ Emit(h, {}, "Proposed", {}, 0)
  /\ UNCHANGED completed

(* Metadata only: no stage moves and nothing is published. *)
OnExecutionEnd(n) ==
  /\ active' = [h \in DOMAIN active |->
                  IF h \in Resolve(n) THEN [active[h] EXCEPT !.executed = TRUE]
                                      ELSE active[h]]
  /\ UNCHANGED <<numberToHash, completed>>

RecordTxn(n) ==
  /\ active' = [h \in DOMAIN active |->
                  IF h \in Resolve(n) THEN [active[h] EXCEPT !.txns = @ + 1]
                                      ELSE active[h]]
  /\ UNCHANGED <<numberToHash, completed>>

(* Faulty variants: the queue is never popped; the index entry stays. *)
RetireUnbounded(h, lc) ==
  /\ active' = Remove(active, h) /\ completed' = Append(completed, lc)
  /\ UNCHANGED numberToHash
RetireKeepsNumber(h, lc) ==
  LET queue == Append(completed, lc) IN
  /\ active' = Remove(active, h) /\ UNCHANGED numberToHash
  /\ completed' = IF Len(queue) > MaxCompleted THEN Tail(queue) ELSE queue

(* A terminal block moves to the completed queue.  The queue grew by one,  *)
(* so at most one entry is popped, and its number leaves the index.        *)
Retire(h, lc) ==
  LET queue == Append(completed, lc) IN
  /\ active' = Remove(active, h)
  /\ IF Len(queue) > MaxCompleted
       THEN /\ completed' = Tail(queue)
            /\ numberToHash' = Remove(numberToHash, NumberOf[Head(queue).hash])
       ELSE completed' = queue /\ UNCHANGED numberToHash

(* Faulty variant: the time in the stage is taken before the new stage is  *)
(* stamped.                                                                *)
TransitionEarly(h, s, t) ==
  LET lc == [active[h] EXCEPT !.stage = s, !.ts = Put(@, s, t)] IN
  /\ Emit(h, {active[h].stage}, s,
          DurationInStage(active[h], active[h].stage), TotalAge(lc))
  /\ IF IsTerminal(s)
       THEN Retire(h, lc)
       ELSE active' = [active EXCEPT ![h] = lc]
            /\ UNCHANGED <<numberToHash, completed>>

Transition(h, s, t) ==
  LET lc == [active[h] EXCEPT !.stage = s, !.ts = Put(@, s, t)] IN
  /\ Emit(h, {active[h].stage}, s,
          DurationInStage(lc, active[h].stage), TotalAge(lc))
  /\ IF IsTerminal(s)
       THEN Retire(h, lc)
       ELSE active' = [active EXCEPT ![h] = lc]
            /\ UNCHANGED <<numberToHash, completed>>

AdvanceStage(h, n, s, t) ==
  \/ \E b \in Target(h, n) : /\ CanTransitionTo(active[b].stage, s)
                             /\ Transition(b, s, t)
  \/ /\ \A b \in Target(h, n) : ~CanTransitionTo(active[b].stage, s)
     /\ Silent /\ UNCHANGED tracker
----------------------------------------------------------------------------
(* The forwarder's lifecycle switch, one action per event. *)

Init ==
  /\ active = <<>> /\ numberToHash = <<>> /\ completed = <<>>
  /\ currentBlock = 0
  /\ update = {}
  /\ published = [h \in Hash |-> Unknown]
  /\ stageTime = [h \in Hash |-> 0]

(* Faulty variant: current_block_number is not updated. *)
BlockStartStale(h, t) == OnBlockProposed(h, t) /\ UNCHANGED currentBlock

BlockStart(h, t) == OnBlockProposed(h, t) /\ currentBlock' = NumberOf[h]

BlockEnd == OnExecutionEnd(currentBlock) /\ Silent /\ UNCHANGED currentBlock

TxnHeaderStart ==
  /\ \A h \in Target(Zero, currentBlock) : active[h].txns < MaxTxns
  /\ RecordTxn(currentBlock) /\ Silent /\ UNCHANGED currentBlock

BlockQC(h, t) == AdvanceStage(h, NumberOf[h], "Voted", t)
                   /\ UNCHANGED currentBlock

BlockFinalized(h, t) == AdvanceStage(h, NumberOf[h], "Finalized", t)
                          /\ UNCHANGED currentBlock

(* Faulty variant: every block number that is seen becomes the current one. *)
BlockVerifiedMoves(n, t) ==
  AdvanceStage(Zero, n, "Verified", t) /\ currentBlock' = n

(* The event carries a block number and no block id. *)
BlockVerified(n, t) == AdvanceStage(Zero, n, "Verified", t)
                         /\ UNCHANGED currentBlock

(* The event carries neither. *)
BlockReject(t) == AdvanceStage(Zero, currentBlock, "Rejected", t)
                    /\ UNCHANGED currentBlock

Next ==
  \/ BlockEnd \/ TxnHeaderStart
  \/ \E t \in Time : BlockReject(t)
  \/ \E n \in Number, t \in Time : BlockVerified(n, t)
  \/ \E h \in Hash, t \in Time :
       BlockStart(h, t) \/ BlockQC(h, t) \/ BlockFinalized(h, t)

Spec == Init /\ [][Next]_vars
----------------------------------------------------------------------------
(* What the readers of the tracker get. *)

(* Faulty variant: the completed queue is not searched. *)
CurrentStageActive(h) ==
  IF h \in DOMAIN active THEN {active[h].stage} ELSE {}

(* current_stage: active first, then the first completed entry. *)
CurrentStage(h) ==
  LET done == {i \in 1..Len(completed) : completed[i].hash = h}
  IN  IF h \in DOMAIN active THEN {active[h].stage}
      ELSE IF done = {} THEN {} ELSE {completed[Min(done)].stage}

CurrentStageByNumber(n) == UNION {CurrentStage(h) : h \in Resolve(n)}

(* get_active_updates, what a client that connects is shown. *)
ActiveUpdates ==
  {[hash |-> h, to |-> active[h].stage, age |-> TotalAge(active[h])] :
     h \in DOMAIN active}
----------------------------------------------------------------------------
Lifecycle == [hash : Hash, stage : Stages,
              ts : UNION {[S -> Time] : S \in SUBSET Stages},
              txns : Nat, executed : BOOLEAN]

Updates == [hash : Hash, from : SUBSET Stages, to : Stages,
            inPrev : SUBSET Int, age : Int]

(* The type invariant.  numberToHash maps a number only to a block that    *)
(* was proposed for it, active is keyed by the block's own id, and the     *)
(* completed queue stays within its capacity.                              *)
TypeOK ==
  /\ DOMAIN active \subseteq Hash
  /\ \A h \in DOMAIN active : active[h] \in Lifecycle /\ active[h].hash = h
  /\ active = [h \in DOMAIN active |-> active[h]]
  /\ DOMAIN numberToHash \subseteq Number
  /\ numberToHash = [n \in DOMAIN numberToHash |-> numberToHash[n]]
  /\ \A n \in DOMAIN numberToHash : /\ numberToHash[n] \in Hash
                                    /\ NumberOf[numberToHash[n]] = n
  /\ completed \in Seq(Lifecycle) /\ Len(completed) =< MaxCompleted
  /\ currentBlock \in Number \cup {0}
  /\ update \in SUBSET Updates
  /\ published \in [Hash -> Stages \cup {Unknown}]
  /\ stageTime \in [Hash -> Int]

(* No dangling index entry: a number in number_to_hash always leads to a   *)
(* block that is still held, active or completed, so a reader by number    *)
(* (REST, commit_stage tagging) never gets "unknown" for an indexed number *)
(* and the index cannot outgrow the blocks that are held.                  *)
IndexSound ==
  \A n \in DOMAIN numberToHash :
     \/ numberToHash[n] \in DOMAIN active
     \/ \E i \in 1..Len(completed) : completed[i].hash = numberToHash[n]

(* A client that folds the published updates knows the tracker: the last   *)
(* update of a held open block is its stage, and a block whose last update *)
(* was not terminal has not been dropped behind the client's back.         *)
FeedMatchesTracker ==
  \A h \in Hash :
     IF h \in DOMAIN active
       THEN published[h] = active[h].stage
       ELSE published[h] = Unknown \/ IsTerminal(published[h])

(* The time_in_previous_stage_ms values published for a block add up to    *)
(* the block_age_ms of its latest update and of the snapshot a client gets *)
(* on connect, also when stages are skipped.  (A rejection publishes no    *)
(* time in stage, so it is excluded.)                                      *)
AgeIsSumOfStages ==
  \A u \in update \cup ActiveUpdates :
     u.to # "Rejected" => stageTime[u.hash] = u.age

(* The feed implements the abstract one: per block, strictly forward until *)
(* terminal, reopened by nothing but a BlockStart of the same block id.    *)
Feed == INSTANCE CommitStages WITH stage <- published
ImplementsCommitStages == Feed!Spec
=============================================================================
