----------------------- MODULE BlockLifecycle_proofs ------------------------
(***************************************************************************)
(* For any set of blocks, any assignment of numbers to them, any capacity  *)
(* of the completed queue and any stream of events: the tracker is well    *)
(* formed, its index is sound, its feed tells its state, the published     *)
(* times add up, and the feed implements CommitStages.                     *)
(*                                                                         *)
(* All of it rests on one inductive invariant, IInv.                       *)
(***************************************************************************)
EXTENDS BlockLifecycle, TLAPS

(* What the stages and timestamps of an open block look like: it is not    *)
(* terminal, it was stamped when it was proposed and when it entered its   *)
(* stage, no stage beyond its own was stamped, and the times published for *)
(* it so far cover its age.                                                *)
OpenBlocks ==
  \A h \in DOMAIN active :
    /\ ~IsTerminal(active[h].stage)
    /\ {"Proposed", active[h].stage} \subseteq DOMAIN active[h].ts
    /\ \A s \in DOMAIN active[h].ts : Ord[s] =< Ord[active[h].stage]
    /\ stageTime[h] = TotalAge(active[h])

IInv ==
  TypeOK /\ IndexSound /\ FeedMatchesTracker /\ OpenBlocks /\ AgeIsSumOfStages
----------------------------------------------------------------------------
(* Lemmas about the maps and about single lifecycles. *)

Timestamps == UNION {[S -> Time] : S \in SUBSET Stages}

LEMMA PutTimestamp ==
  ASSUME NEW ts \in Timestamps, NEW s \in Stages, NEW t \in Time
  PROVE  Put(ts, s, t) \in Timestamps
<1>1. PICK S \in SUBSET Stages : ts \in [S -> Time]
  BY DEF Timestamps
<1>2. Put(ts, s, t) \in [S \cup {s} -> Time]
  BY <1>1 DEF Put
<1>3. S \cup {s} \in SUBSET Stages
  OBVIOUS
<1> QED
  BY <1>2, <1>3 DEF Timestamps

LEMMA TimeIsInt == \A t \in Time : t \in Nat /\ t \in Int
BY LifecycleAssumption

LEMMA TimestampIsInt ==
  ASSUME NEW ts \in Timestamps, NEW s \in DOMAIN ts
  PROVE  s \in Stages /\ ts[s] \in Time /\ ts[s] \in Int
<1>1. PICK S \in SUBSET Stages : ts \in [S -> Time]
  BY DEF Timestamps
<1>2. DOMAIN ts = S /\ S \subseteq Stages
  BY <1>1
<1>3. ts[s] \in Time
  BY <1>1, <1>2
<1> QED
  BY <1>2, <1>3, TimeIsInt

LEMMA LifecycleFields ==
  /\ Lifecycle = [hash : Hash, stage : Stages, ts : Timestamps,
                  txns : Nat, executed : BOOLEAN]
BY DEF Lifecycle, Timestamps

LEMMA NewLifecycleFields ==
  ASSUME NEW h \in Hash, NEW t \in Time
  PROVE  LET lc == NewLifecycle(h, t) IN
         /\ lc \in Lifecycle
         /\ lc.hash = h /\ lc.stage = "Proposed"
         /\ DOMAIN lc.ts = {"Proposed"}
         /\ TotalAge(lc) = 0
<1> DEFINE ts == Put(<<>>, "Proposed", t)
<1>1. <<>> \in Timestamps
  BY DEF Timestamps
<1>2. "Proposed" \in Stages
  BY DEF Stages
<1>3. ts \in Timestamps
  BY <1>1, <1>2, PutTimestamp
<1>4. DOMAIN ts = {"Proposed"} /\ ts["Proposed"] = t
  <2>1. DOMAIN <<>> = {}
    OBVIOUS
  <2> QED
    BY <2>1 DEF Put
<1>5. t \in Int
  BY LifecycleAssumption
<1> HIDE DEF ts
<1>6. NewLifecycle(h, t) = [hash |-> h, stage |-> "Proposed", ts |-> ts,
                            txns |-> 0, executed |-> FALSE]
  BY DEF NewLifecycle, ts
<1> QED
  BY <1>2, <1>3, <1>4, <1>5, <1>6, LifecycleFields DEF TotalAge
----------------------------------------------------------------------------
Advanced(b, s, t) == [active[b] EXCEPT !.stage = s, !.ts = Put(@, s, t)]

(* What a legal transition makes of an open block: exactly one new time    *)
(* stamp, later in the order than all it had, so the time published for    *)
(* the stage that ends runs up to it.                                      *)
LEMMA AdvancedFields ==
  ASSUME TypeOK, OpenBlocks, NEW b \in DOMAIN active, NEW s \in Stages,
         NEW t \in Time, CanTransitionTo(active[b].stage, s)
  PROVE  LET lc == Advanced(b, s, t) IN
         /\ lc \in Lifecycle /\ lc.hash = b /\ lc.stage = s
         /\ Ord[s] > Ord[active[b].stage]
         /\ {"Proposed", s} \subseteq DOMAIN lc.ts
         /\ \A x \in DOMAIN lc.ts : Ord[x] =< Ord[s]
         /\ TotalAge(lc) \in Int
         /\ DurationInStage(lc, active[b].stage) \in SUBSET Int
         /\ IF s = "Rejected"
              THEN DurationInStage(lc, active[b].stage) = {}
              ELSE DurationInStage(lc, active[b].stage)
                     = {TotalAge(lc) - TotalAge(active[b])}
<1> DEFINE old == active[b]
           from == old.stage
           lc == Advanced(b, s, t)
           later == {y \in DOMAIN lc.ts \ {"Rejected"} : Ord[y] > Ord[from]}
<1>1. /\ b \in Hash /\ old \in Lifecycle /\ old.hash = b
      /\ from \in Stages /\ old.ts \in Timestamps
  BY LifecycleFields DEF TypeOK
<1>2. /\ ~IsTerminal(from) /\ {"Proposed", from} \subseteq DOMAIN old.ts
      /\ \A x \in DOMAIN old.ts : x \in Stages /\ Ord[x] =< Ord[from]
  BY <1>1, TimestampIsInt DEF OpenBlocks
<1>3. Ord[s] > Ord[from] /\ s # "Proposed"
  BY <1>1, <1>2 DEF CanTransitionTo, IsTerminal, Ord, Stages
<1>4. s \notin DOMAIN old.ts
  BY <1>1, <1>2, <1>3 DEF Ord, Stages
<1>5. lc = [old EXCEPT !.stage = s, !.ts = Put(old.ts, s, t)]
  BY DEF Advanced
<1> HIDE DEF lc, old, from
<1>6. /\ lc \in Lifecycle /\ lc.hash = b /\ lc.stage = s
      /\ lc.ts = Put(old.ts, s, t)
  <2>1. Put(old.ts, s, t) \in Timestamps
    BY <1>1, PutTimestamp
  <2> DEFINE ts == Put(old.ts, s, t)
  <2> HIDE DEF ts
  <2>2. lc = [old EXCEPT !.stage = s, !.ts = ts]
    BY <1>5 DEF ts
  <2> QED
    BY <1>1, <2>1, <2>2, LifecycleFields DEF ts
<1>7. /\ DOMAIN lc.ts = DOMAIN old.ts \cup {s} /\ lc.ts[s] = t
      /\ lc.ts["Proposed"] = old.ts["Proposed"]
      /\ lc.ts[from] = old.ts[from]
  <2> DEFINE ts == Put(old.ts, s, t)
  <2>1. /\ DOMAIN ts = DOMAIN old.ts \cup {s} /\ ts[s] = t
        /\ \A x \in DOMAIN old.ts : x # s => ts[x] = old.ts[x]
    BY DEF Put
  <2> HIDE DEF ts
  <2> QED
    BY <1>2, <1>4, <1>6, <2>1 DEF ts
<1>8. t \in Int /\ old.ts["Proposed"] \in Int /\ old.ts[from] \in Int
  BY <1>1, <1>2, TimestampIsInt, TimeIsInt
<1>9. TotalAge(lc) = t - old.ts["Proposed"]
  BY <1>6, <1>7 DEF TotalAge
<1>10. TotalAge(old) = old.ts[from] - old.ts["Proposed"]
  BY DEF TotalAge, from
<1>11. later = IF s = "Rejected" THEN {} ELSE {s}
  <2>1. \A y \in DOMAIN old.ts : ~(Ord[y] > Ord[from])
    BY <1>1, <1>2 DEF Ord, Stages
  <2> QED
    BY <2>1, <1>3, <1>7
<1>12. DurationInStage(lc, from)
         = IF s = "Rejected" THEN {} ELSE {t - old.ts[from]}
  <2>1. CASE s = "Rejected"
    <3>1. {lc.ts[x] : x \in later} = {}
      BY <1>11, <2>1
    <3> QED
      BY <2>1, <3>1 DEF DurationInStage
  <2>2. CASE s # "Rejected"
    <3>1. {lc.ts[x] : x \in later} = {t}
      BY <1>7, <1>11, <2>2
    <3>2. Min({t}) = t
      BY <1>8 DEF Min
    <3> QED
      BY <1>7, <2>2, <3>1, <3>2 DEF DurationInStage
  <2> QED
    BY <2>1, <2>2
<1>13. \A x \in DOMAIN lc.ts : Ord[x] =< Ord[s]
  <2>1. Ord[s] \in Int /\ Ord[from] \in Int
        /\ \A x \in Stages : Ord[x] \in Int
    BY <1>1 DEF Ord, Stages
  <2>2. ASSUME NEW x \in DOMAIN old.ts PROVE Ord[x] =< Ord[s]
    <3>1. x \in Stages /\ Ord[x] =< Ord[from]
      BY <1>2
    <3> QED
      BY <2>1, <3>1, <1>3
  <2>3. Ord[s] =< Ord[s]
    BY <2>1
  <2> QED
    BY <2>2, <2>3, <1>7
<1>14. t - old.ts[from] = TotalAge(lc) - TotalAge(old)
  BY <1>8, <1>9, <1>10
<1>15. TotalAge(lc) \in Int /\ t - old.ts[from] \in Int
  BY <1>8, <1>9
<1>16. {"Proposed", s} \subseteq DOMAIN lc.ts
  BY <1>2, <1>7
<1> QED
  BY <1>3, <1>6, <1>12, <1>13, <1>14, <1>15, <1>16 DEF lc, old, from
----------------------------------------------------------------------------
(* Retiring a block keeps the index sound: the entry that is popped takes  *)
(* its own number out of the index and no other.                           *)
LEMMA RetireKeepsIndex ==
  ASSUME TypeOK, IndexSound, NEW b \in DOMAIN active, NEW lc \in Lifecycle,
         lc.hash = b, Retire(b, lc)
  PROVE  /\ active' = [h \in DOMAIN active \ {b} |-> active[h]]
         /\ DOMAIN numberToHash' \subseteq DOMAIN numberToHash
         /\ numberToHash' = [n \in DOMAIN numberToHash' |-> numberToHash[n]]
         /\ completed' \in Seq(Lifecycle) /\ Len(completed') =< MaxCompleted
         /\ IndexSound'
<1> DEFINE queue == Append(completed, lc)
<1>1. /\ completed \in Seq(Lifecycle) /\ Len(completed) \in Nat
      /\ Len(completed) =< MaxCompleted /\ MaxCompleted \in Nat
  BY LifecycleAssumption DEF TypeOK
<1>2. /\ queue \in Seq(Lifecycle) /\ Len(queue) = Len(completed) + 1
      /\ queue[Len(completed) + 1] = lc
      /\ \A i \in 1..Len(completed) : queue[i] = completed[i]
  BY <1>1
<1>3. Head(queue) = queue[1] /\ queue # <<>>
  BY <1>1, <1>2
<1> HIDE DEF queue
<1>4. /\ active' = [h \in DOMAIN active \ {b} |-> active[h]]
      /\ IF Len(queue) > MaxCompleted
           THEN /\ completed' = Tail(queue)
                /\ numberToHash' = Remove(numberToHash, NumberOf[queue[1].hash])
           ELSE completed' = queue /\ UNCHANGED numberToHash
  BY <1>3 DEF Retire, Remove, queue
<1>5. ASSUME NEW n \in DOMAIN numberToHash, numberToHash[n] \notin DOMAIN active'
      PROVE  \E i \in 1..Len(queue) : queue[i].hash = numberToHash[n]
  <2>1. CASE numberToHash[n] = b
    BY <1>1, <1>2, <2>1
  <2>2. CASE numberToHash[n] # b
    <3>1. numberToHash[n] \notin DOMAIN active
      BY <1>4, <1>5, <2>2
    <3>2. PICK i \in 1..Len(completed) : completed[i].hash = numberToHash[n]
      BY <3>1 DEF IndexSound
    <3> QED
      BY <1>1, <1>2, <3>2
  <2> QED
    BY <2>1, <2>2
<1>6. CASE Len(queue) > MaxCompleted
  <2>1. /\ completed' = Tail(queue)
        /\ DOMAIN numberToHash' = DOMAIN numberToHash \ {NumberOf[queue[1].hash]}
        /\ numberToHash' = [n \in DOMAIN numberToHash' |-> numberToHash[n]]
    BY <1>4, <1>6 DEF Remove
  <2>2. /\ completed' \in Seq(Lifecycle) /\ Len(completed') = Len(completed)
        /\ \A i \in 1..Len(completed') : completed'[i] = queue[i + 1]
    BY <1>1, <1>2, <1>3, <2>1
  <2>3. ASSUME NEW n \in DOMAIN numberToHash',
               numberToHash'[n] \notin DOMAIN active'
        PROVE  \E i \in 1..Len(completed') : completed'[i].hash = numberToHash'[n]
    <3>1. n \in DOMAIN numberToHash /\ numberToHash'[n] = numberToHash[n]
      BY <2>1
    <3>2. PICK i \in 1..Len(queue) : queue[i].hash = numberToHash[n]
      BY <1>5, <2>3, <3>1
    <3>3. i # 1
      <4>1. NumberOf[numberToHash[n]] = n
        BY <3>1 DEF TypeOK
      <4> QED
        BY <2>1, <3>2, <4>1
    <3>4. i - 1 \in 1..Len(completed') /\ completed'[i - 1] = queue[i]
      BY <1>1, <1>2, <2>2, <3>2, <3>3
    <3> QED
      BY <3>1, <3>2, <3>4
  <2>4. IndexSound'
    BY <2>3 DEF IndexSound
  <2> QED
    BY <1>1, <1>4, <2>1, <2>2, <2>4
<1>7. CASE ~(Len(queue) > MaxCompleted)
  <2>1. completed' = queue /\ numberToHash' = numberToHash
    BY <1>4, <1>7
  <2>2. IndexSound'
    BY <1>5, <2>1 DEF IndexSound
  <2>3. Len(completed') =< MaxCompleted
    BY <1>1, <1>2, <1>7, <2>1
  <2>4. numberToHash' = [n \in DOMAIN numberToHash' |-> numberToHash[n]]
    BY <2>1 DEF TypeOK
  <2> QED
    BY <1>2, <1>4, <2>1, <2>2, <2>3, <2>4
<1> QED
  BY <1>6, <1>7
----------------------------------------------------------------------------
(* The steps. *)

LEMMA InitIInv == Init => IInv
<1> SUFFICES ASSUME Init PROVE IInv
  OBVIOUS
<1>1. DOMAIN active = {} /\ DOMAIN numberToHash = {}
  BY DEF Init
<1>2. /\ active = [h \in DOMAIN active |-> active[h]]
      /\ numberToHash = [n \in DOMAIN numberToHash |-> numberToHash[n]]
  BY <1>1 DEF Init
<1>3. completed \in Seq(Lifecycle) /\ Len(completed) =< MaxCompleted
  BY LifecycleAssumption DEF Init
<1>4. TypeOK
  BY <1>1, <1>2, <1>3 DEF Init, TypeOK, Unknown
<1>5. IndexSound /\ FeedMatchesTracker /\ OpenBlocks
  BY <1>1 DEF Init, IndexSound, FeedMatchesTracker, OpenBlocks
<1>6. AgeIsSumOfStages
  BY <1>1 DEF Init, AgeIsSumOfStages, ActiveUpdates
<1> QED
  BY <1>4, <1>5, <1>6 DEF IInv

LEMMA StartStep ==
  ASSUME IInv, NEW h \in Hash, NEW t \in Time, BlockStart(h, t)
  PROVE  IInv' /\ Feed!Propose(h)
<1> DEFINE lc == NewLifecycle(h, t)
<1>1. /\ lc \in Lifecycle /\ lc.hash = h /\ lc.stage = "Proposed"
      /\ DOMAIN lc.ts = {"Proposed"} /\ TotalAge(lc) = 0
  BY NewLifecycleFields
<1> HIDE DEF lc
<1>2. /\ DOMAIN active' = DOMAIN active \cup {h}
      /\ active' = [g \in DOMAIN active' |-> IF g = h THEN lc ELSE active[g]]
      /\ DOMAIN numberToHash' = DOMAIN numberToHash \cup {NumberOf[h]}
      /\ numberToHash' = [n \in DOMAIN numberToHash' |->
                            IF n = NumberOf[h] THEN h ELSE numberToHash[n]]
      /\ completed' = completed /\ currentBlock' = NumberOf[h]
  BY DEF BlockStart, OnBlockProposed, Put, lc
<1>3. /\ update' = {[hash |-> h, from |-> {}, to |-> "Proposed",
                     inPrev |-> {}, age |-> 0]}
      /\ published' = [published EXCEPT ![h] = "Proposed"]
      /\ stageTime' = [stageTime EXCEPT ![h] = 0]
  BY DEF BlockStart, OnBlockProposed, Emit
<1>4. NumberOf[h] \in Number /\ "Proposed" \in Stages
  BY LifecycleAssumption DEF Stages
<1>5. TypeOK'
  <2>1. /\ DOMAIN active' \subseteq Hash
        /\ \A g \in DOMAIN active' : /\ active'[g] \in Lifecycle
                                     /\ active'[g].hash = g
    BY <1>1, <1>2 DEF IInv, TypeOK
  <2>2. active' = [g \in DOMAIN active' |-> active'[g]]
    BY <1>2
  <2>3. /\ DOMAIN numberToHash' \subseteq Number
        /\ \A n \in DOMAIN numberToHash' : /\ numberToHash'[n] \in Hash
                                          /\ NumberOf[numberToHash'[n]] = n
    BY <1>2, <1>4 DEF IInv, TypeOK
  <2>4. numberToHash' = [n \in DOMAIN numberToHash' |-> numberToHash'[n]]
    BY <1>2
  <2>5. update' \in SUBSET Updates
    BY <1>3, <1>4 DEF Updates
  <2>6. /\ completed' \in Seq(Lifecycle) /\ Len(completed') =< MaxCompleted
        /\ currentBlock' \in Number \cup {0}
        /\ published' \in [Hash -> Stages \cup {Unknown}]
        /\ stageTime' \in [Hash -> Int]
    BY <1>2, <1>3, <1>4 DEF IInv, TypeOK
  <2> QED
    BY <2>1, <2>2, <2>3, <2>4, <2>5, <2>6 DEF TypeOK
<1>6. IndexSound'
  BY <1>2 DEF IInv, IndexSound
<1>7. FeedMatchesTracker'
  BY <1>1, <1>2, <1>3 DEF IInv, TypeOK, FeedMatchesTracker
<1>8. OpenBlocks'
  <2> SUFFICES ASSUME NEW g \in DOMAIN active'
               PROVE  /\ ~IsTerminal(active'[g].stage)
                      /\ {"Proposed", active'[g].stage} \subseteq DOMAIN active'[g].ts
                      /\ \A s \in DOMAIN active'[g].ts :
                            Ord[s] =< Ord[active'[g].stage]
                      /\ stageTime'[g] = TotalAge(active'[g])
    BY DEF OpenBlocks, TotalAge
  <2>1. CASE g = h
    <3>1. stageTime'[g] = 0
      BY <1>3, <2>1 DEF IInv, TypeOK
    <3>2. active'[g] = lc
      BY <1>2, <2>1
    <3>3. Ord["Proposed"] =< Ord["Proposed"]
      BY DEF Ord
    <3> QED
      BY <1>1, <3>1, <3>2, <3>3 DEF IsTerminal
  <2>2. CASE g # h
    <3>1. g \in DOMAIN active /\ active'[g] = active[g]
      BY <1>2, <2>2
    <3>2. stageTime'[g] = stageTime[g]
      BY <1>3, <2>2, <3>1 DEF IInv, TypeOK
    <3> QED
      BY <3>1, <3>2 DEF IInv, OpenBlocks
  <2> QED
    BY <2>1, <2>2
<1>9. AgeIsSumOfStages'
  <2>1. \A u \in update' : u.to # "Rejected" => stageTime'[u.hash] = u.age
    BY <1>3 DEF IInv, TypeOK
  <2> QED
    BY <1>8, <2>1 DEF AgeIsSumOfStages, ActiveUpdates, OpenBlocks
<1>10. Feed!Propose(h)
  BY <1>3 DEF Feed!Propose
<1> QED
  BY <1>5, <1>6, <1>7, <1>8, <1>9, <1>10 DEF IInv

LEMMA MetadataFields ==
  ASSUME NEW lc \in Lifecycle,
         NEW new \in {lc, [lc EXCEPT !.executed = TRUE], [lc EXCEPT !.txns = @ + 1]}
  PROVE  /\ new \in Lifecycle
         /\ new.hash = lc.hash /\ new.stage = lc.stage /\ new.ts = lc.ts
<1>1. lc \in [hash : Hash, stage : Stages, ts : Timestamps,
              txns : Nat, executed : BOOLEAN]
  BY LifecycleFields
<1>2. CASE new = lc
  BY <1>2
<1>3. CASE new = [lc EXCEPT !.executed = TRUE]
  BY <1>1, <1>3, LifecycleFields
<1>4. CASE new = [lc EXCEPT !.txns = @ + 1]
  BY <1>1, <1>4, LifecycleFields
<1> QED
  BY <1>2, <1>3, <1>4

(* BlockEnd and TxnHeaderStart touch only the counters of a lifecycle. *)
LEMMA MetadataStep ==
  ASSUME IInv, BlockEnd \/ TxnHeaderStart
  PROVE  IInv' /\ UNCHANGED published
<1>1. /\ update' = {} /\ UNCHANGED <<published, stageTime, currentBlock>>
      /\ UNCHANGED <<numberToHash, completed>>
  BY DEF BlockEnd, TxnHeaderStart, OnExecutionEnd, RecordTxn, Silent
<1>2. \/ active' = [h \in DOMAIN active |->
                      IF h \in Resolve(currentBlock)
                        THEN [active[h] EXCEPT !.executed = TRUE] ELSE active[h]]
      \/ active' = [h \in DOMAIN active |->
                      IF h \in Resolve(currentBlock)
                        THEN [active[h] EXCEPT !.txns = @ + 1] ELSE active[h]]
  BY DEF BlockEnd, TxnHeaderStart, OnExecutionEnd, RecordTxn
<1>3. DOMAIN active' = DOMAIN active /\ active' = [h \in DOMAIN active' |-> active'[h]]
  BY <1>2
<1>4. ASSUME NEW h \in DOMAIN active
      PROVE  /\ h \in Hash /\ active'[h] \in Lifecycle
             /\ active'[h].hash = h
             /\ active'[h].stage = active[h].stage
             /\ active'[h].ts = active[h].ts
  <2>1. h \in Hash /\ active[h] \in Lifecycle /\ active[h].hash = h
    BY DEF IInv, TypeOK
  <2>2. \/ active'[h] = active[h]
        \/ active'[h] = [active[h] EXCEPT !.executed = TRUE]
        \/ active'[h] = [active[h] EXCEPT !.txns = @ + 1]
    BY <1>2
  <2> QED
    BY <2>1, <2>2, MetadataFields
<1>5. TypeOK'
  BY <1>1, <1>3, <1>4 DEF IInv, TypeOK
<1>6. IndexSound'
  BY <1>1, <1>3 DEF IInv, IndexSound
<1>7. FeedMatchesTracker'
  BY <1>1, <1>3, <1>4 DEF IInv, FeedMatchesTracker
<1>8. OpenBlocks'
  BY <1>1, <1>3, <1>4 DEF IInv, OpenBlocks, TotalAge
<1>9. AgeIsSumOfStages'
  BY <1>1, <1>8 DEF AgeIsSumOfStages, ActiveUpdates, OpenBlocks
<1> QED
  BY <1>1, <1>5, <1>6, <1>7, <1>8, <1>9 DEF IInv

(* The rejected or unknown event. *)
LEMMA SilentStep ==
  ASSUME IInv, Silent, UNCHANGED tracker, UNCHANGED currentBlock
  PROVE  IInv' /\ UNCHANGED published
<1>1. /\ update' = {}
      /\ UNCHANGED <<active, numberToHash, completed, currentBlock, published,
                     stageTime>>
  BY DEF Silent, tracker
<1>2. TypeOK'
  BY <1>1 DEF IInv, TypeOK
<1>3. IndexSound' /\ FeedMatchesTracker' /\ OpenBlocks'
  BY <1>1 DEF IInv, IndexSound, FeedMatchesTracker, OpenBlocks
<1>4. AgeIsSumOfStages'
  BY <1>1, <1>3 DEF AgeIsSumOfStages, ActiveUpdates, OpenBlocks
<1> QED
  BY <1>1, <1>2, <1>3, <1>4 DEF IInv

(* A legal transition: the block moves, and retires if it is over. *)
LEMMA TransitionStep ==
  ASSUME IInv, NEW b \in DOMAIN active, NEW s \in Stages, NEW t \in Time,
         CanTransitionTo(active[b].stage, s), Transition(b, s, t),
         UNCHANGED currentBlock
  PROVE  IInv' /\ Feed!Advance(b, s)
<1> DEFINE lc == Advanced(b, s, t)
           from == active[b].stage
           inPrev == DurationInStage(lc, from)
<1>1. /\ lc \in Lifecycle /\ lc.hash = b /\ lc.stage = s
      /\ Ord[s] > Ord[from]
      /\ {"Proposed", s} \subseteq DOMAIN lc.ts
      /\ \A x \in DOMAIN lc.ts : Ord[x] =< Ord[s]
      /\ TotalAge(lc) \in Int /\ inPrev \in SUBSET Int
      /\ IF s = "Rejected" THEN inPrev = {}
                          ELSE inPrev = {TotalAge(lc) - TotalAge(active[b])}
  BY AdvancedFields DEF IInv
<1>2. /\ Emit(b, {from}, s, inPrev, TotalAge(lc))
      /\ IF IsTerminal(s)
           THEN Retire(b, lc)
           ELSE active' = [active EXCEPT ![b] = lc]
                /\ UNCHANGED <<numberToHash, completed>>
  BY DEF Transition, Advanced
<1>3. /\ b \in Hash /\ from \in Stages /\ ~IsTerminal(from)
      /\ stageTime[b] = TotalAge(active[b]) /\ stageTime[b] \in Int
      /\ published[b] = from
  BY LifecycleFields DEF IInv, TypeOK, OpenBlocks, FeedMatchesTracker
<1> HIDE DEF lc, from, inPrev
<1>4. /\ update' = {[hash |-> b, from |-> {from}, to |-> s,
                     inPrev |-> inPrev, age |-> TotalAge(lc)]}
      /\ published' = [published EXCEPT ![b] = s]
  BY <1>2 DEF Emit
<1>5. /\ \A h \in Hash : h # b => stageTime'[h] = stageTime[h]
      /\ s # "Rejected" => stageTime'[b] = TotalAge(lc)
      /\ stageTime' \in [Hash -> Int]
  <2>1. stageTime' = [stageTime EXCEPT ![b] =
                        IF inPrev = {} THEN stageTime[b]
                        ELSE stageTime[b] + CHOOSE d \in inPrev : TRUE]
    BY <1>2 DEF Emit
  <2>2. stageTime \in [Hash -> Int]
    BY DEF IInv, TypeOK
  <2>3. CASE s = "Rejected"
    BY <1>1, <1>3, <2>1, <2>2, <2>3
  <2>4. CASE s # "Rejected"
    <3>1. inPrev = {TotalAge(lc) - TotalAge(active[b])}
      BY <1>1, <2>4
    <3>2. (CHOOSE d \in inPrev : TRUE) = TotalAge(lc) - TotalAge(active[b])
      BY <3>1
    <3>3. stageTime' = [stageTime EXCEPT ![b] =
                          stageTime[b] + (TotalAge(lc) - TotalAge(active[b]))]
      BY <2>1, <3>1, <3>2
    <3>4. stageTime[b] + (TotalAge(lc) - TotalAge(active[b])) = TotalAge(lc)
      BY <1>1, <1>3
    <3> QED
      BY <1>1, <1>3, <2>2, <3>3, <3>4
  <2> QED
    BY <2>3, <2>4
<1>6. /\ DOMAIN active' = IF IsTerminal(s) THEN DOMAIN active \ {b} ELSE DOMAIN active
      /\ active' = [h \in DOMAIN active' |-> active'[h]]
      /\ \A h \in DOMAIN active' : h \in DOMAIN active
            /\ active'[h] = IF h = b THEN lc ELSE active[h]
      /\ numberToHash' = [n \in DOMAIN numberToHash' |-> numberToHash[n]]
      /\ DOMAIN numberToHash' \subseteq DOMAIN numberToHash
      /\ completed' \in Seq(Lifecycle) /\ Len(completed') =< MaxCompleted
      /\ IndexSound'
  <2>1. CASE IsTerminal(s)
    <3>1. Retire(b, lc)
      BY <1>2, <2>1
    <3>2. /\ active' = [h \in DOMAIN active \ {b} |-> active[h]]
          /\ DOMAIN numberToHash' \subseteq DOMAIN numberToHash
          /\ numberToHash' = [n \in DOMAIN numberToHash' |-> numberToHash[n]]
          /\ completed' \in Seq(Lifecycle) /\ Len(completed') =< MaxCompleted
          /\ IndexSound'
      BY <1>1, <3>1, RetireKeepsIndex DEF IInv
    <3> QED
      BY <2>1, <3>2
  <2>2. CASE ~IsTerminal(s)
    <3>1. /\ active' = [active EXCEPT ![b] = lc]
          /\ numberToHash' = numberToHash /\ completed' = completed
      BY <1>2, <2>2
    <3>2. /\ DOMAIN active' = DOMAIN active
          /\ active' = [h \in DOMAIN active' |-> active'[h]]
          /\ \A h \in DOMAIN active' : active'[h] = IF h = b THEN lc ELSE active[h]
      BY <3>1 DEF IInv, TypeOK
    <3>3. IndexSound'
      BY <3>1, <3>2 DEF IInv, IndexSound
    <3>4. /\ numberToHash = [n \in DOMAIN numberToHash |-> numberToHash[n]]
          /\ completed \in Seq(Lifecycle) /\ Len(completed) =< MaxCompleted
      BY DEF IInv, TypeOK
    <3> QED
      BY <2>2, <3>1, <3>2, <3>3, <3>4
  <2> QED
    BY <2>1, <2>2
<1>7. TypeOK'
  <2>1. /\ DOMAIN active' \subseteq Hash
        /\ \A h \in DOMAIN active' : /\ active'[h] \in Lifecycle
                                     /\ active'[h].hash = h
    BY <1>1, <1>6 DEF IInv, TypeOK
  <2>2. /\ DOMAIN numberToHash' \subseteq Number
        /\ numberToHash' = [n \in DOMAIN numberToHash' |-> numberToHash'[n]]
        /\ \A n \in DOMAIN numberToHash' : /\ numberToHash'[n] \in Hash
                                          /\ NumberOf[numberToHash'[n]] = n
    BY <1>6 DEF IInv, TypeOK
  <2>3. update' \in SUBSET Updates
    BY <1>1, <1>3, <1>4 DEF Updates
  <2>4. /\ currentBlock' \in Number \cup {0}
        /\ published' \in [Hash -> Stages \cup {Unknown}]
    BY <1>3, <1>4 DEF IInv, TypeOK
  <2> QED
    BY <1>5, <1>6, <2>1, <2>2, <2>3, <2>4 DEF TypeOK
<1>8. FeedMatchesTracker'
  BY <1>1, <1>3, <1>4, <1>6 DEF IInv, TypeOK, FeedMatchesTracker
<1>9. OpenBlocks'
  <2> SUFFICES ASSUME NEW h \in DOMAIN active'
               PROVE  /\ ~IsTerminal(active'[h].stage)
                      /\ {"Proposed", active'[h].stage} \subseteq DOMAIN active'[h].ts
                      /\ \A x \in DOMAIN active'[h].ts :
                            Ord[x] =< Ord[active'[h].stage]
                      /\ stageTime'[h] = TotalAge(active'[h])
    BY DEF OpenBlocks, TotalAge
  <2>1. CASE h = b
    <3>1. ~IsTerminal(s) /\ active'[h] = lc
      BY <1>6, <2>1
    <3>2. s # "Rejected"
      BY <3>1 DEF IsTerminal
    <3> QED
      BY <1>1, <1>5, <2>1, <3>1, <3>2
  <2>2. CASE h # b
    <3>1. h \in DOMAIN active /\ active'[h] = active[h] /\ h \in Hash
      BY <1>6, <2>2 DEF IInv, TypeOK
    <3>2. stageTime'[h] = stageTime[h]
      BY <1>5, <2>2, <3>1
    <3> QED
      BY <3>1, <3>2 DEF IInv, OpenBlocks
  <2> QED
    BY <2>1, <2>2
<1>10. AgeIsSumOfStages'
  <2>1. \A u \in update' : u.to # "Rejected" => stageTime'[u.hash] = u.age
    BY <1>4, <1>5
  <2> QED
    BY <1>9, <2>1 DEF AgeIsSumOfStages, ActiveUpdates, OpenBlocks
<1>11. Feed!Advance(b, s)
  BY <1>1, <1>3, <1>4 DEF Feed!Advance, Feed!Stages, Feed!IsTerminal, Feed!Ord,
                          Stages, IsTerminal, Ord
<1> QED
  BY <1>6, <1>7, <1>8, <1>9, <1>10, <1>11 DEF IInv

LEMMA AdvanceStep ==
  ASSUME IInv, NEW h, NEW n, NEW s \in Stages, NEW t \in Time,
         AdvanceStage(h, n, s, t), UNCHANGED currentBlock
  PROVE  IInv' /\ (UNCHANGED published \/ \E b \in Hash : Feed!Advance(b, s))
<1>1. CASE \E b \in Target(h, n) : /\ CanTransitionTo(active[b].stage, s)
                                  /\ Transition(b, s, t)
  <2>1. PICK b \in DOMAIN active : /\ CanTransitionTo(active[b].stage, s)
                                  /\ Transition(b, s, t)
    BY <1>1 DEF Target
  <2>2. b \in Hash
    BY DEF IInv, TypeOK
  <2> QED
    BY <2>1, <2>2, TransitionStep
<1>2. CASE Silent /\ UNCHANGED tracker
  BY <1>2, SilentStep
<1> QED
  BY <1>1, <1>2 DEF AdvanceStage

LEMMA NextStep ==
  ASSUME IInv, [Next]_vars
  PROVE  IInv' /\ [Feed!Next]_published
<1>1. CASE BlockEnd \/ TxnHeaderStart
  BY <1>1, MetadataStep
<1>2. ASSUME NEW t \in Time, BlockReject(t)
      PROVE  IInv' /\ [Feed!Next]_published
  BY <1>2, AdvanceStep DEF BlockReject, Feed!Next, Feed!Stages, Stages
<1>3. ASSUME NEW n \in Number, NEW t \in Time, BlockVerified(n, t)
      PROVE  IInv' /\ [Feed!Next]_published
  BY <1>3, AdvanceStep DEF BlockVerified, Feed!Next, Feed!Stages, Stages
<1>4. ASSUME NEW h \in Hash, NEW t \in Time, BlockStart(h, t)
      PROVE  IInv' /\ [Feed!Next]_published
  BY <1>4, StartStep DEF Feed!Next
<1>5. ASSUME NEW h \in Hash, NEW t \in Time, BlockQC(h, t)
      PROVE  IInv' /\ [Feed!Next]_published
  BY <1>5, AdvanceStep DEF BlockQC, Feed!Next, Feed!Stages, Stages
<1>6. ASSUME NEW h \in Hash, NEW t \in Time, BlockFinalized(h, t)
      PROVE  IInv' /\ [Feed!Next]_published
  BY <1>6, AdvanceStep DEF BlockFinalized, Feed!Next, Feed!Stages, Stages
<1>7. CASE UNCHANGED vars
  <2>1. UNCHANGED <<active, numberToHash, completed, currentBlock, update,
                    published, stageTime>>
    BY <1>7 DEF vars
  <2>2. TypeOK'
    BY <2>1 DEF IInv, TypeOK
  <2>3. /\ IndexSound' /\ FeedMatchesTracker' /\ OpenBlocks'
        /\ AgeIsSumOfStages'
    BY <2>1 DEF IInv, IndexSound, FeedMatchesTracker, OpenBlocks,
                AgeIsSumOfStages, ActiveUpdates
  <2> QED
    BY <2>1, <2>2, <2>3 DEF IInv
<1> QED
  BY <1>1, <1>2, <1>3, <1>4, <1>5, <1>6, <1>7 DEF Next

LEMMA Inductive == Spec => []IInv
<1>1. IInv /\ [Next]_vars => IInv'
  BY NextStep
<1> QED
  BY InitIInv, <1>1, PTL DEF Spec
----------------------------------------------------------------------------
(* The tracker keeps the shape its readers rely on: an index entry names a *)
(* block proposed for that number, and the completed queue is bounded.     *)
THEOREM TypeCorrect == Spec => []TypeOK
<1>1. IInv => TypeOK
  BY DEF IInv
<1> QED
  BY Inductive, <1>1, PTL

(* Neither forks, nor blocks proposed again, nor eviction at any capacity  *)
(* leave an index entry without its block.                                 *)
THEOREM IndexIsSound == Spec => []IndexSound
<1>1. IInv => IndexSound
  BY DEF IInv
<1> QED
  BY Inductive, <1>1, PTL

(* Whatever events arrive, a client that folds the published updates knows *)
(* the stage of every open block.                                          *)
THEOREM FeedIsFaithful == Spec => []FeedMatchesTracker
<1>1. IInv => FeedMatchesTracker
  BY DEF IInv
<1> QED
  BY Inductive, <1>1, PTL

(* The published stage times of a block add up to its published age, also  *)
(* when stages are skipped and whatever the timestamps are.                *)
THEOREM AgesAddUp == Spec => []AgeIsSumOfStages
<1>1. IInv => AgeIsSumOfStages
  BY DEF IInv
<1> QED
  BY Inductive, <1>1, PTL

(* The published stage of a block only moves forward and never after it is *)
(* terminal, unless the same block is proposed again.                      *)
THEOREM FeedRefinesCommitStages == Spec => ImplementsCommitStages
<1>1. Init => Feed!Init
  BY DEF Init, Feed!Init, Unknown, Feed!Unknown
<1>2. IInv /\ [Next]_vars => [Feed!Next]_published
  BY NextStep
<1> QED
  BY <1>1, <1>2, Inductive, PTL DEF Spec, ImplementsCommitStages, Feed!Spec
=============================================================================
