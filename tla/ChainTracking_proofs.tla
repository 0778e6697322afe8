------------------------ MODULE ChainTracking_proofs ------------------------
(***************************************************************************)
(* What the tracker publishes about a chain, for any set of blocks and     *)
(* heights, any number of competing proposals, any capacity of the         *)
(* completed queue and any number of missed events.                        *)
(***************************************************************************)
EXTENDS ChainTracking, BlockLifecycle_proofs, WellFoundedInduction

Started(h) == chain[h] # {}
Ended(h) == chain[h] \cap {"Verified", "Rejected"} # {}

(* The stages a block of the chain may have reached. *)
Courses == {{}, {"Proposed"}, {"Proposed", "Voted"},
            {"Proposed", "Voted", "Finalized"},
            {"Proposed", "Voted", "Finalized", "Verified"},
            {"Proposed", "Rejected"}}

ChainOK ==
  /\ executing \subseteq Hash /\ \A g, h \in executing : g = h
  /\ ran \subseteq Hash /\ missed \in Nat
  /\ chain \in [Hash -> Courses] /\ txnsRun \in [Hash -> Nat]
  /\ \A h \in executing : /\ chain[h] \in {{"Proposed"}, {"Proposed", "Voted"}}
                          /\ h \notin ran
  /\ \A h \in ran : Started(h)
  /\ \A h \in Hash : Started(h) \/ txnsRun[h] = 0

(* The tracker holds, indexes and publishes only blocks of the chain. *)
HeldStarted ==
  /\ \A h \in DOMAIN active : Started(h)
  /\ \A n \in DOMAIN numberToHash : Started(numberToHash[n])
  /\ \A i \in 1..Len(completed) : Started(completed[i].hash)
  /\ \A h \in Hash : Started(h) \/ published[h] = Unknown

(* A completed block is not open again, and its stage was published. *)
CompletedApart ==
  \A i \in 1..Len(completed) :
    /\ completed[i].hash \notin DOMAIN active
    /\ completed[i].stage = published[completed[i].hash]

(* The current block number is that of the block being executed, and the   *)
(* index does not lead from it to another block.                           *)
CurrentIsExecuting ==
  NothingMissed =>
    \A h \in executing :
      /\ currentBlock = NumberOf[h]
      /\ currentBlock \in DOMAIN numberToHash => numberToHash[currentBlock] = h

(* A block that left the active set without being rejected left it when    *)
(* its height was final, and no sibling is reached in its place.           *)
LeftIsClosed ==
  NothingMissed =>
    \A h \in Hash :
      Started(h) /\ h \notin DOMAIN active /\ "Rejected" \notin chain[h] =>
        /\ ~HeightOpen(NumberOf[h])
        /\ Resolve(NumberOf[h]) \cap DOMAIN active = {}

(* Without competition the index leads to every active block. *)
Indexed ==
  NoCompetition =>
    \A h \in DOMAIN active : /\ NumberOf[h] \in DOMAIN numberToHash
                             /\ numberToHash[NumberOf[h]] = h

(* With nothing missed besides, exactly the open blocks are active. *)
OpenIsActive ==
  NothingMissed /\ NoCompetition =>
    \A h \in Hash : h \in DOMAIN active <=> Started(h) /\ ~Ended(h)

(* The inductive invariant. *)
Followed == /\ IInv /\ ChainOK /\ HeldStarted /\ CompletedApart
            /\ CurrentIsExecuting /\ LeftIsClosed /\ Indexed /\ OpenIsActive
            /\ FinalityIsTrue /\ PublishedIsCurrent /\ TxnsOfTheirBlock
----------------------------------------------------------------------------
(* What the steps of the tracker change. *)

(* A completed entry or the retired block itself; a number leaves the      *)
(* index with one of these only.                                           *)
LEMMA RetireMoves ==
  ASSUME TypeOK, NEW b \in DOMAIN active, NEW lc \in Lifecycle,
         lc.hash = b, Retire(b, lc)
  PROVE  /\ \A j \in 1..Len(completed') :
              \/ completed'[j] = lc
              \/ \E i \in 1..Len(completed) : completed'[j] = completed[i]
         /\ \A n \in DOMAIN numberToHash \ DOMAIN numberToHash' :
              \/ n = NumberOf[b]
              \/ \E i \in 1..Len(completed) : n = NumberOf[completed[i].hash]
<1> DEFINE queue == Append(completed, lc)
<1>1. completed \in Seq(Lifecycle) /\ Len(completed) \in Nat
  BY DEF TypeOK
<1>2. /\ queue \in Seq(Lifecycle) /\ Len(queue) = Len(completed) + 1
      /\ queue[Len(completed) + 1] = lc
      /\ \A i \in 1..Len(completed) : queue[i] = completed[i]
  BY <1>1
<1>3. Head(queue) = queue[1] /\ queue # <<>>
  BY <1>1, <1>2
<1> HIDE DEF queue
<1>4. \A j \in 1..Len(queue) :
        queue[j] = lc \/ \E i \in 1..Len(completed) : queue[j] = completed[i]
  BY <1>1, <1>2
<1>5. CASE Len(queue) > MaxCompleted
  <2>1. /\ completed' = Tail(queue)
        /\ DOMAIN numberToHash' = DOMAIN numberToHash \ {NumberOf[queue[1].hash]}
    BY <1>3, <1>5 DEF Retire, Remove, queue
  <2>2. /\ Len(completed') = Len(completed)
        /\ \A j \in 1..Len(completed') : completed'[j] = queue[j + 1]
    BY <1>1, <1>2, <1>3, <2>1
  <2>3. \A j \in 1..Len(completed') : j + 1 \in 1..Len(queue)
    BY <1>1, <1>2, <2>2
  <2>4. 1 \in 1..Len(queue)
    BY <1>1, <1>2
  <2>5. \/ NumberOf[queue[1].hash] = NumberOf[b]
        \/ \E i \in 1..Len(completed) :
             NumberOf[queue[1].hash] = NumberOf[completed[i].hash]
    BY <1>4, <2>4
  <2>6. \A n \in DOMAIN numberToHash \ DOMAIN numberToHash' :
           n = NumberOf[queue[1].hash]
    BY <2>1
  <2>7. \A j \in 1..Len(completed') :
           \/ completed'[j] = lc
           \/ \E i \in 1..Len(completed) : completed'[j] = completed[i]
    BY <1>4, <2>2, <2>3
  <2> QED
    BY <2>5, <2>6, <2>7
<1>6. CASE ~(Len(queue) > MaxCompleted)
  <2>1. completed' = queue /\ numberToHash' = numberToHash
    BY <1>6 DEF Retire, queue
  <2> QED
    BY <1>4, <2>1
<1> QED
  BY <1>5, <1>6

(* Block b is moved to stage s. *)
Moved(b, s) ==
  /\ b \in DOMAIN active /\ CanTransitionTo(active[b].stage, s)
  /\ published' = [published EXCEPT ![b] = s]
  /\ DOMAIN active' = DOMAIN active \ (IF IsTerminal(s) THEN {b} ELSE {})
  /\ \A h \in DOMAIN active' : active'[h].txns = active[h].txns
  /\ \A j \in 1..Len(completed') :
       \/ /\ IsTerminal(s) /\ completed'[j].hash = b /\ completed'[j].stage = s
          /\ completed'[j].txns = active[b].txns
       \/ \E i \in 1..Len(completed) : completed'[j] = completed[i]
  /\ DOMAIN numberToHash' \subseteq DOMAIN numberToHash
  /\ \A n \in DOMAIN numberToHash' : numberToHash'[n] = numberToHash[n]
  /\ \A n \in DOMAIN numberToHash \ DOMAIN numberToHash' :
       /\ IsTerminal(s)
       /\ \/ n = NumberOf[b]
          \/ \E i \in 1..Len(completed) : n = NumberOf[completed[i].hash]

(* Nothing moves; a transaction may have been counted.                     *)
StagesStay == /\ UNCHANGED <<numberToHash, completed, published>>
              /\ DOMAIN active' = DOMAIN active
TxnsStay == \A h \in DOMAIN active : active'[h].txns = active[h].txns

(* Block h is opened. *)
Opened(h) ==
  /\ published' = [published EXCEPT ![h] = "Proposed"]
  /\ DOMAIN active' = DOMAIN active \cup {h} /\ active'[h].txns = 0
  /\ \A g \in DOMAIN active \ {h} : active'[g].txns = active[g].txns
  /\ DOMAIN numberToHash' = DOMAIN numberToHash \cup {NumberOf[h]}
  /\ \A n \in DOMAIN numberToHash' :
       numberToHash'[n] = IF n = NumberOf[h] THEN h ELSE numberToHash[n]
  /\ UNCHANGED completed /\ currentBlock' = NumberOf[h]

LEMMA StartOpens ==
  ASSUME NEW h \in Hash, NEW t \in Time, BlockStart(h, t)
  PROVE  Opened(h)
<1> DEFINE lc == NewLifecycle(h, t)
<1>1. lc.txns = 0
  BY DEF NewLifecycle
<1> HIDE DEF lc
<1>2. /\ active' = [g \in DOMAIN active \cup {h} |->
                      IF g = h THEN lc ELSE active[g]]
      /\ numberToHash' = [n \in DOMAIN numberToHash \cup {NumberOf[h]} |->
                            IF n = NumberOf[h] THEN h ELSE numberToHash[n]]
      /\ published' = [published EXCEPT ![h] = "Proposed"]
      /\ completed' = completed /\ currentBlock' = NumberOf[h]
  BY DEF BlockStart, OnBlockProposed, Emit, Put, lc
<1> QED
  BY <1>1, <1>2 DEF Opened

LEMMA TransitionMoves ==
  ASSUME IInv, NEW b \in DOMAIN active, NEW s \in Stages, NEW t \in Time,
         CanTransitionTo(active[b].stage, s), Transition(b, s, t)
  PROVE  Moved(b, s)
<1> DEFINE lc == Advanced(b, s, t)
<1>1. lc \in Lifecycle /\ lc.hash = b /\ lc.stage = s
  BY AdvancedFields DEF IInv
<1>2. lc.txns = active[b].txns
  <2>1. active[b] \in Lifecycle
    BY DEF IInv, TypeOK
  <2>2. \A ts : [active[b] EXCEPT !.stage = s, !.ts = ts].txns = active[b].txns
    BY <2>1, LifecycleFields
  <2> QED
    BY <2>2 DEF Advanced
<1> HIDE DEF lc
<1>3. /\ published' = [published EXCEPT ![b] = s]
      /\ IF IsTerminal(s) THEN Retire(b, lc)
                          ELSE active' = [active EXCEPT ![b] = lc]
                               /\ UNCHANGED <<numberToHash, completed>>
  BY DEF Transition, Emit, Advanced, lc
<1>4. active = [h \in DOMAIN active |-> active[h]]
  BY DEF IInv, TypeOK
<1>5. CASE IsTerminal(s)
  <2>1. Retire(b, lc) /\ TypeOK /\ IndexSound
    BY <1>3, <1>5 DEF IInv
  <2>2. /\ active' = [h \in DOMAIN active \ {b} |-> active[h]]
        /\ DOMAIN numberToHash' \subseteq DOMAIN numberToHash
        /\ numberToHash' = [n \in DOMAIN numberToHash' |-> numberToHash[n]]
    BY <1>1, <2>1, RetireKeepsIndex
  <2>3. \A n \in DOMAIN numberToHash' : numberToHash'[n] = numberToHash[n]
    BY <2>2
  <2> QED
    BY <1>1, <1>2, <1>3, <1>5, <2>1, <2>2, <2>3, RetireMoves DEF Moved
<1>6. CASE ~IsTerminal(s)
  <2>1. /\ active' = [active EXCEPT ![b] = lc]
        /\ UNCHANGED <<numberToHash, completed>>
    BY <1>3, <1>6
  <2>2. /\ DOMAIN active' = DOMAIN active
        /\ \A h \in DOMAIN active : active'[h].txns = active[h].txns
    BY <1>2, <1>4, <2>1
  <2> QED
    BY <1>3, <1>6, <2>1, <2>2 DEF Moved
<1> QED
  BY <1>5, <1>6

LEMMA AdvanceMoves ==
  ASSUME IInv, NEW h, NEW n, NEW s \in Stages, NEW t \in Time,
         AdvanceStage(h, n, s, t)
  PROVE  \/ /\ \A b \in Target(h, n) : ~CanTransitionTo(active[b].stage, s)
            /\ StagesStay /\ TxnsStay
         \/ \E b \in Target(h, n) : Moved(b, s)
<1>1. CASE \E b \in Target(h, n) : /\ CanTransitionTo(active[b].stage, s)
                                  /\ Transition(b, s, t)
  BY <1>1, TransitionMoves DEF Target
<1>2. CASE /\ \A b \in Target(h, n) : ~CanTransitionTo(active[b].stage, s)
           /\ Silent /\ UNCHANGED tracker
  BY <1>2 DEF Silent, tracker, StagesStay, TxnsStay
<1> QED
  BY <1>1, <1>2 DEF AdvanceStage
----------------------------------------------------------------------------
(* The chain only grows, and what is assumed of it is never regained.      *)

ChainGrows == /\ \A h \in Hash : chain[h] \subseteq chain'[h]
              /\ missed' >= missed

LEMMA NeverRegained ==
  ASSUME ChainOK, ChainOK', ChainGrows
  PROVE  /\ NothingMissed' => NothingMissed
         /\ NoCompetition' => NoCompetition
         /\ \A h \in Hash : Started(h) => Started(h)'
         /\ \A n : ~HeightOpen(n) => ~HeightOpen(n)'
<1>1. NothingMissed' => NothingMissed
  BY DEF ChainOK, ChainGrows, NothingMissed
<1>2. \A h \in Hash : Started(h) => Started(h)'
  BY DEF ChainGrows, Started
<1>3. NoCompetition' => NoCompetition
  BY DEF ChainGrows, NoCompetition
<1>4. \A n : ~HeightOpen(n) => ~HeightOpen(n)'
  BY DEF ChainGrows, HeightOpen
<1> QED
  BY <1>1, <1>2, <1>3, <1>4

LEMMA HeldIsOfChain ==
  ASSUME IInv
  PROVE  /\ DOMAIN active \subseteq Hash
         /\ \A n \in DOMAIN numberToHash : /\ numberToHash[n] \in Hash
                                           /\ NumberOf[numberToHash[n]] = n
         /\ \A i \in 1..Len(completed) : completed[i].hash \in Hash
         /\ published \in [Hash -> Stages \cup {Unknown}]
         /\ \A h \in DOMAIN active : published[h] = active[h].stage
<1>1. \A i \in 1..Len(completed) : completed[i].hash \in Hash
  <2>1. completed \in Seq(Lifecycle)
    BY DEF IInv, TypeOK
  <2>2. \A i \in 1..Len(completed) : completed[i] \in Lifecycle
    BY <2>1
  <2> QED
    BY <2>2, LifecycleFields
<1>2. \A h \in DOMAIN active : published[h] = active[h].stage
  BY DEF IInv, TypeOK, FeedMatchesTracker
<1> QED
  BY <1>1, <1>2 DEF IInv, TypeOK
----------------------------------------------------------------------------
(* The parts of the invariant, each under any step of the tracker.         *)

LEMMA HeldStartedKept ==
  ASSUME IInv, ChainOK, ChainOK', ChainGrows, HeldStarted,
         \/ StagesStay
         \/ \E b, s : Moved(b, s)
         \/ \E h \in Hash : Opened(h) /\ Started(h)'
  PROVE  HeldStarted'
<1>1. /\ \A h \in Hash : Started(h) => Started(h)'
      /\ DOMAIN active \subseteq Hash
      /\ \A n \in DOMAIN numberToHash : numberToHash[n] \in Hash
      /\ \A i \in 1..Len(completed) : completed[i].hash \in Hash
      /\ published \in [Hash -> Stages \cup {Unknown}]
  BY NeverRegained, HeldIsOfChain
<1>2. CASE StagesStay
  BY <1>1, <1>2 DEF StagesStay, HeldStarted, Started
<1>3. ASSUME NEW b, NEW s, Moved(b, s) PROVE HeldStarted'
  <2>1. \A h \in DOMAIN active' : Started(h)'
    BY <1>1, <1>3 DEF Moved, HeldStarted, Started
  <2>2. \A n \in DOMAIN numberToHash' : chain'[numberToHash'[n]] # {}
    BY <1>1, <1>3 DEF Moved, HeldStarted, Started
  <2>3. ASSUME NEW j \in 1..Len(completed') PROVE chain'[completed'[j].hash] # {}
    <3>1. \/ completed'[j].hash = b
          \/ \E i \in 1..Len(completed) : completed'[j].hash = completed[i].hash
      BY <1>3 DEF Moved
    <3>2. b \in Hash /\ Started(b)
      BY <1>1, <1>3 DEF Moved, HeldStarted
    <3> QED
      BY <1>1, <3>1, <3>2 DEF HeldStarted, Started
  <2>4. \A h \in Hash : Started(h)' \/ published'[h] = Unknown
    BY <1>1, <1>3 DEF Moved, HeldStarted, Started
  <2> QED
    BY <2>1, <2>2, <2>3, <2>4 DEF HeldStarted, Started
<1>4. ASSUME NEW h \in Hash, Opened(h), Started(h)' PROVE HeldStarted'
  <2>1. \A g \in DOMAIN active' : Started(g)'
    BY <1>1, <1>4 DEF Opened, HeldStarted, Started
  <2>2. \A n \in DOMAIN numberToHash' : chain'[numberToHash'[n]] # {}
    BY <1>1, <1>4 DEF Opened, HeldStarted, Started
  <2>3. \A g \in Hash : Started(g)' \/ published'[g] = Unknown
    BY <1>1, <1>4 DEF Opened, HeldStarted, Started
  <2> QED
    BY <1>1, <1>4, <2>1, <2>2, <2>3 DEF Opened, HeldStarted, Started
<1> QED
  BY <1>2, <1>3, <1>4

LEMMA CompletedApartKept ==
  ASSUME IInv, HeldStarted, CompletedApart,
         \/ StagesStay
         \/ \E b, s : Moved(b, s)
         \/ \E h \in Hash : Opened(h) /\ ~Started(h)
  PROVE  CompletedApart'
<1>1. /\ DOMAIN active \subseteq Hash
      /\ \A i \in 1..Len(completed) : completed[i].hash \in Hash
      /\ published \in [Hash -> Stages \cup {Unknown}]
  BY HeldIsOfChain
<1>2. CASE StagesStay
  BY <1>2 DEF StagesStay, CompletedApart
<1>3. ASSUME NEW b, NEW s, Moved(b, s) PROVE CompletedApart'
  <2> SUFFICES ASSUME NEW j \in 1..Len(completed')
               PROVE  /\ completed'[j].hash \notin DOMAIN active'
                      /\ completed'[j].stage = published'[completed'[j].hash]
    BY DEF CompletedApart
  <2>1. CASE IsTerminal(s) /\ completed'[j].hash = b /\ completed'[j].stage = s
    BY <1>1, <1>3, <2>1 DEF Moved
  <2>2. CASE \E i \in 1..Len(completed) : completed'[j] = completed[i]
    <3>1. PICK i \in 1..Len(completed) : completed'[j] = completed[i]
      BY <2>2
    <3>2. completed[i].hash \notin DOMAIN active /\ completed[i].hash # b
      BY <1>3 DEF Moved, CompletedApart
    <3> QED
      BY <1>1, <1>3, <3>1, <3>2 DEF Moved, CompletedApart
  <2> QED
    BY <1>3, <2>1, <2>2 DEF Moved
<1>4. ASSUME NEW h \in Hash, Opened(h), ~Started(h) PROVE CompletedApart'
  BY <1>1, <1>4 DEF Opened, HeldStarted, CompletedApart
<1> QED
  BY <1>2, <1>3, <1>4

(* An entry that leaves the index was not the entry of an active block.    *)
LEMMA IndexedKept ==
  ASSUME IInv, ChainOK, ChainOK', ChainGrows, HeldStarted, HeldStarted',
         CompletedApart, Indexed,
         \/ StagesStay
         \/ \E b, s : Moved(b, s)
         \/ \E h \in Hash : Opened(h)
  PROVE  Indexed'
<1> SUFFICES ASSUME NoCompetition', NEW g \in DOMAIN active'
             PROVE  /\ NumberOf[g] \in DOMAIN numberToHash'
                    /\ numberToHash'[NumberOf[g]] = g
  BY DEF Indexed
<1>1. /\ NoCompetition /\ \A h \in Hash : Started(h) => Started(h)'
      /\ DOMAIN active \subseteq Hash
      /\ \A i \in 1..Len(completed) : completed[i].hash \in Hash
  BY NeverRegained, HeldIsOfChain
<1>2. \A h \in DOMAIN active : /\ NumberOf[h] \in DOMAIN numberToHash
                               /\ numberToHash[NumberOf[h]] = h
  BY <1>1 DEF Indexed
<1>3. ASSUME NEW f \in Hash, NEW h \in Hash, f # h,
             Started(f), Started(h)'
      PROVE  NumberOf[f] # NumberOf[h]
  BY <1>1, <1>3 DEF NoCompetition, Started
<1>4. CASE StagesStay
  BY <1>2, <1>4 DEF StagesStay
<1>5. ASSUME NEW b, NEW s, Moved(b, s)
      PROVE  /\ NumberOf[g] \in DOMAIN numberToHash'
             /\ numberToHash'[NumberOf[g]] = g
  <2>1. g \in DOMAIN active /\ g \in Hash /\ Started(g)'
    BY <1>1, <1>5 DEF Moved, HeldStarted
  <2>2. NumberOf[g] \in DOMAIN numberToHash'
    <3>1. SUFFICES ASSUME NumberOf[g] \notin DOMAIN numberToHash'
                   PROVE  FALSE
      OBVIOUS
    <3>2. /\ IsTerminal(s)
          /\ \/ NumberOf[g] = NumberOf[b]
             \/ \E i \in 1..Len(completed) :
                  NumberOf[g] = NumberOf[completed[i].hash]
      BY <1>2, <1>5, <2>1, <3>1 DEF Moved
    <3>3. g # b /\ b \in Hash /\ Started(b)
      BY <1>1, <1>5, <3>2 DEF Moved, HeldStarted
    <3>4. \A i \in 1..Len(completed) :
             g # completed[i].hash /\ Started(completed[i].hash)
      BY <2>1 DEF CompletedApart, HeldStarted
    <3> QED
      BY <1>1, <1>3, <2>1, <3>2, <3>3, <3>4
  <2> QED
    BY <1>2, <1>5, <2>1, <2>2 DEF Moved
<1>6. ASSUME NEW h \in Hash, Opened(h)
      PROVE  /\ NumberOf[g] \in DOMAIN numberToHash'
             /\ numberToHash'[NumberOf[g]] = g
  <2>1. CASE g = h
    BY <1>6, <2>1 DEF Opened
  <2>2. CASE g # h
    <3>1. g \in DOMAIN active /\ g \in Hash /\ Started(g)
      BY <1>1, <1>6, <2>2 DEF Opened, HeldStarted
    <3>2. Started(h)'
      BY <1>6 DEF Opened, HeldStarted
    <3>3. NumberOf[g] # NumberOf[h]
      BY <1>3, <2>2, <3>1, <3>2
    <3> QED
      BY <1>2, <1>6, <3>1, <3>3 DEF Opened
  <2> QED
    BY <2>1, <2>2
<1> QED
  BY <1>4, <1>5, <1>6
----------------------------------------------------------------------------
(* Events that move no block. *)

LEMMA MissedKeeps ==
  ASSUME Followed, IInv', ChainOK', ChainGrows, StagesStay, ~NothingMissed'
  PROVE  Followed'
<1>1. IInv /\ ChainOK /\ HeldStarted /\ CompletedApart /\ Indexed
  BY DEF Followed
<1>2. HeldStarted' /\ CompletedApart' /\ Indexed'
  BY <1>1, HeldStartedKept, CompletedApartKept, IndexedKept
<1>3. CurrentIsExecuting' /\ LeftIsClosed' /\ OpenIsActive'
      /\ PublishedIsCurrent' /\ TxnsOfTheirBlock'
  BY DEF CurrentIsExecuting, LeftIsClosed, OpenIsActive, PublishedIsCurrent,
         TxnsOfTheirBlock
<1>4. FinalityIsTrue'
  <2>1. SUFFICES ASSUME NoCompetition', NEW h \in Hash,
                        published'[h] \in {"Voted", "Finalized"}
                 PROVE  published'[h] \in chain'[h]
    BY DEF FinalityIsTrue
  <2>2. NoCompetition /\ published' = published
    BY <1>1, <2>1, NeverRegained DEF StagesStay
  <2>3. published[h] \in chain[h]
    BY <2>1, <2>2 DEF Followed, FinalityIsTrue
  <2> QED
    BY <2>2, <2>3 DEF ChainGrows
<1> QED
  BY <1>2, <1>3, <1>4 DEF Followed

LEMMA QuietKeeps ==
  ASSUME Followed, IInv', ChainOK', StagesStay, TxnsOfTheirBlock',
         UNCHANGED <<chain, missed, currentBlock>>, executing' \subseteq executing
  PROVE  Followed'
<1>1. IInv /\ ChainOK /\ HeldStarted /\ CompletedApart /\ Indexed
  BY DEF Followed
<1>2. ChainGrows
  BY <1>1 DEF ChainGrows, ChainOK
<1>3. HeldStarted' /\ CompletedApart' /\ Indexed'
  BY <1>1, <1>2, HeldStartedKept, CompletedApartKept, IndexedKept
<1>4. CurrentIsExecuting'
  BY DEF Followed, StagesStay, CurrentIsExecuting, NothingMissed
<1>5. LeftIsClosed' /\ OpenIsActive'
  BY DEF Followed, StagesStay, LeftIsClosed, OpenIsActive, NothingMissed,
         NoCompetition, HeightOpen, Started, Ended, Resolve
<1>6. FinalityIsTrue' /\ PublishedIsCurrent'
  BY DEF Followed, StagesStay, FinalityIsTrue, PublishedIsCurrent,
         NothingMissed, NoCompetition
<1> QED
  BY <1>3, <1>4, <1>5, <1>6 DEF Followed

(* What the chain knows of the block being executed, the tracker finds     *)
(* through the current block number.                                       *)
LEMMA ExecutingIsFound ==
  ASSUME Followed, NothingMissed, NoCompetition, NEW h \in executing
  PROVE  /\ h \in Hash /\ h \in DOMAIN active
         /\ currentBlock = NumberOf[h]
         /\ Resolve(currentBlock) = {h}
<1>1. h \in Hash /\ chain[h] \in {{"Proposed"}, {"Proposed", "Voted"}}
  BY DEF Followed, ChainOK
<1>2. Started(h) /\ ~Ended(h)
  BY <1>1 DEF Started, Ended
<1>3. h \in DOMAIN active
  BY <1>1, <1>2 DEF Followed, OpenIsActive
<1>4. currentBlock = NumberOf[h]
  BY DEF Followed, CurrentIsExecuting
<1>5. /\ NumberOf[h] \in DOMAIN numberToHash
      /\ numberToHash[NumberOf[h]] = h
  BY <1>3 DEF Followed, Indexed
<1> QED
  BY <1>1, <1>3, <1>4, <1>5 DEF Resolve

LEMMA TxnKeeps ==
  ASSUME Followed, IInv', ChainOK', NEW h \in Hash, ChainTxn(h),
         TxnHeaderStart, UNCHANGED missed
  PROVE  Followed'
<1>1. /\ executing = {h} /\ UNCHANGED <<executing, chain>>
      /\ txnsRun' = [txnsRun EXCEPT ![h] = @ + 1]
  BY DEF ChainTxn
<1>2. /\ active' = [g \in DOMAIN active |->
                      IF g \in Resolve(currentBlock)
                        THEN [active[g] EXCEPT !.txns = @ + 1] ELSE active[g]]
      /\ UNCHANGED <<numberToHash, completed, published, currentBlock>>
  BY DEF TxnHeaderStart, RecordTxn, Silent
<1>3. StagesStay
  BY <1>2 DEF StagesStay
<1>4. TxnsOfTheirBlock'
  <2> SUFFICES ASSUME NothingMissed, NoCompetition
               PROVE  /\ \A g \in DOMAIN active : active'[g].txns = txnsRun'[g]
                      /\ \A i \in 1..Len(completed) :
                           completed[i].txns = txnsRun'[completed[i].hash]
    BY <1>1, <1>2, <1>3 DEF TxnsOfTheirBlock, NothingMissed, NoCompetition,
       StagesStay
  <2>1. /\ \A g \in DOMAIN active : active[g].txns = txnsRun[g]
        /\ \A i \in 1..Len(completed) :
             completed[i].txns = txnsRun[completed[i].hash]
    BY DEF Followed, TxnsOfTheirBlock
  <2>2. h \in DOMAIN active /\ Resolve(currentBlock) = {h}
    BY <1>1, ExecutingIsFound
  <2>3. txnsRun \in [Hash -> Nat] /\ DOMAIN active \subseteq Hash
    BY HeldIsOfChain DEF Followed, ChainOK
  <2>4. ASSUME NEW g \in DOMAIN active PROVE active'[g].txns = txnsRun'[g]
    <3>1. CASE g = h
      <4>1. active[g] \in Lifecycle
        BY DEF Followed, IInv, TypeOK
      <4>2. active'[g].txns = active[g].txns + 1
        BY <1>2, <2>2, <3>1, <4>1, LifecycleFields
      <4> QED
        BY <1>1, <2>1, <2>3, <3>1, <4>2
    <3>2. CASE g # h
      BY <1>1, <1>2, <2>1, <2>2, <2>3, <3>2
    <3> QED
      BY <3>1, <3>2
  <2>5. ASSUME NEW i \in 1..Len(completed)
        PROVE  completed[i].txns = txnsRun'[completed[i].hash]
    <3>1. completed[i].hash # h
      BY <2>2 DEF Followed, CompletedApart
    <3>2. completed[i].hash \in Hash
      BY HeldIsOfChain DEF Followed
    <3> QED
      BY <1>1, <2>1, <2>3, <3>1, <3>2
  <2> QED
    BY <2>4, <2>5
<1> QED
  BY <1>1, <1>2, <1>3, <1>4, QuietKeeps

LEMMA EndKeeps ==
  ASSUME Followed, IInv', ChainOK', NEW h \in Hash, ChainEnd(h), BlockEnd,
         UNCHANGED missed
  PROVE  Followed'
<1>1. executing' = {} /\ UNCHANGED <<chain, txnsRun>>
  BY DEF ChainEnd
<1>2. /\ active' = [g \in DOMAIN active |->
                      IF g \in Resolve(currentBlock)
                        THEN [active[g] EXCEPT !.executed = TRUE] ELSE active[g]]
      /\ UNCHANGED <<numberToHash, completed, published, currentBlock>>
  BY DEF BlockEnd, OnExecutionEnd, Silent
<1>3. StagesStay
  BY <1>2 DEF StagesStay
<1>4. \A g \in DOMAIN active : active'[g].txns = active[g].txns
  <2>1. \A g \in DOMAIN active : active[g] \in Lifecycle
    BY DEF Followed, IInv, TypeOK
  <2>2. \A lc \in Lifecycle : [lc EXCEPT !.executed = TRUE].txns = lc.txns
    BY LifecycleFields
  <2> QED
    BY <1>2, <2>1, <2>2
<1>5. TxnsOfTheirBlock'
  BY <1>1, <1>2, <1>3, <1>4 DEF Followed, TxnsOfTheirBlock, NothingMissed,
     NoCompetition, StagesStay
<1> QED
  BY <1>1, <1>2, <1>3, <1>5, QuietKeeps
----------------------------------------------------------------------------
(* A block is proposed. *)

LEMMA StartKeeps ==
  ASSUME Followed, IInv', ChainOK', NEW h \in Hash, NEW t \in Time,
         ChainStart(h, t), BlockStart(h, t), UNCHANGED missed
  PROVE  Followed'
<1>1. IInv /\ ChainOK /\ HeldStarted /\ CompletedApart /\ Indexed
  BY DEF Followed
<1>2. /\ executing' = {h} /\ chain[h] = {} /\ HeightOpen(NumberOf[h])
      /\ chain' = [chain EXCEPT ![h] = {"Proposed"}]
      /\ UNCHANGED txnsRun
  BY DEF ChainStart, Reach
<1>3. Opened(h) /\ ~Started(h)
  BY <1>2, StartOpens DEF Started
<1>4. chain'[h] = {"Proposed"} /\ \A g \in Hash \ {h} : chain'[g] = chain[g]
  BY <1>1, <1>2 DEF ChainOK
<1>5. ChainGrows
  BY <1>1, <1>2, <1>4 DEF ChainGrows, ChainOK
<1>6. HeldStarted' /\ CompletedApart' /\ Indexed'
  <2>1. Started(h)'
    BY <1>4 DEF Started
  <2> QED
    BY <1>1, <1>3, <1>5, <2>1, HeldStartedKept, CompletedApartKept, IndexedKept
<1>7. /\ NothingMissed' => NothingMissed
      /\ NoCompetition' => NoCompetition
      /\ \A n : ~HeightOpen(n) => ~HeightOpen(n)'
  BY <1>1, <1>5, NeverRegained
<1>8. /\ DOMAIN active \subseteq Hash
      /\ \A n \in DOMAIN numberToHash : /\ numberToHash[n] \in Hash
                                        /\ NumberOf[numberToHash[n]] = n
      /\ \A i \in 1..Len(completed) : completed[i].hash \in Hash
      /\ published \in [Hash -> Stages \cup {Unknown}]
  BY <1>1, HeldIsOfChain
<1>9. /\ DOMAIN active' = DOMAIN active \cup {h}
      /\ published'[h] = "Proposed"
      /\ \A g \in Hash \ {h} : published'[g] = published[g]
  BY <1>3, <1>8 DEF Opened
<1>10. CurrentIsExecuting'
  BY <1>2, <1>3 DEF Opened, CurrentIsExecuting
<1>11. LeftIsClosed'
  <2>1. SUFFICES ASSUME NothingMissed', NEW g \in Hash, chain'[g] # {},
                        g \notin DOMAIN active', "Rejected" \notin chain'[g]
                 PROVE  /\ ~HeightOpen(NumberOf[g])'
                        /\ Resolve(NumberOf[g])' \cap DOMAIN active' = {}
    BY DEF LeftIsClosed, Started
  <2>2. g # h /\ chain'[g] = chain[g] /\ g \notin DOMAIN active
    BY <1>4, <1>9, <2>1
  <2>3. /\ ~HeightOpen(NumberOf[g])
        /\ Resolve(NumberOf[g]) \cap DOMAIN active = {}
    BY <1>7, <2>1, <2>2 DEF Followed, LeftIsClosed, Started
  <2>4. NumberOf[g] # NumberOf[h]
    BY <1>2, <2>3
  <2>5. Resolve(NumberOf[g])' = Resolve(NumberOf[g])
    BY <1>3, <2>4 DEF Opened, Resolve
  <2>6. h \notin Resolve(NumberOf[g])
    BY <1>8, <2>4 DEF Resolve
  <2> QED
    BY <1>7, <1>9, <2>3, <2>5, <2>6
<1>12. OpenIsActive'
  <2>1. \A g \in Hash \ {h} : (Started(g)' <=> Started(g)) /\ (Ended(g)' <=> Ended(g))
    BY <1>4 DEF Started, Ended
  <2>2. Started(h)' /\ ~Ended(h)'
    BY <1>4 DEF Started, Ended
  <2> QED
    BY <1>7, <1>9, <2>1, <2>2 DEF Followed, OpenIsActive
<1>13. FinalityIsTrue'
  BY <1>4, <1>7, <1>9 DEF Followed, FinalityIsTrue
<1>14. PublishedIsCurrent'
  <2>1. Ord["Proposed"] =< Ord["Proposed"]
    BY DEF Ord
  <2> QED
    BY <1>4, <1>7, <1>9, <2>1 DEF Followed, PublishedIsCurrent
<1>15. TxnsOfTheirBlock'
  <2>1. txnsRun[h] = 0
    BY <1>1, <1>3 DEF ChainOK
  <2>2. ASSUME NothingMissed', NoCompetition', NEW g \in DOMAIN active'
        PROVE  active'[g].txns = txnsRun'[g]
    <3>1. CASE g = h
      BY <1>2, <1>3, <2>1, <3>1 DEF Opened
    <3>2. CASE g # h
      BY <1>2, <1>3, <1>7, <2>2, <3>2 DEF Opened, Followed, TxnsOfTheirBlock
    <3> QED
      BY <3>1, <3>2
  <2>3. ASSUME NothingMissed', NoCompetition'
        PROVE  \A i \in 1..Len(completed') :
                  completed'[i].txns = txnsRun'[completed'[i].hash]
    BY <1>2, <1>3, <1>7, <2>3 DEF Opened, Followed, TxnsOfTheirBlock
  <2> QED
    BY <2>2, <2>3 DEF TxnsOfTheirBlock
<1> QED
  BY <1>6, <1>10, <1>11, <1>12, <1>13, <1>14, <1>15 DEF Followed
----------------------------------------------------------------------------
(* A block advances.  The chain moved block h to stage s, the tracker      *)
(* looked at the blocks in target.                                         *)

Reached(h, s) ==
  /\ chain' = [chain EXCEPT ![h] = @ \cup {s}]
  /\ UNCHANGED <<txnsRun, missed, currentBlock>> /\ executing' \subseteq executing

(* The block that the tracker finds is the one the chain moved, unless     *)
(* blocks compete or events were missed; a sibling it finds instead is     *)
(* never voted for or finalized in its place.                              *)
TargetIsRight(h, s, target) ==
  /\ (NothingMissed \/ NoCompetition) /\ ~IsTerminal(s) => target \subseteq {h}
  /\ NothingMissed /\ NoCompetition =>
       target = {h} /\ CanTransitionTo(active[h].stage, s)
  /\ NothingMissed /\ IsTerminal(s) =>
       \A b \in target :
         \/ s = "Rejected" /\ b = h
         \/ ~HeightOpen(NumberOf[b]) /\ Resolve(NumberOf[b]) = {b}

LEMMA AdvanceKeeps ==
  ASSUME Followed, IInv', ChainOK', NEW h \in Hash, NEW s \in Stages,
         NEW target, target \subseteq DOMAIN active, Reached(h, s),
         Started(h), s # "Proposed",
         \A r \in chain[h] : Ord[r] =< Ord[s],
         TargetIsRight(h, s, target),
         \/ /\ \A b \in target : ~CanTransitionTo(active[b].stage, s)
            /\ StagesStay /\ TxnsStay
         \/ \E b \in target : Moved(b, s)
  PROVE  Followed'
<1>1. IInv /\ ChainOK /\ HeldStarted /\ CompletedApart /\ Indexed
  BY DEF Followed
<1>2. /\ chain'[h] = chain[h] \cup {s}
      /\ \A g \in Hash \ {h} : chain'[g] = chain[g]
      /\ UNCHANGED <<txnsRun, missed, currentBlock>>
      /\ executing' \subseteq executing
  BY <1>1 DEF Reached, ChainOK
<1>3. ChainGrows
  BY <1>1, <1>2 DEF ChainGrows, ChainOK
<1>4. HeldStarted' /\ CompletedApart' /\ Indexed'
  BY <1>1, <1>3, HeldStartedKept, CompletedApartKept, IndexedKept
<1>5. /\ NothingMissed' => NothingMissed
      /\ NoCompetition' => NoCompetition
      /\ \A n : ~HeightOpen(n) => ~HeightOpen(n)'
  BY <1>1, <1>3, NeverRegained
<1>6. /\ DOMAIN active \subseteq Hash
      /\ \A i \in 1..Len(completed) : completed[i].hash \in Hash
      /\ published \in [Hash -> Stages \cup {Unknown}]
  BY <1>1, HeldIsOfChain
<1>7. /\ DOMAIN numberToHash' \subseteq DOMAIN numberToHash
      /\ \A n \in DOMAIN numberToHash' : numberToHash'[n] = numberToHash[n]
      /\ DOMAIN active' \subseteq DOMAIN active
      /\ \A g \in DOMAIN active' : active'[g].txns = active[g].txns
  BY DEF Moved, StagesStay, TxnsStay
<1>8. \A n : Resolve(n)' \subseteq Resolve(n)
  BY <1>7 DEF Resolve
<1>9. CurrentIsExecuting'
  BY <1>2, <1>5, <1>7 DEF Followed, CurrentIsExecuting
<1>10. \/ StagesStay
       \/ \E b \in target : Moved(b, s) /\ b \in Hash
  BY <1>6
<1>11. LeftIsClosed'
  <2>1. SUFFICES ASSUME NothingMissed', NEW g \in Hash, chain'[g] # {},
                        g \notin DOMAIN active', "Rejected" \notin chain'[g]
                 PROVE  /\ ~HeightOpen(NumberOf[g])
                        /\ Resolve(NumberOf[g]) \cap DOMAIN active' = {}
    BY <1>5, <1>8 DEF LeftIsClosed, Started
  <2>2. Started(g) /\ "Rejected" \notin chain[g]
    BY <1>2, <2>1 DEF Started
  <2>3. CASE g \notin DOMAIN active
    BY <1>5, <1>7, <2>1, <2>2, <2>3 DEF Followed, LeftIsClosed
  <2>4. CASE g \in DOMAIN active
    <3>1. g \in target /\ IsTerminal(s)
      BY <1>10, <2>1, <2>4 DEF StagesStay, Moved
    <3>2. \/ s = "Rejected" /\ g = h
          \/ ~HeightOpen(NumberOf[g]) /\ Resolve(NumberOf[g]) = {g}
      BY <1>5, <2>1, <3>1 DEF TargetIsRight
    <3> QED
      BY <1>2, <2>1, <3>2
  <2> QED
    BY <2>3, <2>4
<1>12. FinalityIsTrue'
  <2>1. SUFFICES ASSUME NothingMissed' \/ NoCompetition', NEW g \in Hash,
                        published'[g] \in {"Voted", "Finalized"}
                 PROVE  published'[g] \in chain'[g]
    BY DEF FinalityIsTrue
  <2>2. published'[g] = published[g] \/ (g \in target /\ published'[g] = s)
    BY <1>6, <1>10 DEF StagesStay, Moved
  <2>3. CASE published'[g] = published[g]
    <3>1. published[g] \in chain[g]
      BY <1>5, <2>1, <2>3 DEF Followed, FinalityIsTrue
    <3> QED
      BY <1>3, <2>3, <3>1 DEF ChainGrows
  <2>4. CASE g \in target /\ published'[g] = s
    <3>1. ~IsTerminal(s)
      BY <2>1, <2>4 DEF IsTerminal
    <3>2. g = h
      BY <1>5, <2>1, <2>4, <3>1 DEF TargetIsRight
    <3> QED
      BY <1>2, <2>4, <3>2
  <2> QED
    BY <2>2, <2>3, <2>4
<1>13. ASSUME NothingMissed', NoCompetition'
       PROVE  /\ Moved(h, s) /\ NothingMissed /\ NoCompetition
  BY <1>5, <1>13 DEF TargetIsRight
<1>14. OpenIsActive'
  <2>1. \A g \in Hash \ {h} : (Started(g)' <=> Started(g)) /\ (Ended(g)' <=> Ended(g))
    BY <1>2 DEF Started, Ended
  <2>2. Started(h)' /\ (Ended(h)' <=> Ended(h) \/ IsTerminal(s))
    BY <1>2 DEF Started, Ended, IsTerminal
  <2>3. ASSUME NothingMissed', NoCompetition'
        PROVE  /\ DOMAIN active' = DOMAIN active \ (IF IsTerminal(s) THEN {h} ELSE {})
               /\ \A g \in Hash : g \in DOMAIN active <=> Started(g) /\ ~Ended(g)
               /\ h \in DOMAIN active
    BY <1>13, <2>3 DEF Moved, Followed, OpenIsActive
  <2> QED
    BY <2>1, <2>2, <2>3 DEF OpenIsActive
<1>15. PublishedIsCurrent'
  <2>1. SUFFICES ASSUME NothingMissed', NoCompetition', NEW g \in Hash
                 PROVE  IF chain'[g] = {} THEN published'[g] = Unknown
                        ELSE /\ published'[g] \in chain'[g]
                             /\ \A r \in chain'[g] : Ord[r] =< Ord[published'[g]]
    BY DEF PublishedIsCurrent
  <2>2. published' = [published EXCEPT ![h] = s] /\ NothingMissed /\ NoCompetition
    BY <1>13, <2>1 DEF Moved
  <2>3. CASE g = h
    <3>1. published'[g] = s /\ Ord[s] =< Ord[s]
      BY <1>6, <2>2, <2>3 DEF Ord, Stages
    <3> QED
      BY <1>2, <2>3, <3>1
  <2>4. CASE g # h
    BY <1>2, <1>6, <2>2, <2>4 DEF Followed, PublishedIsCurrent
  <2> QED
    BY <2>3, <2>4
<1>16. TxnsOfTheirBlock'
  <2>1. SUFFICES ASSUME NothingMissed', NoCompetition'
                 PROVE  /\ \A g \in DOMAIN active' : active'[g].txns = txnsRun[g]
                        /\ \A j \in 1..Len(completed') :
                             completed'[j].txns = txnsRun[completed'[j].hash]
    BY <1>2 DEF TxnsOfTheirBlock
  <2>2. /\ \A g \in DOMAIN active : active[g].txns = txnsRun[g]
        /\ \A i \in 1..Len(completed) :
             completed[i].txns = txnsRun[completed[i].hash]
    BY <1>13, <2>1 DEF Followed, TxnsOfTheirBlock
  <2>3. \A g \in DOMAIN active' : active'[g].txns = txnsRun[g]
    BY <1>7, <2>2
  <2>4. ASSUME NEW j \in 1..Len(completed')
        PROVE  completed'[j].txns = txnsRun[completed'[j].hash]
    BY <1>13, <2>1, <2>2 DEF Moved
  <2> QED
    BY <2>3, <2>4
<1> QED
  BY <1>4, <1>9, <1>11, <1>12, <1>14, <1>15, <1>16 DEF Followed
----------------------------------------------------------------------------
(* The chain by itself. *)

LEMMA ReachedStages ==
  ASSUME ChainOK, NEW h \in Hash, NEW s, Reach(h, s)
  PROVE  /\ chain' = [chain EXCEPT ![h] = chain[h] \cup {s}]
         /\ chain'[h] = chain[h] \cup {s}
         /\ \A g \in Hash \ {h} : chain'[g] = chain[g]
         /\ chain[h] \cup {s} \in Courses => chain' \in [Hash -> Courses]
BY DEF Reach, ChainOK

LEMMA ChainStartOK ==
  ASSUME ChainOK, NEW h \in Hash, NEW t, missed' \in Nat, ChainStart(h, t)
  PROVE  ChainOK'
<1>1. /\ chain[h] = {} /\ executing' = {h} /\ UNCHANGED <<ran, txnsRun>>
      /\ Reach(h, "Proposed")
  BY DEF ChainStart
<1>2. /\ chain'[h] = {"Proposed"} /\ chain' \in [Hash -> Courses]
      /\ \A g \in Hash \ {h} : chain'[g] = chain[g]
  BY <1>1, ReachedStages DEF Courses
<1>3. h \notin ran
  BY <1>1 DEF ChainOK, Started
<1> QED
  BY <1>1, <1>2, <1>3 DEF ChainOK, Started

LEMMA ChainTxnOK ==
  ASSUME ChainOK, NEW h \in Hash, missed' \in Nat, ChainTxn(h)
  PROVE  ChainOK'
<1>1. /\ executing = {h} /\ txnsRun' = [txnsRun EXCEPT ![h] = @ + 1]
      /\ UNCHANGED <<executing, chain, ran>>
  BY DEF ChainTxn
<1>2. txnsRun' \in [Hash -> Nat]
  BY <1>1 DEF ChainOK
<1>3. Started(h)
  BY <1>1 DEF ChainOK, Started
<1>4. \A g \in Hash \ {h} : txnsRun'[g] = txnsRun[g]
  BY <1>1 DEF ChainOK
<1> QED
  BY <1>1, <1>2, <1>3, <1>4 DEF ChainOK, Started

LEMMA ChainEndOK ==
  ASSUME ChainOK, NEW h \in Hash, missed' \in Nat, ChainEnd(h)
  PROVE  ChainOK'
<1>1. /\ executing = {h} /\ executing' = {} /\ ran' = ran \cup {h}
      /\ UNCHANGED <<chain, txnsRun>>
  BY DEF ChainEnd
<1>2. Started(h)
  BY <1>1 DEF ChainOK, Started
<1> QED
  BY <1>1, <1>2 DEF ChainOK, Started

(* Block h reaches one more stage of its course. *)
LEMMA ChainReachOK ==
  ASSUME ChainOK, NEW h \in Hash, NEW s, missed' \in Nat, Reach(h, s),
         chain[h] \cup {s} \in Courses, UNCHANGED <<ran, txnsRun>>,
         executing' \subseteq executing,
         h \in executing' => s = "Voted"
  PROVE  ChainOK'
<1>1. /\ chain'[h] = chain[h] \cup {s} /\ chain' \in [Hash -> Courses]
      /\ \A g \in Hash \ {h} : chain'[g] = chain[g]
  BY ReachedStages
<1>2. ASSUME NEW g \in executing'
      PROVE  chain'[g] \in {{"Proposed"}, {"Proposed", "Voted"}} /\ g \notin ran
  <2>1. g \in Hash /\ g \notin ran /\ chain[g] \in {{"Proposed"}, {"Proposed", "Voted"}}
    BY DEF ChainOK
  <2>2. CASE g = h
    <3>1. chain'[h] = chain[h] \cup {"Voted"}
      BY <1>1, <1>2, <2>2
    <3>2. chain[h] \cup {"Voted"} = {"Proposed", "Voted"}
      BY <2>1, <2>2
    <3> QED
      BY <2>1, <2>2, <3>1, <3>2
  <2>3. CASE g # h
    BY <1>1, <2>1, <2>3
  <2> QED
    BY <2>2, <2>3
<1>3. \A g \in Hash : chain[g] # {} => chain'[g] # {}
  BY <1>1
<1> QED
  BY <1>1, <1>2, <1>3 DEF ChainOK, Started
----------------------------------------------------------------------------
(* Each event of the chain, delivered or missed. *)

LEMMA MissedStep ==
  ASSUME Followed, ChainOK', missed' = missed + 1, Silent,
         UNCHANGED <<tracker, currentBlock>>,
         \A h \in Hash : chain[h] \subseteq chain'[h]
  PROVE  Followed'
<1>1. missed \in Nat
  BY DEF Followed, ChainOK
<1>2. ChainGrows /\ ~NothingMissed'
  BY <1>1 DEF ChainGrows, NothingMissed
<1>3. IInv'
  BY SilentStep DEF Followed
<1>4. StagesStay
  BY DEF Silent, tracker, StagesStay
<1> QED
  BY <1>2, <1>3, <1>4, MissedKeeps

LEMMA MissedIsNat ==
  ASSUME ChainOK, UNCHANGED missed \/ missed' = missed + 1
  PROVE  missed' \in Nat
BY DEF ChainOK

LEMMA StartFollowed ==
  ASSUME Followed, NEW h \in Hash, NEW t \in Time, ChainStart(h, t)
  PROVE  Followed'
<1>1. \/ BlockStart(h, t) /\ UNCHANGED missed
      \/ missed' = missed + 1 /\ Silent /\ UNCHANGED <<tracker, currentBlock>>
  BY DEF ChainStart, Delivered
<1>2. ChainOK'
  BY <1>1, MissedIsNat, ChainStartOK DEF Followed
<1>3. CASE BlockStart(h, t) /\ UNCHANGED missed
  <2>1. IInv'
    BY <1>3, StartStep DEF Followed
  <2> QED
    BY <1>2, <1>3, <2>1, StartKeeps
<1>4. CASE missed' = missed + 1 /\ Silent /\ UNCHANGED <<tracker, currentBlock>>
  <2>1. \A g \in Hash : chain[g] \subseteq chain'[g]
    BY ReachedStages DEF Followed, ChainStart
  <2> QED
    BY <1>2, <1>4, <2>1, MissedStep
<1> QED
  BY <1>1, <1>3, <1>4

LEMMA TxnFollowed ==
  ASSUME Followed, NEW h \in Hash, ChainTxn(h)
  PROVE  Followed'
<1>1. /\ UNCHANGED chain
      /\ \/ TxnHeaderStart /\ UNCHANGED missed
         \/ missed' = missed + 1 /\ Silent /\ UNCHANGED <<tracker, currentBlock>>
  BY DEF ChainTxn, Delivered
<1>2. ChainOK'
  BY <1>1, MissedIsNat, ChainTxnOK DEF Followed
<1>3. CASE TxnHeaderStart /\ UNCHANGED missed
  <2>1. IInv'
    BY <1>3, MetadataStep DEF Followed
  <2> QED
    BY <1>2, <1>3, <2>1, TxnKeeps
<1>4. CASE missed' = missed + 1 /\ Silent /\ UNCHANGED <<tracker, currentBlock>>
  BY <1>1, <1>2, <1>4, MissedStep
<1> QED
  BY <1>1, <1>3, <1>4

LEMMA EndFollowed ==
  ASSUME Followed, NEW h \in Hash, ChainEnd(h)
  PROVE  Followed'
<1>1. /\ UNCHANGED chain
      /\ \/ BlockEnd /\ UNCHANGED missed
         \/ missed' = missed + 1 /\ Silent /\ UNCHANGED <<tracker, currentBlock>>
  BY DEF ChainEnd, Delivered
<1>2. ChainOK'
  BY <1>1, MissedIsNat, ChainEndOK DEF Followed
<1>3. CASE BlockEnd /\ UNCHANGED missed
  <2>1. IInv'
    BY <1>3, MetadataStep DEF Followed
  <2> QED
    BY <1>2, <1>3, <2>1, EndKeeps
<1>4. CASE missed' = missed + 1 /\ Silent /\ UNCHANGED <<tracker, currentBlock>>
  BY <1>1, <1>2, <1>4, MissedStep
<1> QED
  BY <1>1, <1>3, <1>4

(* What the stage of an open block of an uncontested chain is.             *)
LEMMA OpenBlockFound ==
  ASSUME Followed, NothingMissed, NoCompetition, NEW h \in Hash,
         Started(h), ~Ended(h)
  PROVE  /\ h \in DOMAIN active /\ active[h].stage \in chain[h]
         /\ Target(h, NumberOf[h]) = {h} /\ Target(Zero, NumberOf[h]) = {h}
<1>1. h \in DOMAIN active
  BY DEF Followed, OpenIsActive
<1>2. active[h].stage \in chain[h]
  <2>1. published[h] \in chain[h]
    BY DEF Followed, PublishedIsCurrent, Started
  <2> QED
    BY <1>1, <2>1, HeldIsOfChain DEF Followed
<1>3. Resolve(NumberOf[h]) = {h}
  BY <1>1 DEF Followed, Indexed, Resolve
<1>4. Zero \notin DOMAIN active
  BY LifecycleAssumption, HeldIsOfChain DEF Followed
<1> QED
  BY <1>1, <1>2, <1>3, <1>4 DEF Target

(* An event that carries the block id never falls back to a sibling.       *)
LEMMA NoSiblingInstead ==
  ASSUME Followed, NothingMissed \/ NoCompetition, NEW h \in Hash,
         Started(h), "Rejected" \notin chain[h]
  PROVE  Target(h, NumberOf[h]) \subseteq {h}
<1>1. CASE h \in DOMAIN active
  BY <1>1 DEF Target
<1>2. CASE h \notin DOMAIN active /\ NothingMissed
  BY <1>2 DEF Target, Followed, LeftIsClosed
<1>3. CASE h \notin DOMAIN active /\ NoCompetition
  <2> SUFFICES ASSUME NEW b \in Resolve(NumberOf[h]), b \in DOMAIN active
               PROVE  FALSE
    BY <1>3 DEF Target
  <2>1. b \in Hash /\ NumberOf[b] = NumberOf[h]
    BY HeldIsOfChain DEF Followed, Resolve
  <2>2. Started(b)
    BY DEF Followed, HeldStarted
  <2> QED
    BY <1>3, <2>1, <2>2 DEF NoCompetition, Started
<1> QED
  BY <1>1, <1>2, <1>3

LEMMA AdvanceFollowed ==
  ASSUME Followed, NEW h \in Hash, NEW s \in Stages, NEW t \in Time,
         NEW id, NEW n, Reach(h, s), chain[h] \cup {s} \in Courses,
         Started(h), s # "Proposed", \A r \in chain[h] : Ord[r] =< Ord[s],
         UNCHANGED <<ran, txnsRun>>, executing' \subseteq executing,
         h \in executing' => s = "Voted",
         TargetIsRight(h, s, Target(id, n)),
         \/ AdvanceStage(id, n, s, t) /\ UNCHANGED <<currentBlock, missed>>
         \/ missed' = missed + 1 /\ Silent /\ UNCHANGED <<tracker, currentBlock>>
  PROVE  Followed'
<1>1. ChainOK'
  BY MissedIsNat, ChainReachOK DEF Followed
<1>2. CASE AdvanceStage(id, n, s, t) /\ UNCHANGED <<currentBlock, missed>>
  <2>1. IInv'
    BY <1>2, AdvanceStep DEF Followed
  <2>2. \/ /\ \A b \in Target(id, n) : ~CanTransitionTo(active[b].stage, s)
           /\ StagesStay /\ TxnsStay
        \/ \E b \in Target(id, n) : Moved(b, s)
    BY <1>2, AdvanceMoves DEF Followed
  <2>3. Reached(h, s)
    BY <1>2 DEF Reach, Reached
  <2>4. Target(id, n) \subseteq DOMAIN active
    BY DEF Target
  <2> QED
    BY <1>1, <2>1, <2>2, <2>3, <2>4, AdvanceKeeps
<1>3. CASE missed' = missed + 1 /\ Silent /\ UNCHANGED <<tracker, currentBlock>>
  <2>1. \A g \in Hash : chain[g] \subseteq chain'[g]
    BY ReachedStages DEF Followed
  <2> QED
    BY <1>1, <1>3, <2>1, MissedStep
<1> QED
  BY <1>2, <1>3

LEMMA QCFollowed ==
  ASSUME Followed, NEW h \in Hash, NEW t \in Time, ChainQC(h, t)
  PROVE  Followed'
<1>1. /\ chain[h] = {"Proposed"} /\ Reach(h, "Voted")
      /\ UNCHANGED <<executing, ran, txnsRun>>
      /\ \/ /\ AdvanceStage(h, NumberOf[h], "Voted", t)
            /\ UNCHANGED <<currentBlock, missed>>
         \/ missed' = missed + 1 /\ Silent /\ UNCHANGED <<tracker, currentBlock>>
  BY DEF ChainQC, Delivered, BlockQC
<1>2. /\ Started(h) /\ ~Ended(h) /\ "Rejected" \notin chain[h]
      /\ \A r \in chain[h] : Ord[r] < Ord["Voted"]
      /\ chain[h] \cup {"Voted"} \in Courses
  BY <1>1 DEF Started, Ended, Ord, Courses
<1>3. /\ "Voted" \in Stages /\ ~IsTerminal("Voted")
      /\ \A r \in chain[h] : Ord[r] =< Ord["Voted"]
  BY <1>1 DEF Stages, IsTerminal, Ord
<1>4. TargetIsRight(h, "Voted", Target(h, NumberOf[h]))
  BY <1>2, <1>3, NoSiblingInstead, OpenBlockFound
     DEF TargetIsRight, CanTransitionTo
<1> QED
  BY <1>1, <1>2, <1>3, <1>4, AdvanceFollowed

LEMMA FinalizeFollowed ==
  ASSUME Followed, NEW h \in Hash, NEW t \in Time, ChainFinalize(h, t)
  PROVE  Followed'
<1>1. /\ chain[h] = {"Proposed", "Voted"} /\ h \in ran
      /\ Reach(h, "Finalized")
      /\ UNCHANGED <<executing, ran, txnsRun>>
      /\ \/ /\ AdvanceStage(h, NumberOf[h], "Finalized", t)
            /\ UNCHANGED <<currentBlock, missed>>
         \/ missed' = missed + 1 /\ Silent /\ UNCHANGED <<tracker, currentBlock>>
  BY DEF ChainFinalize, Delivered, BlockFinalized
<1>2. /\ Started(h) /\ ~Ended(h) /\ "Rejected" \notin chain[h]
      /\ \A r \in chain[h] : Ord[r] < Ord["Finalized"]
      /\ chain[h] \cup {"Finalized"} \in Courses
  BY <1>1 DEF Started, Ended, Ord, Courses
<1>3. /\ "Finalized" \in Stages /\ ~IsTerminal("Finalized")
      /\ \A r \in chain[h] : Ord[r] =< Ord["Finalized"]
  BY <1>1 DEF Stages, IsTerminal, Ord
<1>4. TargetIsRight(h, "Finalized", Target(h, NumberOf[h]))
  BY <1>2, <1>3, NoSiblingInstead, OpenBlockFound
     DEF TargetIsRight, CanTransitionTo
<1>5. h \notin executing'
  BY <1>1 DEF Followed, ChainOK
<1> QED
  BY <1>1, <1>2, <1>3, <1>4, <1>5, AdvanceFollowed

(* BlockVerified reaches a block of the same, final height.                *)
LEMMA VerifyFollowed ==
  ASSUME Followed, NEW h \in Hash, NEW t \in Time, ChainVerify(h, t)
  PROVE  Followed'
<1>1. /\ "Finalized" \in chain[h] /\ "Verified" \notin chain[h]
      /\ Reach(h, "Verified") /\ UNCHANGED <<executing, ran, txnsRun>>
      /\ \/ /\ AdvanceStage(Zero, NumberOf[h], "Verified", t)
            /\ UNCHANGED <<currentBlock, missed>>
         \/ missed' = missed + 1 /\ Silent /\ UNCHANGED <<tracker, currentBlock>>
  BY DEF ChainVerify, Delivered, BlockVerified
<1>2. chain[h] = {"Proposed", "Voted", "Finalized"}
  <2>1. chain[h] \in Courses
    BY DEF Followed, ChainOK
  <2> QED
    BY <1>1, <2>1 DEF Courses
<1>3. /\ Started(h) /\ ~Ended(h)
      /\ \A r \in chain[h] : Ord[r] < Ord["Verified"]
      /\ chain[h] \cup {"Verified"} \in Courses
  BY <1>2 DEF Started, Ended, Ord, Courses
<1>4. /\ "Verified" \in Stages /\ IsTerminal("Verified")
      /\ \A r \in chain[h] : Ord[r] =< Ord["Verified"]
  BY <1>2 DEF Stages, IsTerminal, Ord
<1>5. TargetIsRight(h, "Verified", Target(Zero, NumberOf[h]))
  <2>1. ASSUME NEW b \in Target(Zero, NumberOf[h])
        PROVE  ~HeightOpen(NumberOf[b]) /\ Resolve(NumberOf[b]) = {b}
    <3>1. b \in Resolve(NumberOf[h])
      BY LifecycleAssumption, HeldIsOfChain DEF Target, Followed
    <3>2. NumberOf[b] = NumberOf[h] /\ Resolve(NumberOf[h]) = {b}
      BY <3>1, HeldIsOfChain DEF Resolve, Followed
    <3> QED
      BY <1>1, <3>2 DEF HeightOpen
  <2> QED
    BY <1>3, <1>4, <2>1, OpenBlockFound DEF TargetIsRight, CanTransitionTo
<1>6. h \notin executing'
  BY <1>1 DEF Followed, ChainOK
<1> QED
  BY <1>1, <1>3, <1>4, <1>5, <1>6, AdvanceFollowed

(* BlockReject reaches the block being executed, or no block.              *)
LEMMA RejectFollowed ==
  ASSUME Followed, NEW h \in Hash, NEW t \in Time, ChainReject(h, t)
  PROVE  Followed'
<1>1. /\ executing = {h} /\ chain[h] \cap {"Voted", "Finalized"} = {}
      /\ executing' = {} /\ Reach(h, "Rejected") /\ UNCHANGED <<ran, txnsRun>>
      /\ \/ /\ AdvanceStage(Zero, currentBlock, "Rejected", t)
            /\ UNCHANGED <<currentBlock, missed>>
         \/ missed' = missed + 1 /\ Silent /\ UNCHANGED <<tracker, currentBlock>>
  BY DEF ChainReject, Delivered, BlockReject
<1>2. chain[h] = {"Proposed"}
  <2>1. chain[h] \in {{"Proposed"}, {"Proposed", "Voted"}}
    BY <1>1 DEF Followed, ChainOK
  <2> QED
    BY <1>1, <2>1
<1>3. /\ Started(h) /\ ~Ended(h) /\ chain[h] \cup {"Rejected"} \in Courses
  BY <1>2 DEF Started, Ended, Courses
<1>4. /\ "Rejected" \in Stages /\ IsTerminal("Rejected")
      /\ \A r \in chain[h] : Ord[r] =< Ord["Rejected"]
  BY <1>2 DEF Stages, IsTerminal, Ord
<1>5. TargetIsRight(h, "Rejected", Target(Zero, currentBlock))
  <2>1. ASSUME NothingMissed, NEW b \in Target(Zero, currentBlock)
        PROVE  b = h
    <3>1. b \in Resolve(currentBlock)
      BY LifecycleAssumption, HeldIsOfChain DEF Target, Followed
    <3> QED
      BY <1>1, <2>1, <3>1 DEF Resolve, Followed, CurrentIsExecuting
  <2>2. ASSUME NothingMissed, NoCompetition
        PROVE  Target(Zero, currentBlock) = {h}
    BY <1>1, <1>3, <2>2, OpenBlockFound, ExecutingIsFound
  <2> QED
    BY <1>4, <2>1, <2>2 DEF TargetIsRight, CanTransitionTo
<1> QED
  BY <1>1, <1>3, <1>4, <1>5, AdvanceFollowed
----------------------------------------------------------------------------
LEMMA InitFollowed == ChainInit => Followed
<1> SUFFICES ASSUME ChainInit PROVE Followed
  OBVIOUS
<1>1. /\ Init /\ executing = {} /\ ran = {} /\ missed = 0
      /\ chain = [h \in Hash |-> {}] /\ txnsRun = [h \in Hash |-> 0]
  BY DEF ChainInit
<1>2. /\ DOMAIN active = {} /\ DOMAIN numberToHash = {} /\ completed = <<>>
      /\ published = [h \in Hash |-> Unknown]
  BY <1>1 DEF Init
<1>3. IInv
  BY <1>1, InitIInv
<1>4. ChainOK
  <2>1. {} \in Courses
    BY DEF Courses
  <2> QED
    BY <1>1, <2>1 DEF ChainOK
<1>5. HeldStarted /\ CompletedApart /\ Indexed
  BY <1>2 DEF HeldStarted, CompletedApart, Indexed
<1>6. CurrentIsExecuting /\ LeftIsClosed /\ OpenIsActive
  BY <1>1, <1>2 DEF CurrentIsExecuting, LeftIsClosed, OpenIsActive, Started
<1>7. FinalityIsTrue /\ PublishedIsCurrent /\ TxnsOfTheirBlock
  BY <1>1, <1>2 DEF FinalityIsTrue, PublishedIsCurrent, TxnsOfTheirBlock, Unknown
<1> QED
  BY <1>3, <1>4, <1>5, <1>6, <1>7 DEF Followed

LEMMA NextFollowed ==
  ASSUME Followed, [ChainNext]_allVars
  PROVE  Followed'
<1>1. CASE UNCHANGED allVars
  <2>1. UNCHANGED vars /\ UNCHANGED <<executing, chain, ran, txnsRun, missed>>
    BY <1>1 DEF allVars, chainVars
  <2>2. UNCHANGED <<active, numberToHash, completed, published, currentBlock>>
    BY <2>1 DEF vars
  <2>3. IInv'
    BY <2>1, NextStep DEF Followed
  <2>4. ChainOK'
    BY <2>1 DEF Followed, ChainOK, Started
  <2>5. TxnsOfTheirBlock'
    BY <2>1, <2>2 DEF Followed, TxnsOfTheirBlock, NothingMissed, NoCompetition
  <2>6. StagesStay
    BY <2>2 DEF StagesStay
  <2> QED
    BY <2>1, <2>2, <2>3, <2>4, <2>5, <2>6, QuietKeeps
<1>2. ASSUME NEW h \in Hash, ChainTxn(h) \/ ChainEnd(h)
      PROVE  Followed'
  BY <1>2, TxnFollowed, EndFollowed
<1>3. ASSUME NEW h \in Hash, NEW t \in Time,
             \/ ChainStart(h, t) \/ ChainReject(h, t) \/ ChainQC(h, t)
             \/ ChainFinalize(h, t) \/ ChainVerify(h, t)
      PROVE  Followed'
  BY <1>3, StartFollowed, RejectFollowed, QCFollowed, FinalizeFollowed,
     VerifyFollowed
<1> QED
  BY <1>1, <1>2, <1>3 DEF ChainNext

LEMMA AlwaysFollowed == ChainSpec => []Followed
<1>1. Followed /\ [ChainNext]_allVars => Followed'
  BY NextFollowed
<1> QED
  BY InitFollowed, <1>1, PTL DEF ChainSpec
----------------------------------------------------------------------------
(* Voted and Finalized are published of a block only if the chain voted    *)
(* for or finalized that block: with every event received whatever blocks  *)
(* compete, and without competition whatever events are missed.            *)
THEOREM FinalityPublishedIsTrue == ChainSpec => []FinalityIsTrue
<1>1. Followed => FinalityIsTrue
  BY DEF Followed
<1> QED
  BY AlwaysFollowed, <1>1, PTL

(* With nothing missed and no competition a block is published at the      *)
(* furthest stage it reached: neither the monotonic check nor the fallback *)
(* by number nor an eviction loses or misdirects a transition.             *)
THEOREM PublishedStageIsCurrent == ChainSpec => []PublishedIsCurrent
<1>1. Followed => PublishedIsCurrent
  BY DEF Followed
<1> QED
  BY AlwaysFollowed, <1>1, PTL

(* The transactions counted through current_block_number are those of the  *)
(* block they are published with, while it is open and when it is done.    *)
THEOREM TransactionsAreOfTheirBlock == ChainSpec => []TxnsOfTheirBlock
<1>1. Followed => TxnsOfTheirBlock
  BY DEF Followed
<1> QED
  BY AlwaysFollowed, <1>1, PTL

(* Eviction from the completed queue takes no index entry away from an     *)
(* active block, so an event that carries only a number finds its block.   *)
THEOREM ActiveStaysReachable == ChainSpec => []ActiveReachable
<1>1. Followed => ActiveReachable
  <2> SUFFICES ASSUME Followed, NoCompetition, NEW h \in DOMAIN active
               PROVE  Target(Zero, NumberOf[h]) = {h}
    BY DEF ActiveReachable
  <2>1. Resolve(NumberOf[h]) = {h}
    BY DEF Followed, Indexed, Resolve
  <2>2. Zero \notin DOMAIN active
    BY LifecycleAssumption, HeldIsOfChain DEF Followed
  <2> QED
    BY <2>1, <2>2 DEF Target
<1> QED
  BY AlwaysFollowed, <1>1, PTL

LEMMA MinIsMember ==
  ASSUME NEW S \in SUBSET Nat, S # {}
  PROVE  Min(S) \in S
<1>1. PICK n \in S : \A m \in S : <<m, n>> \notin OpToRel(<, Nat)
  BY WFMin, NatLessThanWellFounded
<1>2. ASSUME NEW m \in S PROVE n =< m
  <2>1. <<m, n>> \notin OpToRel(<, Nat)
    BY <1>1
  <2>2. m \in Nat /\ n \in Nat
    OBVIOUS
  <2>3. ~(m < n)
    BY <2>1, <2>2 DEF OpToRel
  <2> QED
    BY <2>2, <2>3
<1> QED
  BY <1>2 DEF Min

(* The REST handlers and the commit_stage tags, which go through the index *)
(* and search the completed queue after the active blocks, report what the *)
(* feed last said of the block.                                            *)
THEOREM ReadersSeeTheFeed == ChainSpec => []ReadersSeePublished
<1>1. Followed => ReadersSeePublished
  <2> SUFFICES ASSUME Followed, NEW n \in DOMAIN numberToHash
               PROVE  CurrentStageByNumber(n) = {published[numberToHash[n]]}
    BY DEF ReadersSeePublished
  <2> DEFINE h == numberToHash[n]
             done == {i \in 1..Len(completed) : completed[i].hash = h}
  <2>1. CurrentStageByNumber(n) = CurrentStage(h)
    BY DEF CurrentStageByNumber, Resolve
  <2>2. CASE h \in DOMAIN active
    <3>1. published[h] = active[h].stage
      BY <2>2, HeldIsOfChain DEF Followed
    <3> QED
      BY <2>1, <2>2, <3>1 DEF CurrentStage
  <2>3. CASE h \notin DOMAIN active
    <3>1. done # {} /\ done \in SUBSET Nat
      <4>1. Len(completed) \in Nat
        BY DEF Followed, IInv, TypeOK
      <4>2. IndexSound
        BY DEF Followed, IInv
      <4> QED
        BY <2>3, <4>1, <4>2 DEF IndexSound
    <3>2. Min(done) \in done
      BY <3>1, MinIsMember
    <3>3. completed[Min(done)].stage = published[h]
      BY <3>2 DEF Followed, CompletedApart
    <3>4. CurrentStage(h) = {completed[Min(done)].stage}
      BY <2>3, <3>1 DEF CurrentStage
    <3> QED
      BY <2>1, <3>3, <3>4
  <2> QED
    BY <2>2, <2>3
<1> QED
  BY AlwaysFollowed, <1>1, PTL
=============================================================================
