------------------------ MODULE EventPipeline_proofs ------------------------
(***************************************************************************)
(* For every feed, every size of ring, channel and table: what the reader  *)
(* passed is accounted for, in order; the transactions of a stretch are    *)
(* counted once; the published TPS is that of the last three stretches;    *)
(* and the sets the contention figures are computed from are those of the  *)
(* events since the last BlockStart.                                       *)
(***************************************************************************)
EXTENDS EventPipeline, FiniteSetTheorems, TLAPS

LEMMA MaxOfTwo ==
  ASSUME NEW a \in Int, NEW b \in Int
  PROVE  Max({a, b}) \in {a, b} /\ Max({a, b}) >= a /\ Max({a, b}) >= b
<1>1. \E x \in {a, b} : \A y \in {a, b} : x >= y
  <2>1. CASE a >= b
    BY <2>1
  <2>2. CASE b >= a
    BY <2>2
  <2> QED
    BY <2>1, <2>2
<1> QED
  BY <1>1 DEF Max

LEMMA SeqGrows ==
  ASSUME NEW m \in Nat, NEW n \in Nat, m =< n, NEW q \in Seq(1..m)
  PROVE  q \in Seq(1..n)
<1>1. 1..m \subseteq 1..n
  OBVIOUS
<1> QED
  BY <1>1

LEMMA FeedFacts ==
  ASSUME RingTypeOK
  PROVE  /\ feed \in Seq(Event) /\ Len(feed) \in Nat
         /\ written \in Nat /\ pos \in Nat /\ pos =< written
         /\ written =< Len(feed)
         /\ \A n \in Positions : n \in DOMAIN feed /\ feed[n] \in Event
         /\ Positions \subseteq Nat
<1>1. feed \in Seq(Event) /\ Len(feed) \in Nat /\ DOMAIN feed = 1..Len(feed)
  BY PipelineAssumption DEF RingTypeOK
<1>2. written \in Nat /\ pos \in Nat /\ pos =< written /\ written =< Len(feed)
  BY <1>1 DEF RingTypeOK
<1>3. \A n \in Positions : n \in DOMAIN feed /\ feed[n] \in Event
  BY <1>1, <1>2 DEF Positions
<1> QED
  BY <1>1, <1>2, <1>3 DEF Positions
----------------------------------------------------------------------------
(* The reader: a reset never moves it back nor beyond what is written, and *)
(* what it skips is behind it.                                             *)
LEMMA ResetFacts ==
  ASSUME RingTypeOK, NEW lost \in SUBSET Positions, Reset(lost)
  PROVE  /\ pos' \in Nat /\ pos =< pos' /\ pos' =< written
         /\ missed' = missed \cup lost \cup (pos + 1)..pos'
         /\ missed' \subseteq 1..pos'
<1>1. PICK p \in {written, Max({pos, written - 1})} :
        pos' = p /\ missed' = missed \cup lost \cup (pos + 1)..p
  BY DEF Reset
<1>2. pos \in Nat /\ written \in Nat /\ pos =< written
  BY FeedFacts
<1>3. Max({pos, written - 1}) \in {pos, written - 1} /\ Max({pos, written - 1}) >= pos
  <2>1. written - 1 \in Int /\ pos \in Int
    BY <1>2
  <2> QED
    BY <2>1, MaxOfTwo
<1>4. p \in Nat /\ pos =< p /\ p =< written
  BY <1>1, <1>2, <1>3
<1>5. missed \subseteq 1..pos /\ lost \subseteq 1..pos
  BY DEF RingTypeOK, Positions
<1> QED
  BY <1>1, <1>2, <1>4, <1>5

(* One step of the listener thread. *)
LEMMA ListenRing ==
  ASSUME RingTypeOK, Listen
  PROVE  RingTypeOK'
<1> USE DEF None, Some
<1>1. /\ pos \in Nat /\ written \in Nat /\ pos =< written
      /\ feed' = feed /\ live' = live /\ written' = written
      /\ missed \subseteq 1..pos /\ held \subseteq 1..pos
      /\ queue \in Seq(1..pos) /\ Len(queue) \in Nat /\ Len(queue) =< QueueCap
      /\ feed \in Feeds /\ live \in BOOLEAN /\ written \in 0..Len(feed)
      /\ \A m, n \in held : m = n
      /\ held # {} <=> listener \in {"converting", "sending"}
  BY FeedFacts DEF Listen, ringVars, RingTypeOK, Positions
<1>2. SUFFICES /\ listener' \in {"opening", "skipping", "reading",
                                 "converting", "sending", "ended"}
               /\ pos' \in 0..written /\ missed' \subseteq 1..pos'
               /\ held' \subseteq 1..pos' /\ \A m, n \in held' : m = n
               /\ held' # {} <=> listener' \in {"converting", "sending"}
               /\ queue' \in Seq(1..pos') /\ Len(queue') =< QueueCap
  BY <1>1 DEF RingTypeOK, Positions
<1>3. CASE Open
  BY <1>1, <1>3 DEF Open
<1>4. CASE SkipReady
  <2>1. pos' = pos + 1 /\ pos' =< written /\ queue' = queue
    BY <1>1, <1>4 DEF SkipReady, Ready
  <2>2. queue' \in Seq(1..pos')
    BY <2>1, <1>1, SeqGrows
  <2> QED
    BY <1>1, <1>4, <2>1, <2>2 DEF SkipReady
<1>5. CASE SkipDone
  BY <1>1, <1>5 DEF SkipDone
<1>6. CASE ReadGap
  <2>1. /\ pos' \in Nat /\ pos =< pos' /\ pos' =< written
        /\ missed' \subseteq 1..pos'
    BY <1>6, ResetFacts DEF ReadGap
  <2>2. queue' \in Seq(1..pos')
    BY <2>1, <1>1, <1>6, SeqGrows DEF ReadGap
  <2> QED
    BY <1>1, <1>6, <2>1, <2>2 DEF ReadGap
<1>7. CASE ReadReady
  <2>1. pos' = pos + 1 /\ pos' =< written /\ queue' = queue
    BY <1>1, <1>7 DEF ReadReady, Ready
  <2>2. queue' \in Seq(1..pos')
    BY <2>1, <1>1, SeqGrows
  <2> QED
    BY <1>1, <1>7, <2>1, <2>2 DEF ReadReady
<1>8. CASE ReadEnd
  BY <1>1, <1>8 DEF ReadEnd
<1>9. CASE Convert
  BY <1>1, <1>9 DEF Convert
<1>10. CASE GiveUp
  <2>1. /\ pos' \in Nat /\ pos =< pos' /\ pos' =< written
        /\ missed' \subseteq 1..pos'
    BY <1>10, ResetFacts DEF GiveUp, RingTypeOK
  <2>2. queue' \in Seq(1..pos')
    BY <2>1, <1>1, <1>10, SeqGrows DEF GiveUp
  <2> QED
    BY <1>1, <1>10, <2>1, <2>2 DEF GiveUp
<1>11. CASE SendToForwarder
  <2>1. PICK n \in held : queue' = Append(queue, n)
    BY <1>11 DEF SendToForwarder
  <2>2. queue' \in Seq(1..pos) /\ Len(queue') = Len(queue) + 1
    BY <1>1, <2>1
  <2>3. Len(queue) < QueueCap /\ QueueCap \in Nat
    BY <1>11, PipelineAssumption DEF SendToForwarder
  <2> QED
    BY <1>1, <1>11, <2>2, <2>3 DEF SendToForwarder
<1>12. CASE SendFails
  BY <1>1, <1>12 DEF SendFails
<1> QED
  BY <1>3, <1>4, <1>5, <1>6, <1>7, <1>8, <1>9, <1>10, <1>11, <1>12 DEF Listen

(* What the other steps do to the reader's part. *)
LEMMA QueueFacts ==
  ASSUME NEW S, NEW q \in Seq(S), q # <<>>
  PROVE  /\ Head(q) \in S /\ Head(q) = q[1] /\ 1 \in DOMAIN q
         /\ Tail(q) \in Seq(S) /\ Len(Tail(q)) = Len(q) - 1 /\ Len(q) \in Nat
         /\ \A i \in DOMAIN Tail(q) : i + 1 \in DOMAIN q /\ Tail(q)[i] = q[i + 1]
OBVIOUS

LEMMA RingStep ==
  ASSUME RingTypeOK, [Next]_vars
  PROVE  RingTypeOK'
<1> USE DEF RingTypeOK, Positions
<1>1. CASE Write
  BY <1>1, FeedFacts DEF Write, listenerVars
<1>2. CASE Listen
  BY <1>2, ListenRing
<1>3. CASE Forward
  <2>1. UNCHANGED <<feed, live, written, listener, pos, held, missed>>
    BY <1>3 DEF Forward, ringVars, listenerVars
  <2>2. queue' = queue \/ queue' = <<>> \/ (queue # <<>> /\ queue' = Tail(queue))
    BY <1>3 DEF Forward, Handle, Panic, Drained
  <2>3. queue' \in Seq(1..pos) /\ Len(queue') =< QueueCap
    <3>1. CASE queue' = <<>>
      BY <3>1, PipelineAssumption
    <3>2. CASE queue # <<>> /\ queue' = Tail(queue)
      BY <3>2, QueueFacts, PipelineAssumption
    <3> QED
      BY <2>2, <3>1, <3>2
  <2> QED
    BY <2>1, <2>3
<1>4. CASE Stop
  <2>1. written \in Nat /\ 0 \in 0..written /\ <<>> \in Seq(1..0) /\ Len(<<>>) = 0
    BY FeedFacts
  <2> QED
    BY <1>4, <2>1, PipelineAssumption DEF Stop, ringVars, None
<1>5. CASE Age
  BY <1>5 DEF Age, ringVars, listenerVars
<1>6. CASE UNCHANGED vars
  BY <1>6 DEF vars, ringVars, listenerVars
<1> QED
  BY <1>1, <1>2, <1>3, <1>4, <1>5, <1>6 DEF Next, ListenerEnds, ServerEnds, Health
----------------------------------------------------------------------------
(* Accounted holds of the reader's and the channel's steps, and of the     *)
(* forwarder's; it and RingTypeOK are inductive together.                  *)
LEMMA SetOfQueue ==
  ASSUME NEW S, NEW q \in Seq(S)
  PROVE  /\ ToSet(q) \subseteq S
         /\ \A x : x \in ToSet(q) <=> \E i \in DOMAIN q : x = q[i]
         /\ \A x \in S : ToSet(Append(q, x)) = ToSet(q) \cup {x}
         /\ q # <<>> => ToSet(q) = {Head(q)} \cup ToSet(Tail(q))
<1>1. ToSet(q) \subseteq S /\ \A x : x \in ToSet(q) <=> \E i \in DOMAIN q : x = q[i]
  BY DEF ToSet
<1>2. ASSUME NEW x \in S PROVE ToSet(Append(q, x)) = ToSet(q) \cup {x}
  <2>1. DOMAIN Append(q, x) = DOMAIN q \cup {Len(q) + 1} /\ Append(q, x)[Len(q) + 1] = x
    OBVIOUS
  <2>2. \A i \in DOMAIN q : Append(q, x)[i] = q[i]
    OBVIOUS
  <2> QED
    BY <2>1, <2>2 DEF ToSet
<1>3. ASSUME q # <<>> PROVE ToSet(q) = {Head(q)} \cup ToSet(Tail(q))
  <2>1. DOMAIN q = 1..Len(q) /\ DOMAIN Tail(q) = 1..(Len(q) - 1) /\ Len(q) \in Nat
        /\ Len(q) > 0 /\ Head(q) = q[1]
        /\ \A i \in 1..(Len(q) - 1) : Tail(q)[i] = q[i + 1]
    BY <1>3
  <2>2. \A i \in 1..Len(q) : i = 1 \/ i - 1 \in 1..(Len(q) - 1)
    BY <2>1
  <2>3. \A i \in 1..Len(q) : i # 1 => q[i] = Tail(q)[i - 1]
    BY <2>1, <2>2
  <2>4. ASSUME NEW x \in ToSet(q) PROVE x \in {Head(q)} \cup ToSet(Tail(q))
    BY <2>1, <2>2, <2>3, <2>4 DEF ToSet
  <2>5. ASSUME NEW x \in ToSet(Tail(q)) PROVE x \in ToSet(q)
    BY <2>1, <2>5 DEF ToSet
  <2>6. Head(q) \in ToSet(q)
    BY <2>1 DEF ToSet
  <2> QED
    BY <2>4, <2>5, <2>6
<1> QED
  BY <1>1, <1>2, <1>3

InOrder(q, h) ==
  /\ \A i, j \in DOMAIN q : i < j => q[i] < q[j]
  /\ \A i \in DOMAIN q, n \in h : q[i] < n

LEMMA AccountedListen ==
  ASSUME RingTypeOK, Accounted, Listen
  PROVE  Accounted'
<1> SUFFICES ASSUME forwarder' = "running"
             PROVE  /\ 1..pos' = handled' \cup (ToSet(queue') \cup held') \cup missed'
                    /\ missed' \cap (handled' \cup (ToSet(queue') \cup held')) = {}
                    /\ \A m \in handled', n \in ToSet(queue') \cup held' : m < n
                    /\ InOrder(queue', held')
  BY DEF Accounted, InTransit, Positions, InOrder
<1> USE DEF None, Some
<1>1. /\ 1..pos = handled \cup (ToSet(queue) \cup held) \cup missed
      /\ missed \cap (handled \cup (ToSet(queue) \cup held)) = {}
      /\ \A m \in handled, n \in ToSet(queue) \cup held : m < n
      /\ InOrder(queue, held)
      /\ handled' = handled /\ forwarder = "running"
  BY DEF Accounted, InTransit, Positions, InOrder, Listen, forwarderVars
<1>2. pos \in Nat /\ queue \in Seq(1..pos)
      /\ (held # {} <=> listener \in {"converting", "sending"})
      /\ \A m, n \in held : m = n
  BY FeedFacts DEF RingTypeOK, Positions
<1> HIDE DEF InOrder
<1>3. CASE Open \/ SkipDone \/ ReadEnd \/ Convert
  BY <1>1, <1>3 DEF Open, SkipDone, ReadEnd, Convert
<1>4. CASE SkipReady
  <2>1. 1..(pos + 1) = 1..pos \cup {pos + 1} /\ pos + 1 \notin 1..pos
    BY <1>2
  <2> QED
    BY <1>1, <1>4, <2>1 DEF SkipReady
<1>5. CASE ReadGap
  <2>1. pos' \in Nat /\ pos =< pos' /\ missed' = missed \cup {} \cup (pos + 1)..pos'
    BY <1>5, ResetFacts DEF ReadGap
  <2>2. 1..pos' = 1..pos \cup (pos + 1)..pos' /\ 1..pos \cap (pos + 1)..pos' = {}
    BY <2>1, <1>2
  <2>3. handled' = handled /\ queue' = queue /\ held' = held
    BY <1>1, <1>5 DEF ReadGap
  <2> QED
    BY <1>1, <2>1, <2>2, <2>3
<1>6. CASE ReadReady
  <2>1. 1..(pos + 1) = 1..pos \cup {pos + 1} /\ \A n \in 1..pos : n < pos + 1
    BY <1>2
  <2>2. held = {} /\ held' = {pos + 1} /\ pos' = pos + 1 /\ queue' = queue /\ missed' = missed
    BY <1>2, <1>6 DEF ReadReady
  <2>3. InOrder(queue', held')
    BY <1>1, <1>2, <2>1, <2>2 DEF InOrder
  <2>4. ToSet(queue) \subseteq 1..pos /\ handled \subseteq 1..pos /\ missed \subseteq 1..pos
    BY <1>1
  <2> QED
    BY <1>1, <2>1, <2>2, <2>3, <2>4
<1>7. CASE GiveUp
  <2>1. pos' \in Nat /\ pos =< pos' /\ missed' = missed \cup held \cup (pos + 1)..pos'
    BY <1>7, ResetFacts DEF GiveUp, RingTypeOK
  <2>2. 1..pos' = 1..pos \cup (pos + 1)..pos' /\ 1..pos \cap (pos + 1)..pos' = {}
    BY <2>1, <1>2
  <2>3. handled' = handled /\ queue' = queue /\ held' = {}
    BY <1>1, <1>7 DEF GiveUp
  <2>4. held \cap (handled \cup ToSet(queue)) = {}
    <3>1. \A n \in held : n \notin ToSet(queue)
      BY <1>1, <1>2, SetOfQueue DEF InOrder
    <3>2. \A n \in held : n \notin handled
      BY <1>1, <1>2
    <3> QED
      BY <3>1, <3>2
  <2>5. InOrder(queue', held')
    BY <1>1, <2>3 DEF InOrder
  <2> QED
    BY <1>1, <2>1, <2>2, <2>3, <2>4, <2>5
<1>8. CASE SendToForwarder
  <2>1. PICK n \in held : queue' = Append(queue, n)
    BY <1>8 DEF SendToForwarder
  <2>2. held = {n} /\ n \in 1..pos /\ held' = {} /\ pos' = pos /\ missed' = missed
    BY <1>1, <1>2, <1>8, <2>1 DEF SendToForwarder
  <2>3. ToSet(queue') = ToSet(queue) \cup {n}
    BY <1>2, <2>1, <2>2, SetOfQueue
  <2>4. /\ DOMAIN queue' = 1..(Len(queue) + 1) /\ Len(queue) \in Nat
        /\ DOMAIN queue = 1..Len(queue)
        /\ \A i \in DOMAIN queue : queue'[i] = queue[i]
        /\ queue'[Len(queue) + 1] = n
    BY <1>2, <2>1, <2>2
  <2>5. InOrder(queue', held')
    <3>1. \A i \in DOMAIN queue' : i \in DOMAIN queue \/ i = Len(queue) + 1
      BY <2>4
    <3>2. ASSUME NEW i \in DOMAIN queue', NEW j \in DOMAIN queue', i < j
          PROVE  queue'[i] < queue'[j]
      <4>1. i \in DOMAIN queue /\ queue'[i] = queue[i]
        BY <2>4, <3>2
      <4>2. CASE j \in DOMAIN queue
        BY <1>1, <2>4, <3>2, <4>1, <4>2 DEF InOrder
      <4>3. CASE j = Len(queue) + 1
        BY <1>1, <2>1, <2>4, <4>1, <4>3 DEF InOrder
      <4> QED
        BY <3>1, <4>2, <4>3
    <3> QED
      BY <2>2, <3>2 DEF InOrder
  <2> QED
    BY <1>1, <2>2, <2>3, <2>5
<1>9. CASE SendFails
  BY <1>1, <1>9 DEF SendFails
<1> QED
  BY <1>3, <1>4, <1>5, <1>6, <1>7, <1>8, <1>9 DEF Listen

(* What the forwarder handles is the oldest event it has not handled.      *)
LEMMA AccountedForward ==
  ASSUME RingTypeOK, Accounted, Forward
  PROVE  Accounted'
<1> SUFFICES ASSUME forwarder' = "running"
             PROVE  Accounted'
  BY DEF Accounted
<1>1. /\ 1..pos = handled \cup (ToSet(queue) \cup held) \cup missed
      /\ missed \cap (handled \cup (ToSet(queue) \cup held)) = {}
      /\ \A m \in handled, n \in ToSet(queue) \cup held : m < n
      /\ InOrder(queue, held)
      /\ pos' = pos /\ held' = held /\ missed' = missed
  BY DEF Accounted, InTransit, Positions, InOrder, Forward, listenerVars
<1>2. pos \in Nat /\ queue \in Seq(1..pos) /\ held \subseteq 1..pos
  BY FeedFacts DEF RingTypeOK, Positions
<1>3. CASE Handle
  <2>1. queue # <<>> /\ queue' = Tail(queue) /\ handled' = handled \cup {Head(queue)}
    BY <1>3 DEF Handle
  <2>2. ToSet(queue) = {Head(queue)} \cup ToSet(queue')
    BY <1>2, <2>1, SetOfQueue
  <2>3. /\ Head(queue) = queue[1] /\ 1 \in DOMAIN queue /\ queue' \in Seq(1..pos)
        /\ \A i \in DOMAIN queue' : i + 1 \in DOMAIN queue /\ queue'[i] = queue[i + 1]
        /\ \A i \in DOMAIN queue' : i \in Nat /\ 1 < i + 1
    BY <1>2, <2>1, QueueFacts
  <2>4. InOrder(queue', held)
    <3>1. \A i, j \in DOMAIN queue' : i < j => i + 1 < j + 1
      BY <2>3
    <3> QED
      BY <1>1, <2>3, <3>1 DEF InOrder
  <2>5. \A n \in ToSet(queue') \cup held : Head(queue) < n
    <3>1. ASSUME NEW n \in ToSet(queue') PROVE Head(queue) < n
      <4>1. PICK i \in DOMAIN queue' : n = queue'[i]
        BY <2>3, SetOfQueue
      <4> QED
        BY <1>1, <2>3, <4>1 DEF InOrder
    <3>2. ASSUME NEW n \in held PROVE Head(queue) < n
      BY <1>1, <2>3 DEF InOrder
    <3> QED
      BY <3>1, <3>2
  <2>6. \A m \in handled', n \in ToSet(queue') \cup held : m < n
    BY <1>1, <2>1, <2>2, <2>5
  <2>7. 1..pos = handled' \cup (ToSet(queue') \cup held) \cup missed
        /\ missed \cap (handled' \cup (ToSet(queue') \cup held)) = {}
    BY <1>1, <2>1, <2>2
  <2> QED
    BY <1>1, <2>4, <2>6, <2>7 DEF Accounted, InTransit, Positions, InOrder
<1>4. CASE Panic \/ Drained
  BY <1>4 DEF Panic, Drained
<1> QED
  BY <1>3, <1>4 DEF Forward

LEMMA AccountedStep ==
  ASSUME RingTypeOK, Accounted, [Next]_vars
  PROVE  Accounted'
<1>1. CASE Listen
  BY <1>1, AccountedListen
<1>2. CASE Forward
  BY <1>2, AccountedForward
<1>3. CASE Stop
  BY <1>3 DEF Stop, Accounted
<1>4. CASE Write \/ Age \/ UNCHANGED vars
  BY <1>4 DEF Write, Age, vars, listenerVars, forwarderVars, Accounted, InTransit, Positions
<1> QED
  BY <1>1, <1>2, <1>3, <1>4 DEF Next, ListenerEnds, ServerEnds, Health
----------------------------------------------------------------------------
(* The forwarder's part. *)

LEMMA NewEvent ==
  ASSUME RingTypeOK, Accounted, Forward, Handle
  PROVE  /\ Head(queue) \in Positions /\ Head(queue) \notin handled
         /\ \A m \in handled : m < Head(queue)
         /\ feed[Head(queue)] \in Event
         /\ ~OutOfTable(feed[Head(queue)])
         /\ pos' = pos /\ feed' = feed
         /\ handled' = handled \cup {Head(queue)}
<1>1. queue # <<>> /\ queue \in Seq(Positions)
  BY DEF Handle, RingTypeOK
<1>2. Head(queue) \in Positions /\ Head(queue) = queue[1] /\ 1 \in DOMAIN queue
  BY <1>1, QueueFacts
<1>3. Head(queue) \in ToSet(queue)
  BY <1>2 DEF ToSet
<1>4. Head(queue) \notin handled
  <2>1. ASSUME Head(queue) \in handled PROVE FALSE
    <3>1. Head(queue) < Head(queue)
      BY <1>3, <2>1 DEF Accounted, InTransit, Forward
    <3> QED
      BY <3>1, <1>2, FeedFacts
  <2> QED
    BY <2>1
<1>5. feed[Head(queue)] \in Event
  BY <1>2, FeedFacts
<1>6. \A m \in handled : m < Head(queue)
  BY <1>3 DEF Accounted, InTransit, Forward
<1> QED
  BY <1>1, <1>2, <1>4, <1>5, <1>6 DEF Handle, Forward, listenerVars, ringVars

(* Sets of events are finite, so they can be counted. *)
LEMMA CountedHeaders ==
  ASSUME RingTypeOK, NEW events \in SUBSET Positions
  PROVE  /\ IsFiniteSet(events) /\ IsFiniteSet(Headers(events))
         /\ Cardinality(Headers(events)) \in Nat
<1>1. IsFiniteSet(Positions)
  BY FeedFacts, FS_Interval DEF Positions
<1>2. IsFiniteSet(events) /\ Headers(events) \subseteq events
  BY <1>1, FS_Subset DEF Headers
<1>3. IsFiniteSet(Headers(events))
  BY <1>2, FS_Subset
<1> QED
  BY <1>2, <1>3, FS_CardinalityType

LEMMA OneMore ==
  ASSUME RingTypeOK, NEW events \in SUBSET Positions,
         NEW n \in Positions, n \notin events
  PROVE  Cardinality(Headers(events \cup {n})) =
           Cardinality(Headers(events))
             + (IF feed[n].kind = "TxnHeaderStart" THEN 1 ELSE 0)
<1>1. IsFiniteSet(Headers(events)) /\ Cardinality(Headers(events)) \in Nat
  BY CountedHeaders
<1>2. CASE feed[n].kind = "TxnHeaderStart"
  <2>1. Headers(events \cup {n}) = Headers(events) \cup {n} /\ n \notin Headers(events)
    BY <1>2 DEF Headers
  <2> QED
    BY <1>1, <1>2, <2>1, FS_AddElement
<1>3. CASE feed[n].kind # "TxnHeaderStart"
  <2>1. Headers(events \cup {n}) = Headers(events)
    BY <1>3 DEF Headers
  <2> QED
    BY <1>1, <1>3, <2>1
<1> QED
  BY <1>2, <1>3

LEMMA OnlyBlockStart ==
  ASSUME RingTypeOK, NEW n \in Positions, feed[n].kind = "BlockStart"
  PROVE  Cardinality(Headers({n})) = 0
<1>1. Headers({n}) = {}
  BY DEF Headers
<1> QED
  BY <1>1, FS_EmptySet

LEMMA TableStep ==
  ASSUME RingTypeOK, Accounted, Forward, Handle,
         DOMAIN hashes \subseteq 0..(TableSize - 1)
  PROVE  DOMAIN hashes' \subseteq 0..(TableSize - 1)
<1> DEFINE e == feed[Head(queue)]
           table == WithHeader(e)
<1>1. hashes' = AfterEvent(e, table)
  BY DEF Handle
<1>2. e.txn \subseteq Nat /\ ~OutOfTable(e)
  BY NewEvent DEF Event
<1>3. TableSize \in Nat
  BY PipelineAssumption
<1>4. e.kind = "TxnHeaderStart" => e.txn \subseteq 0..(TableSize - 1)
  BY <1>2, <1>3 DEF OutOfTable
<1>5. DOMAIN table \subseteq 0..(TableSize - 1)
  BY <1>4 DEF WithHeader
<1>6. DOMAIN hashes' \subseteq DOMAIN table
  BY <1>1 DEF AfterEvent
<1> QED
  BY <1>5, <1>6

(* The counters of a handled event. *)
Counters ==
  /\ since \subseteq handled /\ handled \subseteq Positions
  /\ perBlock \in Seq(Nat) /\ currentTxs \in Nat /\ txnCount \in Nat
  /\ window = <<Stretch(2), Stretch(1), Stretch(0)>>
  /\ TxnsCounted

LEMMA StretchesShift ==
  ASSUME perBlock \in Seq(Nat), NEW n \in Nat, perBlock' = Append(perBlock, n)
  PROVE  /\ Stretch(2)' = Stretch(1) /\ Stretch(1)' = Stretch(0)
         /\ Stretch(0)' = n
         /\ \A k \in 0..2 : Stretch(k) \in Nat
<1>1. Len(perBlock) \in Nat /\ Len(perBlock') = Len(perBlock) + 1
      /\ \A i \in 1..Len(perBlock) : perBlock'[i] = perBlock[i] /\ perBlock[i] \in Nat
      /\ perBlock'[Len(perBlock) + 1] = n
  OBVIOUS
<1>2. Len(perBlock) - 1 > 0 => Len(perBlock) - 1 \in 1..Len(perBlock)
  BY <1>1
<1>3. Stretch(2)' = Stretch(1)
  BY <1>1, <1>2 DEF Stretch
<1>4. Stretch(1)' = Stretch(0)
  BY <1>1 DEF Stretch
<1>5. Stretch(0)' = n
  BY <1>1 DEF Stretch
<1>6. \A k \in 0..2 : Stretch(k) \in Nat
  BY <1>1 DEF Stretch
<1> QED
  BY <1>3, <1>4, <1>5, <1>6

LEMMA CountersForward ==
  ASSUME RingTypeOK, Accounted, Counters, Forward
  PROVE  Counters'
<1> DEFINE n == Head(queue)
           e == feed[n]
<1>1. CASE Handle
  <2>1. /\ n \in Positions /\ n \notin handled /\ pos' = pos /\ feed' = feed
        /\ handled' = handled \cup {n}
    BY <1>1, NewEvent
  <2>2. /\ n \notin since /\ since \subseteq Positions
        /\ Cardinality(Headers(since)) \in Nat
        /\ Cardinality(Headers(since)) = currentTxs
        /\ Cardinality(Headers(since \cup {n})) =
             currentTxs + (IF e.kind = "TxnHeaderStart" THEN 1 ELSE 0)
    BY <2>1, CountedHeaders, OneMore DEF Counters, TxnsCounted
  <2>3. \A s : Headers(s)' = Headers(s')
    BY <2>1 DEF Headers
  <2>4. CASE HandleBlockStart(n, e)
    <3>1. /\ e.kind = "BlockStart" /\ since' = {n}
          /\ perBlock' = Append(perBlock, Cardinality(Headers(since)))
          /\ window' = <<window[2], window[3], currentTxs>> /\ currentTxs' = 0
          /\ txnCount' = 0
      BY <2>4 DEF HandleBlockStart, MoveWindow, OnBlockStart
    <3>2. Cardinality(Headers({n})) = 0
      BY <2>1, <3>1, OnlyBlockStart
    <3>3. perBlock' = Append(perBlock, currentTxs) /\ currentTxs \in Nat
          /\ perBlock' \in Seq(Nat)
      BY <2>2, <3>1 DEF Counters
    <3>4. window' = <<Stretch(2)', Stretch(1)', Stretch(0)'>>
      BY <3>1, <3>3, StretchesShift DEF Counters
    <3>5. TxnsCounted'
      BY <2>1, <3>1, <3>2 DEF TxnsCounted, Headers
    <3>6. since' \subseteq handled' /\ handled' \subseteq Positions'
      BY <2>1, <3>1 DEF Counters, Positions
    <3> QED
      BY <3>1, <3>3, <3>4, <3>5, <3>6 DEF Counters
  <2>5. CASE HandleTxnHeaderStart(n, e)
    <3>1. /\ e.kind = "TxnHeaderStart" /\ since' = since \cup {n}
          /\ perBlock' = perBlock /\ window' = window
          /\ currentTxs' = currentTxs + 1
          /\ txnCount' = txnCount \/ txnCount' = txnCount + 1
      BY <2>5 DEF HandleTxnHeaderStart, RecordTx, OnTxnStart, contentionVars
    <3>2. TxnsCounted'
      BY <2>1, <2>2, <3>1 DEF TxnsCounted, Headers
    <3>3. since' \subseteq handled' /\ handled' \subseteq Positions'
      BY <2>1, <3>1 DEF Counters, Positions
    <3>4. currentTxs' \in Nat /\ txnCount' \in Nat
      BY <3>1 DEF Counters
    <3>5. window' = <<Stretch(2)', Stretch(1)', Stretch(0)'>> /\ perBlock' \in Seq(Nat)
      BY <3>1 DEF Counters, Stretch
    <3> QED
      BY <3>2, <3>3, <3>4, <3>5 DEF Counters
  <2>6. ASSUME \/ HandleBlockEnd(n, e) \/ HandleTxnEnd(n, e)
               \/ HandleStorageAccess(n, e) \/ HandleOther(n, e)
        PROVE  Counters'
    <3>1. /\ e.kind # "TxnHeaderStart" /\ since' = since \cup {n}
          /\ perBlock' = perBlock /\ window' = window
          /\ currentTxs' = currentTxs /\ txnCount' = txnCount
      BY <2>6 DEF HandleBlockEnd, HandleTxnEnd, HandleStorageAccess, HandleOther,
                  OnTxnEnd, OnStorageAccess, figureVars, contentionVars, tpsVars
    <3>2. TxnsCounted'
      BY <2>1, <2>2, <3>1 DEF TxnsCounted, Headers
    <3>3. since' \subseteq handled' /\ handled' \subseteq Positions'
      BY <2>1, <3>1 DEF Counters, Positions
    <3>4. window' = <<Stretch(2)', Stretch(1)', Stretch(0)'>>
      BY <3>1 DEF Counters, Stretch
    <3> QED
      BY <3>1, <3>2, <3>3, <3>4 DEF Counters
  <2> QED
    BY <1>1, <2>4, <2>5, <2>6 DEF Handle
<1>2. CASE Panic \/ Drained
  BY <1>2 DEF Panic, Drained, Forward, listenerVars, ringVars, figureVars,
              contentionVars, tpsVars, Counters, TxnsCounted, Headers, Stretch,
              Positions
<1> QED
  BY <1>1, <1>2 DEF Forward

LEMMA CountersStep ==
  ASSUME RingTypeOK, Accounted, Counters, [Next]_vars
  PROVE  Counters'
<1>1. CASE Forward
  BY <1>1, CountersForward
<1>2. CASE Listen
  <2>1. Positions \subseteq Positions'
    <3>1. pos' \in Nat /\ pos =< pos' /\ pos \in Nat
      <4>1. pos \in Nat
        BY FeedFacts
      <4>2. CASE ReadGap
        BY <4>1, <4>2, ResetFacts DEF ReadGap
      <4>3. CASE GiveUp
        BY <4>1, <4>3, ResetFacts DEF GiveUp, RingTypeOK
      <4>4. ASSUME ~ReadGap, ~GiveUp PROVE pos' = pos \/ pos' = pos + 1
        BY <1>2, <4>4 DEF Listen, Open, SkipReady, SkipDone, ReadReady, ReadEnd, Convert,
                     SendToForwarder, SendFails
      <4> QED
        BY <4>1, <4>2, <4>3, <4>4
    <3> QED
      BY <3>1 DEF Positions
  <2>2. UNCHANGED <<feed, handled, since, perBlock, window, currentTxs, txnCount>>
    BY <1>2 DEF Listen, ringVars, forwarderVars, figureVars, contentionVars, tpsVars
  <2>3. window' = <<Stretch(2)', Stretch(1)', Stretch(0)'>> /\ TxnsCounted'
    BY <2>2 DEF Counters, Stretch, TxnsCounted, Headers
  <2> QED
    BY <2>1, <2>2, <2>3 DEF Counters
<1>3. CASE Stop
  <2>1. /\ since' = {} /\ handled' = {} /\ perBlock' = <<>> /\ currentTxs' = 0
        /\ txnCount' = 0 /\ window' = <<0, 0, 0>>
    BY <1>3 DEF Stop, FiguresGone
  <2>2. Cardinality(Headers({})') = 0
    <3>1. Headers({})' = {}
      BY DEF Headers
    <3> QED
      BY <3>1, FS_EmptySet
  <2>3. \A k \in 0..2 : Stretch(k)' = 0
    BY <2>1 DEF Stretch
  <2> QED
    BY <2>1, <2>2, <2>3 DEF Counters, TxnsCounted, Headers
<1>4. CASE Write \/ Age \/ UNCHANGED vars
  <2>1. UNCHANGED <<feed, pos, handled, since, perBlock, window, currentTxs, txnCount>>
    BY <1>4 DEF Write, Age, vars, ringVars, listenerVars, forwarderVars, figureVars,
                contentionVars, tpsVars
  <2> QED
    BY <2>1 DEF Counters, Stretch, TxnsCounted, Headers, Positions
<1> QED
  BY <1>1, <1>2, <1>3, <1>4 DEF Next, ListenerEnds, ServerEnds, Health
----------------------------------------------------------------------------
(* What the figures are computed from, event by event.                     *)

TimesOver(f, events, times) ==
  /\ \A m \in events : f[m].txn \subseteq DOMAIN times
  /\ \A i \in DOMAIN times :
       \E m \in events : /\ i \in f[m].txn /\ times[i] = f[m].time
                         /\ \A k \in events : i \in f[k].txn => k =< m

LEMMA TimesOverIsLastTimes ==
  /\ LastTimes(txStart, "TxnHeaderStart")
       <=> TimesOver(feed, InStretch("TxnHeaderStart"), txStart)
  /\ LastTimes(txEnd, "TxnEnd") <=> TimesOver(feed, InStretch("TxnEnd"), txEnd)
BY DEF LastTimes, TimesOver

LEMMA TimesInsert ==
  ASSUME NEW f, NEW events \in SUBSET Nat, NEW times, NEW n \in Nat, NEW i,
         f[n].txn = {i}, \A m \in events : m < n,
         TimesOver(f, events, times)
  PROVE  TimesOver(f, events \cup {n}, Insert(times, i, f[n].time))
<1> DEFINE g == Insert(times, i, f[n].time)
<1>1. DOMAIN g = DOMAIN times \cup {i} /\ g[i] = f[n].time
      /\ \A j \in DOMAIN times : j # i => g[j] = times[j]
  BY DEF Insert
<1> HIDE DEF g
<1>2. \A m \in events \cup {n} : f[m].txn \subseteq DOMAIN g
  BY <1>1 DEF TimesOver
<1>3. ASSUME NEW j \in DOMAIN g
      PROVE  \E m \in events \cup {n} :
               /\ j \in f[m].txn /\ g[j] = f[m].time
               /\ \A k \in events \cup {n} : j \in f[k].txn => k =< m
  <2>1. CASE j = i
    BY <1>1, <2>1
  <2>2. CASE j # i
    <3>1. PICK m \in events : /\ j \in f[m].txn /\ times[j] = f[m].time
                             /\ \A k \in events : j \in f[k].txn => k =< m
      BY <1>1, <1>3, <2>2 DEF TimesOver
    <3>2. j \notin f[n].txn /\ g[j] = times[j]
      BY <1>1, <1>3, <2>2
    <3> QED
      BY <3>1, <3>2
  <2> QED
    BY <2>1, <2>2
<1> QED
  BY <1>2, <1>3 DEF TimesOver, g

LEMMA TimesKept ==
  ASSUME NEW f, NEW events, NEW times, NEW n, f[n].txn = {},
         TimesOver(f, events, times)
  PROVE  TimesOver(f, events \cup {n}, times)
BY DEF TimesOver

LEMMA AccessesCounted ==
  ASSUME RingTypeOK, since \subseteq Positions, NEW s
  PROVE  IsFiniteSet(Accesses(s)) /\ Cardinality(Accesses(s)) \in Nat
<1>1. IsFiniteSet(Positions)
  BY CountedHeaders
<1>2. Accesses(s) \subseteq Positions
  BY DEF Accesses, InStretch
<1>3. IsFiniteSet(Accesses(s))
  BY <1>1, <1>2, FS_Subset
<1> QED
  BY <1>3, FS_CardinalityType

(* An event that is no BlockStart is added to what there is. *)
LEMMA StretchGrows ==
  ASSUME NEW n, feed' = feed, since' = since \cup {n}
  PROVE  \A k : InStretch(k)' = IF feed[n].kind = k THEN InStretch(k) \cup {n}
                                                   ELSE InStretch(k)
BY DEF InStretch

LEMMA AccumulatedStart ==
  ASSUME NEW n, NEW e, e = feed[n], feed' = feed, HandleBlockStart(n, e)
  PROVE  StretchAccumulated'
<1>1. /\ e.kind = "BlockStart" /\ since' = {n}
      /\ current' = Some(e.block) /\ blockStart' = e.time
      /\ txStart' = NoEntry /\ txEnd' = NoEntry /\ slotTxns' = {}
      /\ slotAccesses' = NoEntry /\ txnContracts' = {}
  BY DEF HandleBlockStart, OnBlockStart
<1>2. \A k : k # "BlockStart" => InStretch(k)' = {}
  BY <1>1 DEF InStretch
<1>3. InStretch("BlockStart")' = {n}
  BY <1>1 DEF InStretch
<1>4. DOMAIN NoEntry = {}
  BY DEF NoEntry
<1>5. \A s \in Slots : CountOf(slotAccesses, s)' = Cardinality(Accesses(s))'
  <2>1. ASSUME NEW s \in Slots PROVE Accesses(s)' = {} /\ CountOf(slotAccesses', s) = 0
    BY <1>1, <1>2, <1>4 DEF Accesses, CountOf
  <2> QED
    BY <2>1, FS_EmptySet
<1>6. LastTimes(txStart, "TxnHeaderStart")' /\ LastTimes(txEnd, "TxnEnd")'
  BY <1>1, <1>2, <1>4 DEF LastTimes
<1>7. slotTxns' = UNION {{<<feed'[m].slot, i>> : i \in feed'[m].txn} :
                          m \in InStretch("StorageAccess")'}
      /\ txnContracts' = UNION {{<<i, feed'[m].slot.address>> : i \in feed'[m].txn} :
                          m \in InStretch("StorageAccess")'}
  BY <1>1, <1>2
<1> QED
  BY <1>1, <1>3, <1>5, <1>6, <1>7 DEF StretchAccumulated

(* The parts of StretchAccumulated that an event of another kind than k    *)
(* leaves as they are.                                                     *)
SlotsAccumulated ==
  /\ slotTxns = UNION {{<<feed[m].slot, i>> : i \in feed[m].txn} :
                         m \in InStretch("StorageAccess")}
  /\ txnContracts = UNION {{<<i, feed[m].slot.address>> : i \in feed[m].txn} :
                             m \in InStretch("StorageAccess")}
  /\ \A s \in Slots : CountOf(slotAccesses, s) = Cardinality(Accesses(s))
StartAccumulated ==
  \A m \in InStretch("BlockStart") :
    current = Some(feed[m].block) /\ blockStart = feed[m].time

LEMMA AccumulatedParts ==
  StretchAccumulated <=> /\ SlotsAccumulated /\ StartAccumulated
                         /\ LastTimes(txStart, "TxnHeaderStart")
                         /\ LastTimes(txEnd, "TxnEnd")
BY DEF StretchAccumulated, SlotsAccumulated, StartAccumulated

LEMMA PartsKept ==
  ASSUME NEW n, feed' = feed, since' = since \cup {n}, StretchAccumulated
  PROVE  /\ (/\ feed[n].kind # "StorageAccess"
             /\ UNCHANGED <<slotTxns, txnContracts, slotAccesses>>)
               => SlotsAccumulated'
         /\ (feed[n].kind # "BlockStart" /\ UNCHANGED <<current, blockStart>>)
               => StartAccumulated'
         /\ (/\ feed[n].kind # "TxnHeaderStart" \/ feed[n].txn = {}
             /\ UNCHANGED txStart) => LastTimes(txStart, "TxnHeaderStart")'
         /\ (/\ feed[n].kind # "TxnEnd" \/ feed[n].txn = {}
             /\ UNCHANGED txEnd) => LastTimes(txEnd, "TxnEnd")'
<1>1. \A k : InStretch(k)' = IF feed[n].kind = k THEN InStretch(k) \cup {n} ELSE InStretch(k)
  BY StretchGrows
<1>2. ASSUME feed[n].kind # "StorageAccess", UNCHANGED <<slotTxns, txnContracts, slotAccesses>>
      PROVE  SlotsAccumulated'
  <2>1. InStretch("StorageAccess")' = InStretch("StorageAccess")
    BY <1>1, <1>2
  <2>2. \A s : Accesses(s)' = Accesses(s)
    BY <2>1 DEF Accesses
  <2>3. SlotsAccumulated
    BY AccumulatedParts
  <2>4. \A s \in Slots : CountOf(slotAccesses, s)' = Cardinality(Accesses(s))'
    BY <1>2, <2>2, <2>3 DEF SlotsAccumulated, CountOf
  <2>5. slotTxns' = UNION {{<<feed'[m].slot, i>> : i \in feed'[m].txn} :
                            m \in InStretch("StorageAccess")'}
        /\ txnContracts' = UNION {{<<i, feed'[m].slot.address>> : i \in feed'[m].txn} :
                            m \in InStretch("StorageAccess")'}
    BY <1>2, <2>1, <2>3 DEF SlotsAccumulated
  <2> QED
    BY <2>4, <2>5 DEF SlotsAccumulated
<1>3. ASSUME feed[n].kind # "BlockStart", UNCHANGED <<current, blockStart>>
      PROVE  StartAccumulated'
  <2>1. InStretch("BlockStart")' = InStretch("BlockStart")
    BY <1>1, <1>3
  <2> QED
    BY <1>3, <2>1, AccumulatedParts DEF StartAccumulated
<1>4. ASSUME feed[n].kind # "TxnHeaderStart" \/ feed[n].txn = {}, UNCHANGED txStart
      PROVE  LastTimes(txStart, "TxnHeaderStart")'
  <2>1. TimesOver(feed, InStretch("TxnHeaderStart"), txStart)
    BY AccumulatedParts, TimesOverIsLastTimes
  <2>2. TimesOver(feed, InStretch("TxnHeaderStart")', txStart)
    BY <1>1, <1>4, <2>1, TimesKept
  <2>3. TimesOver(feed', InStretch("TxnHeaderStart")', txStart')
    BY <1>4, <2>2
  <2> QED
    BY <2>3 DEF LastTimes, TimesOver
<1>5. ASSUME feed[n].kind # "TxnEnd" \/ feed[n].txn = {}, UNCHANGED txEnd
      PROVE  LastTimes(txEnd, "TxnEnd")'
  <2>1. TimesOver(feed, InStretch("TxnEnd"), txEnd)
    BY AccumulatedParts, TimesOverIsLastTimes
  <2>2. TimesOver(feed, InStretch("TxnEnd")', txEnd)
    BY <1>1, <1>5, <2>1, TimesKept
  <2>3. TimesOver(feed', InStretch("TxnEnd")', txEnd')
    BY <1>5, <2>2
  <2> QED
    BY <2>3 DEF LastTimes, TimesOver
<1> QED
  BY <1>2, <1>3, <1>4, <1>5

LEMMA AccumulatedAccess ==
  ASSUME RingTypeOK, since \subseteq Positions, StretchAccumulated,
         NEW n \in Positions, n \notin since, feed[n] \in Event,
         feed' = feed, HandleStorageAccess(n, feed[n])
  PROVE  StretchAccumulated'
<1> DEFINE e == feed[n]
<1>1. /\ e.kind = "StorageAccess" /\ since' = since \cup {n}
      /\ slotAccesses' = Insert(slotAccesses, e.slot, CountOf(slotAccesses, e.slot) + 1)
      /\ slotTxns' = slotTxns \cup {<<e.slot, i>> : i \in e.txn}
      /\ txnContracts' = txnContracts \cup {<<i, e.slot.address>> : i \in e.txn}
      /\ UNCHANGED <<current, blockStart, txStart, txEnd>>
  BY DEF HandleStorageAccess, OnStorageAccess
<1>2. InStretch("StorageAccess")' = InStretch("StorageAccess") \cup {n}
  BY <1>1, StretchGrows
<1>3. SlotsAccumulated
  BY AccumulatedParts
<1>4. slotTxns' = UNION {{<<feed'[m].slot, i>> : i \in feed'[m].txn} :
                          m \in InStretch("StorageAccess")'}
  BY <1>1, <1>2, <1>3 DEF SlotsAccumulated
<1>5. txnContracts' = UNION {{<<i, feed'[m].slot.address>> : i \in feed'[m].txn} :
                          m \in InStretch("StorageAccess")'}
  BY <1>1, <1>2, <1>3 DEF SlotsAccumulated
<1>6. ASSUME NEW s \in Slots
      PROVE  CountOf(slotAccesses, s)' = Cardinality(Accesses(s))'
  <2>1. IsFiniteSet(Accesses(s)) /\ CountOf(slotAccesses, s) = Cardinality(Accesses(s))
        /\ Cardinality(Accesses(s)) \in Nat
    BY <1>3, AccessesCounted DEF SlotsAccumulated
  <2>2. n \notin Accesses(s)
    BY DEF Accesses, InStretch
  <2>3. CASE s = e.slot
    <3>1. Accesses(s)' = Accesses(s) \cup {n}
      BY <1>2, <2>3 DEF Accesses
    <3>2. Cardinality(Accesses(s) \cup {n}) = Cardinality(Accesses(s)) + 1
      BY <2>1, <2>2, FS_AddElement
    <3>3. CountOf(slotAccesses', s) = CountOf(slotAccesses, s) + 1
      BY <1>1, <2>3 DEF CountOf, Insert
    <3> QED
      BY <2>1, <3>1, <3>2, <3>3 DEF CountOf
  <2>4. CASE s # e.slot
    <3>1. Accesses(s)' = Accesses(s)
      BY <1>2, <2>4 DEF Accesses
    <3>2. CountOf(slotAccesses', s) = CountOf(slotAccesses, s)
      BY <1>1, <2>4 DEF CountOf, Insert
    <3> QED
      BY <2>1, <3>1, <3>2 DEF CountOf
  <2> QED
    BY <2>3, <2>4
<1>7. SlotsAccumulated'
  BY <1>4, <1>5, <1>6 DEF SlotsAccumulated
<1>8. /\ StartAccumulated' /\ LastTimes(txStart, "TxnHeaderStart")'
      /\ LastTimes(txEnd, "TxnEnd")'
  BY <1>1, PartsKept
<1>9. StretchAccumulated' <=> /\ SlotsAccumulated' /\ StartAccumulated'
                              /\ LastTimes(txStart, "TxnHeaderStart")'
                              /\ LastTimes(txEnd, "TxnEnd")'
  BY DEF StretchAccumulated, SlotsAccumulated, StartAccumulated
<1> QED
  BY <1>7, <1>8, <1>9

LEMMA AccumulatedTxn ==
  ASSUME RingTypeOK, since \subseteq Positions, StretchAccumulated,
         NEW n \in Positions, \A m \in since : m < n, feed[n] \in Event,
         feed' = feed,
         HandleTxnHeaderStart(n, feed[n]) \/ HandleTxnEnd(n, feed[n])
  PROVE  StretchAccumulated'
<1> DEFINE e == feed[n]
<1>1. n \in Nat /\ \A k : InStretch(k) \subseteq Nat /\ \A m \in InStretch(k) : m < n
  BY FeedFacts DEF InStretch
<1>2. \A i \in e.txn : e.txn = {i}
  BY DEF Event
<1>3. /\ since' = since \cup {n}
      /\ UNCHANGED <<current, blockStart, slotTxns, slotAccesses, txnContracts>>
      /\ e.kind \in {"TxnHeaderStart", "TxnEnd"}
  BY DEF HandleTxnHeaderStart, HandleTxnEnd, OnTxnStart, OnTxnEnd, contentionVars
<1>4. StartAccumulated' /\ SlotsAccumulated'
  BY <1>3, PartsKept
<1>5. CASE HandleTxnHeaderStart(n, e)
  <2>1. e.kind = "TxnHeaderStart" /\ UNCHANGED txEnd
    BY <1>5 DEF HandleTxnHeaderStart, OnTxnStart, contentionVars
  <2>2. LastTimes(txEnd, "TxnEnd")'
    BY <1>3, <2>1, PartsKept
  <2>3. ASSUME e.txn = {} PROVE LastTimes(txStart, "TxnHeaderStart")'
    BY <1>3, <1>5, <2>3, PartsKept DEF HandleTxnHeaderStart, contentionVars, None
  <2>4. ASSUME e.txn # {} PROVE LastTimes(txStart, "TxnHeaderStart")'
    <3>1. PICK i \in e.txn : txStart' = Insert(txStart, i, e.time)
      BY <1>5, <2>4 DEF HandleTxnHeaderStart, OnTxnStart, None
    <3>2. TimesOver(feed, InStretch("TxnHeaderStart"), txStart)
      BY AccumulatedParts, TimesOverIsLastTimes
    <3>3. TimesOver(feed, InStretch("TxnHeaderStart") \cup {n}, Insert(txStart, i, e.time))
      BY <1>1, <1>2, <3>2, TimesInsert
    <3>4. InStretch("TxnHeaderStart")' = InStretch("TxnHeaderStart") \cup {n}
      BY <1>3, <2>1, StretchGrows
    <3>5. TimesOver(feed', InStretch("TxnHeaderStart")', txStart')
      BY <3>1, <3>3, <3>4
    <3> QED
      BY <3>5 DEF LastTimes, TimesOver
  <2> QED
    BY <1>4, <2>2, <2>3, <2>4 DEF StretchAccumulated, SlotsAccumulated, StartAccumulated
<1>6. CASE HandleTxnEnd(n, e)
  <2>1. e.kind = "TxnEnd" /\ UNCHANGED txStart
    BY <1>6 DEF HandleTxnEnd, OnTxnEnd, contentionVars
  <2>2. LastTimes(txStart, "TxnHeaderStart")'
    BY <1>3, <2>1, PartsKept
  <2>3. ASSUME e.txn = {} PROVE LastTimes(txEnd, "TxnEnd")'
    BY <1>3, <1>6, <2>3, PartsKept DEF HandleTxnEnd, contentionVars, None
  <2>4. ASSUME e.txn # {} PROVE LastTimes(txEnd, "TxnEnd")'
    <3>1. PICK i \in e.txn : txEnd' = Insert(txEnd, i, e.time)
      BY <1>6, <2>4 DEF HandleTxnEnd, OnTxnEnd, None
    <3>2. TimesOver(feed, InStretch("TxnEnd"), txEnd)
      BY AccumulatedParts, TimesOverIsLastTimes
    <3>3. TimesOver(feed, InStretch("TxnEnd") \cup {n}, Insert(txEnd, i, e.time))
      BY <1>1, <1>2, <3>2, TimesInsert
    <3>4. InStretch("TxnEnd")' = InStretch("TxnEnd") \cup {n}
      BY <1>3, <2>1, StretchGrows
    <3>5. TimesOver(feed', InStretch("TxnEnd")', txEnd')
      BY <3>1, <3>3, <3>4
    <3> QED
      BY <3>5 DEF LastTimes, TimesOver
  <2> QED
    BY <1>4, <2>2, <2>3, <2>4 DEF StretchAccumulated, SlotsAccumulated, StartAccumulated
<1> QED
  BY <1>5, <1>6

LEMMA AccumulatedStep ==
  ASSUME RingTypeOK, Accounted, Counters, StretchAccumulated, [Next]_vars
  PROVE  StretchAccumulated'
<1> DEFINE n == Head(queue)
           e == feed[n]
<1>1. ASSUME UNCHANGED <<feed, since, contentionVars>> PROVE StretchAccumulated'
  BY <1>1 DEF contentionVars, StretchAccumulated, InStretch, Accesses, LastTimes, CountOf
<1>2. CASE Forward
  <2>1. CASE Handle
    <3>1. /\ n \in Positions /\ n \notin handled /\ e \in Event /\ feed' = feed
          /\ \A m \in handled : m < n
      BY <1>2, <2>1, NewEvent
    <3>2. since \subseteq Positions /\ n \notin since /\ \A m \in since : m < n
      BY <3>1 DEF Counters
    <3>3. CASE HandleBlockStart(n, e)
      BY <3>1, <3>3, AccumulatedStart
    <3>4. CASE HandleTxnHeaderStart(n, e) \/ HandleTxnEnd(n, e)
      BY <3>1, <3>2, <3>4, AccumulatedTxn
    <3>5. CASE HandleStorageAccess(n, e)
      BY <3>1, <3>2, <3>5, AccumulatedAccess
    <3>6. CASE HandleBlockEnd(n, e) \/ HandleOther(n, e)
      <4>1. /\ since' = since \cup {n} /\ e.kind \in {"BlockEnd", "TxnOther"}
            /\ UNCHANGED <<current, blockStart, txStart, txEnd, slotTxns, slotAccesses,
                           txnContracts>>
        BY <3>6 DEF HandleBlockEnd, HandleOther, figureVars, contentionVars
      <4>2. /\ SlotsAccumulated' /\ StartAccumulated'
            /\ LastTimes(txStart, "TxnHeaderStart")' /\ LastTimes(txEnd, "TxnEnd")'
        BY <3>1, <4>1, PartsKept
      <4> QED
        BY <4>2 DEF StretchAccumulated, SlotsAccumulated, StartAccumulated
    <3> QED
      BY <2>1, <3>3, <3>4, <3>5, <3>6 DEF Handle
  <2>2. CASE Panic \/ Drained
    BY <1>1, <1>2, <2>2 DEF Panic, Drained, Forward, ringVars, figureVars
  <2> QED
    BY <1>2, <2>1, <2>2 DEF Forward
<1>3. CASE Stop
  <2>1. /\ since' = {} /\ txStart' = NoEntry /\ txEnd' = NoEntry /\ slotTxns' = {}
        /\ slotAccesses' = NoEntry /\ txnContracts' = {}
    BY <1>3 DEF Stop, FiguresGone
  <2>2. (\A k : InStretch(k)' = {}) /\ DOMAIN NoEntry = {}
    BY <2>1 DEF InStretch, NoEntry
  <2>3. \A s \in Slots : CountOf(slotAccesses, s)' = Cardinality(Accesses(s))'
    <3>1. ASSUME NEW s \in Slots PROVE Accesses(s)' = {} /\ CountOf(slotAccesses', s) = 0
      BY <2>1, <2>2 DEF Accesses, CountOf
    <3> QED
      BY <3>1, FS_EmptySet
  <2>4. LastTimes(txStart, "TxnHeaderStart")' /\ LastTimes(txEnd, "TxnEnd")'
    BY <2>1, <2>2 DEF LastTimes
  <2> QED
    BY <2>1, <2>2, <2>3, <2>4 DEF StretchAccumulated
<1>4. CASE Write \/ Listen \/ Age \/ UNCHANGED vars
  BY <1>1, <1>4 DEF Write, Listen, Age, ringVars, forwarderVars, figureVars, vars
<1> QED
  BY <1>2, <1>3, <1>4 DEF Next, ListenerEnds, ServerEnds, Health
----------------------------------------------------------------------------
(* The rest of TypeOK, and the value last published as TPS. *)
Modes ==
  /\ forwarder \in {"running", "dead", "returned"}
  /\ process \in {"up", "down"} /\ lastEvent \in {"never", "recent", "stale"}
  /\ DOMAIN hashes \subseteq 0..(TableSize - 1)
TpsPublished == output.tps # None => output.tps = Some(Tps(window))

LEMMA ModesStep ==
  ASSUME RingTypeOK, Accounted, Modes, TpsPublished, [Next]_vars
  PROVE  Modes' /\ TpsPublished'
<1>1. CASE Forward
  <2>1. CASE Handle
    <3>1. DOMAIN hashes' \subseteq 0..(TableSize - 1)
      BY <1>1, <2>1, TableStep DEF Modes
    <3>2. TpsPublished'
      BY <2>1 DEF Handle, TpsPublished, Publishes, HandleBlockStart, HandleBlockEnd,
                  HandleTxnHeaderStart, HandleTxnEnd, HandleStorageAccess, HandleOther
    <3> QED
      BY <1>1, <2>1, <3>1, <3>2 DEF Handle, Forward, Modes
  <2>2. CASE Panic \/ Drained
    BY <1>1, <2>2 DEF Panic, Drained, Forward, Modes, TpsPublished, figureVars, tpsVars
  <2> QED
    BY <1>1, <2>1, <2>2 DEF Forward
<1>2. CASE Stop
  <2>1. 0 \in Nat /\ DOMAIN NoEntry = {} /\ Silent.tps = None
    BY DEF NoEntry, Silent
  <2> QED
    BY <1>2, <2>1 DEF Stop, Modes, TpsPublished
<1>3. CASE Write \/ Listen \/ Age \/ UNCHANGED vars
  BY <1>3 DEF Write, Listen, Age, vars, forwarderVars, figureVars, tpsVars, Modes, TpsPublished
<1> QED
  BY <1>1, <1>2, <1>3 DEF Next, ListenerEnds, ServerEnds, Health

PInv == RingTypeOK /\ Accounted /\ Counters /\ StretchAccumulated /\ Modes /\ TpsPublished

LEMMA PInvInit == Init => PInv
<1> SUFFICES ASSUME Init PROVE PInv
  OBVIOUS
<1> USE DEF Init, None
<1>1. RingTypeOK
  <2>1. feed \in Seq(Event) /\ Len(feed) \in Nat
    BY PipelineAssumption
  <2> QED
    BY <2>1, PipelineAssumption DEF RingTypeOK, Positions
<1>2. Accounted
  BY DEF Accounted, InTransit, Positions, ToSet
<1>3. Counters
  <2>1. Headers({}) = {} /\ Cardinality({}) = 0
    BY FS_EmptySet DEF Headers
  <2>2. Stretch(0) = 0 /\ Stretch(1) = 0 /\ Stretch(2) = 0
    BY DEF Stretch
  <2>3. TxnsCounted
    BY <2>1 DEF TxnsCounted, FiguresInit
  <2>4. window = <<Stretch(2), Stretch(1), Stretch(0)>>
    BY <2>2 DEF FiguresInit
  <2>5. currentTxs = 0 /\ txnCount = 0 /\ perBlock = <<>> /\ since = {} /\ handled = {}
    BY DEF FiguresInit
  <2> QED
    BY <2>3, <2>4, <2>5 DEF Counters
<1>4. StretchAccumulated
  <2>1. (\A k : InStretch(k) = {}) /\ DOMAIN NoEntry = {}
    BY DEF InStretch, NoEntry
  <2>2. \A s \in Slots : CountOf(slotAccesses, s) = Cardinality(Accesses(s))
    <3>1. ASSUME NEW s \in Slots PROVE Accesses(s) = {} /\ CountOf(slotAccesses, s) = 0
      BY <2>1 DEF Accesses, CountOf, FiguresInit
    <3> QED
      BY <3>1, FS_EmptySet
  <2> QED
    BY <2>1, <2>2 DEF StretchAccumulated, LastTimes, FiguresInit
<1>5. Modes /\ TpsPublished
  <2>1. DOMAIN NoEntry = {} /\ Silent.tps = {}
    BY DEF NoEntry, Silent
  <2> QED
    BY <2>1 DEF Modes, TpsPublished
<1> QED
  BY <1>1, <1>2, <1>3, <1>4, <1>5 DEF PInv

(* The inductive invariant. *)
LEMMA PInvAlways == Spec => []PInv
<1>1. PInv /\ [Next]_vars => PInv'
  BY RingStep, AccountedStep, CountersStep, AccumulatedStep, ModesStep DEF PInv
<1> QED
  BY PInvInit, <1>1, PTL DEF Spec

----------------------------------------------------------------------------
(* The hash table.  Whatever the feed is, an entry is that of a header     *)
(* that was handled and not followed by an end of its index; and a header  *)
(* whose index was not ended nor given to another block has its entry.     *)
Uses(m, i, kind) == i \in feed[m].txn /\ feed[m].kind = kind
EntriesHaveHeader ==
  \A i \in DOMAIN hashes :
    \E m \in handled : /\ Uses(m, i, "TxnHeaderStart")
                       /\ hashes[i] = <<feed[m].block, i>>
                       /\ \A k \in handled : k > m => ~Uses(k, i, "TxnEnd")
Undone(m, i) ==
  \A k \in handled : k > m =>
    /\ ~Uses(k, i, "TxnEnd")
    /\ Uses(k, i, "TxnHeaderStart") => feed[k].block = feed[m].block
HeadersHaveEntry ==
  \A m \in handled : \A i \in feed[m].txn :
    Uses(m, i, "TxnHeaderStart") /\ Undone(m, i) =>
      i \in DOMAIN hashes /\ hashes[i] = <<feed[m].block, i>>

LEMMA HashEntries ==
  ASSUME RingTypeOK, Accounted, handled \subseteq Positions, Forward, Handle,
         EntriesHaveHeader, HeadersHaveEntry
  PROVE  EntriesHaveHeader' /\ HeadersHaveEntry'
<1> DEFINE n == Head(queue)
           e == feed[n]
           table == WithHeader(e)
<1>1. /\ n \in Positions /\ n \notin handled /\ \A m \in handled : m < n
      /\ feed' = feed /\ handled' = handled \cup {n}
  BY NewEvent
<1>2. n \in Nat /\ handled \subseteq Nat
  BY <1>1, FeedFacts
<1>3. hashes' = AfterEvent(e, table)
  BY DEF Handle
<1>4. \A i : e.kind = "TxnHeaderStart" /\ i \in e.txn =>
              i \in DOMAIN hashes' /\ hashes'[i] = <<e.block, i>>
  BY <1>3 DEF AfterEvent, WithHeader
<1>5. \A i : ~(e.kind \in {"TxnHeaderStart", "TxnEnd"} /\ i \in e.txn) =>
              /\ i \in DOMAIN hashes <=> i \in DOMAIN hashes'
              /\ i \in DOMAIN hashes => hashes'[i] = hashes[i]
  BY <1>3 DEF AfterEvent, WithHeader
<1>6. \A i \in DOMAIN hashes' : ~Uses(n, i, "TxnEnd")
  BY <1>3 DEF AfterEvent, Uses
<1> HIDE DEF n
<1>7. ASSUME NEW i \in DOMAIN hashes'
      PROVE  \E m \in handled' : /\ Uses(m, i, "TxnHeaderStart")
                                 /\ hashes'[i] = <<feed[m].block, i>>
                                 /\ \A k \in handled' : k > m => ~Uses(k, i, "TxnEnd")
  <2>1. CASE Uses(n, i, "TxnHeaderStart")
    <3>1. hashes'[i] = <<feed[n].block, i>>
      BY <1>4, <2>1 DEF Uses
    <3>2. \A k \in handled' : ~(k > n)
      BY <1>1, <1>2
    <3> QED
      BY <1>1, <2>1, <3>1, <3>2
  <2>2. CASE ~Uses(n, i, "TxnHeaderStart")
    <3>1. i \in DOMAIN hashes /\ hashes'[i] = hashes[i]
      BY <1>5, <1>6, <2>2 DEF Uses
    <3> QED
      BY <1>1, <1>6, <3>1 DEF EntriesHaveHeader
  <2> QED
    BY <2>1, <2>2
<1>8. ASSUME NEW m \in handled', NEW i \in feed[m].txn,
             Uses(m, i, "TxnHeaderStart"),
             \A k \in handled' : k > m =>
               /\ ~Uses(k, i, "TxnEnd")
               /\ Uses(k, i, "TxnHeaderStart") => feed[k].block = feed[m].block
      PROVE  i \in DOMAIN hashes' /\ hashes'[i] = <<feed[m].block, i>>
  <2>1. CASE m = n
    BY <1>4, <1>8, <2>1 DEF Uses
  <2>2. CASE m # n
    <3>1. m \in handled /\ n > m /\ n \in handled'
      BY <1>1, <1>2, <2>2
    <3>2. i \in DOMAIN hashes /\ hashes[i] = <<feed[m].block, i>>
      BY <1>1, <1>8, <3>1 DEF HeadersHaveEntry, Undone
    <3>3. ~Uses(n, i, "TxnEnd")
      BY <1>8, <3>1
    <3>4. CASE Uses(n, i, "TxnHeaderStart")
      <4>1. feed[n].block = feed[m].block
        BY <1>8, <3>1, <3>4
      <4> QED
        BY <1>4, <3>4, <4>1 DEF Uses
    <3>5. CASE ~Uses(n, i, "TxnHeaderStart")
      BY <1>5, <3>2, <3>3, <3>5 DEF Uses
    <3> QED
      BY <3>4, <3>5
  <2> QED
    BY <2>1, <2>2
<1>9. EntriesHaveHeader'
  BY <1>1, <1>7 DEF EntriesHaveHeader, Uses
<1>10. HeadersHaveEntry'
  BY <1>1, <1>8 DEF HeadersHaveEntry, Undone, Uses
<1> QED
  BY <1>9, <1>10

(* What an event in its turn is published with.                            *)
LEMMA HashPublished ==
  ASSUME RingTypeOK, Accounted, handled \subseteq Positions, Forward, Handle,
         EntriesHaveHeader, HeadersHaveEntry, InTurn(feed)
  PROVE  HashOfItsTransaction'
<1> DEFINE n == Head(queue)
           e == feed[n]
           table == WithHeader(e)
           own == TxnOf(e)
<1>1. /\ n \in Positions /\ n \notin handled /\ \A m \in handled : m < n
      /\ feed' = feed /\ handled' = handled \cup {n} /\ e \in Event
  BY NewEvent
<1>2. /\ n \in Nat /\ handled \subseteq Nat /\ n \in DOMAIN feed
      /\ handled \subseteq DOMAIN feed /\ DOMAIN feed \subseteq Nat
  BY <1>1, FeedFacts
<1>3. output'.event = n /\ output'.hash = {table[i] : i \in e.txn \cap DOMAIN table}
  <2>1. \E tps, contention : Publishes(n, tps, contention)
    BY DEF Handle, HandleBlockStart, HandleBlockEnd, HandleTxnHeaderStart,
           HandleTxnEnd, HandleStorageAccess, HandleOther
  <2> QED
    BY <2>1 DEF Publishes, Attached
<1>4. /\ \A i \in e.txn : e.txn = {i}
      /\ \A m \in handled : \A i \in feed[m].txn : feed[m].txn = {i}
  <2>1. \A m \in handled : feed[m] \in Event
    BY FeedFacts
  <2>2. \A ev \in Event : \A i \in ev.txn : ev.txn = {i}
    BY DEF Event
  <2> QED
    BY <1>1, <2>1, <2>2
<1>5. \A i \in e.txn :
        IF e.kind = "TxnHeaderStart"
          THEN i \in DOMAIN table /\ table[i] = <<e.block, i>>
          ELSE /\ i \in DOMAIN table <=> i \in DOMAIN hashes
               /\ table[i] = hashes[i]
  BY DEF WithHeader
<1> HIDE DEF n, table
<1>6. ASSUME NEW i \in e.txn, NEW m \in handled',
             feed[m].kind = "TxnHeaderStart", <<e.block, i>> \in TxnOf(feed[m])
      PROVE  output'.hash = {<<e.block, i>>}
  <2>1. i \in feed[m].txn /\ feed[m].block = e.block
    BY <1>6 DEF TxnOf
  <2>2. i \in DOMAIN table /\ table[i] = <<e.block, i>>
    <3>1. CASE e.kind = "TxnHeaderStart"
      BY <1>5, <3>1
    <3>2. CASE e.kind # "TxnHeaderStart"
      <4>1. m \in handled /\ m < n
        BY <1>1, <1>6, <3>2
      <4>2. <<e.block, i>> \in TxnOf(e)
        BY DEF TxnOf
      <4>3. \A k \in (m + 1)..(n - 1) : feed[k].txn = feed[m].txn =>
              /\ feed[k].kind # "TxnEnd"
              /\ feed[k].kind = "TxnHeaderStart" => feed[k].block = feed[m].block
        BY <1>2, <1>6, <4>1, <4>2 DEF InTurn
      <4>4. ASSUME NEW k \in handled, k > m, i \in feed[k].txn
            PROVE  k \in (m + 1)..(n - 1) /\ feed[k].txn = feed[m].txn
        <5>1. k \in Nat /\ m \in Nat /\ k < n
          BY <1>1, <1>2, <4>1
        <5>2. feed[k].txn = {i} /\ feed[m].txn = {i}
          BY <1>4, <2>1, <4>1, <4>4
        <5> QED
          BY <1>2, <4>4, <5>1, <5>2
      <4>5. Uses(m, i, "TxnHeaderStart") /\ Undone(m, i)
        BY <1>6, <2>1, <4>3, <4>4 DEF Uses, Undone
      <4> QED
        BY <1>5, <2>1, <3>2, <4>1, <4>5 DEF HeadersHaveEntry
    <3> QED
      BY <3>1, <3>2
  <2> QED
    BY <1>3, <1>4, <2>2
<1>7. ASSUME NEW t \in output'.hash \ own, NEW m \in handled',
             feed[m].kind = "TxnEnd", t \in TxnOf(feed[m])
      PROVE  FALSE
  <2>1. PICK i \in e.txn \cap DOMAIN table : t = table[i]
    BY <1>3
  <2>2. e.kind # "TxnHeaderStart"
    BY <1>5, <1>7, <2>1 DEF TxnOf
  <2>3. i \in DOMAIN hashes /\ t = hashes[i]
    BY <1>5, <2>1, <2>2
  <2>4. PICK h \in handled : /\ Uses(h, i, "TxnHeaderStart")
                             /\ t = <<feed[h].block, i>>
                             /\ \A k \in handled : k > h => ~Uses(k, i, "TxnEnd")
    BY <2>3 DEF EntriesHaveHeader
  <2>5. m \in handled /\ i \in feed[m].txn
    BY <1>1, <1>7, <2>4 DEF TxnOf
  <2>6. t \in TxnOf(feed[h])
    BY <2>4 DEF TxnOf, Uses
  <2>7. h < m
    BY <1>2, <1>7, <2>4, <2>5, <2>6 DEF InTurn, Uses
  <2> QED
    BY <1>2, <1>7, <2>4, <2>5, <2>7 DEF Uses
<1>8. output'.event > 0 =>
        /\ \A t \in own : (\E m \in handled' : feed[m].kind = "TxnHeaderStart"
                                              /\ t \in TxnOf(feed[m]))
                           => output'.hash = {t}
        /\ \A t \in output'.hash \ own :
             ~ \E m \in handled' : feed[m].kind = "TxnEnd" /\ t \in TxnOf(feed[m])
  BY <1>6, <1>7 DEF TxnOf
<1> QED
  BY <1>1, <1>3, <1>8 DEF HashOfItsTransaction, Got, TxnOf

Hashed == EntriesHaveHeader /\ HeadersHaveEntry /\ HashOfItsTransaction

LEMMA HashedStep ==
  ASSUME PInv, InTurn(feed), Hashed, [Next]_vars
  PROVE  Hashed'
<1>1. ASSUME UNCHANGED <<feed, hashes, handled, output>> PROVE Hashed'
  BY <1>1 DEF Hashed, EntriesHaveHeader, HeadersHaveEntry, Undone, Uses,
              HashOfItsTransaction, Got, TxnOf
<1>2. CASE Forward
  <2>1. CASE Handle
    BY <1>2, <2>1, HashEntries, HashPublished DEF PInv, Counters, Hashed
  <2>2. CASE Panic \/ Drained
    BY <1>1, <1>2, <2>2 DEF Panic, Drained, Forward, ringVars
  <2> QED
    BY <1>2, <2>1, <2>2 DEF Forward
<1>3. CASE Stop
  <2>1. handled' = {} /\ DOMAIN hashes' = {} /\ output'.event = 0
    BY <1>3 DEF Stop, NoEntry, Silent
  <2>2. ~(0 > 0)
    OBVIOUS
  <2> QED
    BY <2>1, <2>2 DEF Hashed, EntriesHaveHeader, HeadersHaveEntry, HashOfItsTransaction
<1>4. CASE Write \/ Listen \/ Age \/ UNCHANGED vars
  BY <1>1, <1>4 DEF Write, Listen, Age, ringVars, forwarderVars, vars
<1> QED
  BY <1>2, <1>3, <1>4 DEF Next, ListenerEnds, ServerEnds, Health

(* If the client takes transactions in turn, an event is published with    *)
(* the hash of its own transaction or, if the forwarder missed the header, *)
(* with none or with that of a transaction whose end it missed too:        *)
(* whatever was missed, however blocks follow each other, and at every     *)
(* size of the table.                                                      *)
THEOREM HashIsItsOwn ==
  ASSUME \A f \in Feeds : InTurn(f)
  PROVE  Spec => []HashOfItsTransaction
<1>1. Init => Hashed
  <2> SUFFICES ASSUME Init PROVE Hashed
    OBVIOUS
  <2>1. handled = {} /\ DOMAIN hashes = {} /\ output.event = 0 /\ ~(0 > 0)
    BY DEF Init, NoEntry, Silent
  <2> QED
    BY <2>1 DEF Hashed, EntriesHaveHeader, HeadersHaveEntry, HashOfItsTransaction
<1>2. PInv /\ Hashed /\ [Next]_vars => Hashed'
  <2>1. PInv => feed \in Feeds
    BY DEF PInv, RingTypeOK
  <2> QED
    BY <2>1, HashedStep
<1>3. Hashed => HashOfItsTransaction
  BY DEF Hashed
<1> QED
  BY <1>1, <1>2, <1>3, PInvAlways, PTL DEF Spec
----------------------------------------------------------------------------
(* The types; the channel keeps to its capacity and the table to its size. *)
THEOREM TypeCorrect == Spec => []TypeOK
<1>1. PInv => TypeOK
  BY DEF PInv, TypeOK, ForwarderTypeOK, Counters, Modes, Stretch
<1> QED
  BY PInvAlways, <1>1, PTL

(* From the ring to the forwarder nothing is lost silently, comes twice or *)
(* out of order.                                                           *)
THEOREM NothingUnaccounted == Spec => []Accounted
<1>1. PInv => Accounted
  BY DEF PInv
<1> QED
  BY PInvAlways, <1>1, PTL

(* The count of transactions is that of the stretch since the last         *)
(* BlockStart.                                                             *)
THEOREM CountIsOfTheStretch == Spec => []TxnsCounted
<1>1. PInv => TxnsCounted
  BY DEF PInv, Counters
<1> QED
  BY PInvAlways, <1>1, PTL

(* The published TPS is two and a half stretches' transactions.            *)
THEOREM TpsOfTheWindow == Spec => []TpsIsWindow
<1>1. ASSUME NEW a \in Nat, NEW b \in Nat, NEW c \in Nat
      PROVE  (4 * a + 4 * b + 2 * c) \div 4 = a + b + c \div 2
  OBVIOUS
<1>2. PInv => TpsIsWindow
  <2> SUFFICES ASSUME PInv, output.tps # None PROVE TpsIsWindow
    BY DEF TpsIsWindow
  <2>1. Stretch(2) \in Nat /\ Stretch(1) \in Nat /\ Stretch(0) \in Nat
    BY DEF PInv, Counters, Stretch
  <2>2. Tps(window) = Stretch(2) + Stretch(1) + Stretch(0) \div 2
    BY DEF PInv, Counters, Tps
  <2>3. output.tps = Some(Tps(window))
    BY DEF PInv, TpsPublished
  <2> QED
    BY <2>1, <2>2, <2>3, <1>1 DEF TpsIsWindow
<1> QED
  BY PInvAlways, <1>2, PTL

(* The contention figures are computed from the events since the last      *)
(* BlockStart, all of them, each once.                                     *)
THEOREM FiguresOfTheStretch == Spec => []StretchAccumulated
<1>1. PInv => StretchAccumulated
  BY DEF PInv
<1> QED
  BY PInvAlways, <1>1, PTL
=============================================================================
