--------------------------- MODULE Session_proofs ---------------------------
(***************************************************************************)
(* Type correctness of a session, for every subscription, history size,    *)
(* channel capacity, buffer size and interleaving of the forwarder with    *)
(* the handler.  SessionDelivery_proofs builds on it.                      *)
(***************************************************************************)
EXTENDS Session, FiniteSetTheorems, WellFoundedInduction, TLAPS

LEMMA Least ==
  ASSUME NEW S \in SUBSET Nat, S # {}
  PROVE  \E n \in S : \A m \in S : n =< m
<1>1. PICK n \in S : \A m \in S : <<m, n>> \notin OpToRel(<, Nat)
  BY WFMin, NatLessThanWellFounded
<1>2. ASSUME NEW m \in S PROVE n =< m
  <2>1. <<m, n>> \notin OpToRel(<, Nat)
    BY <1>1
  <2>2. m \in Nat /\ n \in Nat
    OBVIOUS
  <2>3. ~(m < n)
    BY <2>1, <2>2 DEF OpToRel
  <2> QED
    BY <2>2, <2>3
<1> QED
  BY <1>2

LEMMA MinIsLeast ==
  ASSUME NEW S \in SUBSET Nat, S # {}
  PROVE  Min(S) \in S /\ \A n \in S : Min(S) =< n
<1>1. \E n \in S : \A m \in S : n =< m
  BY Least
<1> QED
  BY <1>1 DEF Min

LEMMA MaxIsGreatest ==
  ASSUME NEW top \in Nat, NEW S \in SUBSET (0..top), S # {}
  PROVE  Max(S) \in S /\ \A n \in S : n =< Max(S)
<1> DEFINE T == {k \in Nat : top - k \in S}
<1>1. T # {}
  <2>1. PICK n \in S : n \in 0..top
    OBVIOUS
  <2>2. top - n \in T
    BY <2>1
  <2> QED
    BY <2>2
<1>2. PICK k \in T : \A m \in T : k =< m
  <2>1. T \in SUBSET Nat
    OBVIOUS
  <2> HIDE DEF T
  <2> QED
    BY <1>1, <2>1, Least
<1>3. ASSUME NEW n \in S PROVE n =< top - k
  <2>1. n \in 0..top
    OBVIOUS
  <2>2. top - n \in Nat /\ top - (top - n) = n
    BY <2>1
  <2>3. top - n \in T
    BY <2>2
  <2>4. k =< top - n /\ k \in Nat
    BY <1>2, <2>3
  <2> QED
    BY <2>1, <2>2, <2>4
<1>4. top - k \in S
  BY <1>2
<1> QED
  BY <1>3, <1>4 DEF Max
----------------------------------------------------------------------------
LEMMA IntervalGrows ==
  ASSUME NEW a \in Nat, NEW b \in Nat, b >= a
  PROVE  1..(a + 1) \subseteq 1..(b + 1) /\ 0..a \subseteq 0..b
OBVIOUS

(* Types. *)

LEMMA InitTypeOK == Init => TypeOK
<1> SUFFICES ASSUME Init PROVE TypeOK
  OBVIOUS
<1>1. ServerSeqno = 0
  BY DEF Init, BroadcastInit, ServerSeqno
<1>2. BroadcastTypeOK
  BY <1>1 DEF Init, BroadcastInit, BroadcastTypeOK
<1>3. HandlerTypeOK
  <2>1. lagged \in BOOLEAN
    BY DEF Init
  <2>2. rxNext \in 1..(ServerSeqno + 1) /\ lastSent \in 0..ServerSeqno
    BY <1>1 DEF Init
  <2> QED
    BY <2>1, <2>2 DEF Init, HandlerTypeOK, Phases
<1>4. QueueTypeOK
  BY SessionAssumption DEF Init, QueueTypeOK
<1>5. ClientTypeOK
  BY DEF Init, ClientTypeOK
<1> QED
  BY <1>2, <1>3, <1>4, <1>5 DEF TypeOK

(* What the forwarder does to its own state: numbers only grow, and an     *)
(* item that was numbered keeps its number and its kind.                   *)
LEMMA PublishStep ==
  ASSUME BroadcastTypeOK, Publish
  PROVE  /\ BroadcastTypeOK'
         /\ ServerSeqno' \in Nat /\ ServerSeqno' >= ServerSeqno /\ sent' >= sent
         /\ \A n \in 1..ServerSeqno : items'[n] = items[n]
<1>1. /\ items \in Seq(Kinds) /\ batch \in Seq(Kinds)
      /\ history \subseteq 1..ServerSeqno /\ sent \in 0..ServerSeqno
      /\ step \in {"assign", "store", "send"}
      /\ step # "assign" => ServerSeqno > 0
      /\ ServerSeqno = Len(items) /\ ServerSeqno \in Nat
  BY DEF BroadcastTypeOK, ServerSeqno
<1>2. CASE Receive
  <2>1. batch' \in Seq(Kinds)
    BY <1>2, BroadcastAssumption DEF Receive
  <2>2. ServerSeqno' = ServerSeqno /\ UNCHANGED <<items, history, sent, step>>
    BY <1>2 DEF Receive, ServerSeqno
  <2> QED
    BY <1>1, <2>1, <2>2 DEF BroadcastTypeOK
<1>3. CASE Assign
  <2>1. Head(batch) \in Kinds /\ Tail(batch) \in Seq(Kinds)
    BY <1>1, <1>3 DEF Assign
  <2>2. /\ items' \in Seq(Kinds) /\ Len(items') = Len(items) + 1
        /\ \A n \in 1..Len(items) : items'[n] = items[n]
    BY <1>1, <1>3, <2>1 DEF Assign
  <2>3. ServerSeqno' = ServerSeqno + 1
    BY <2>2 DEF ServerSeqno
  <2> QED
    BY <1>1, <1>3, <2>1, <2>2, <2>3 DEF Assign, BroadcastTypeOK
<1>4. CASE Store
  <2>1. ServerSeqno' = ServerSeqno /\ ServerSeqno > 0
    BY <1>1, <1>4 DEF Store, ServerSeqno
  <2>2. history' \subseteq history \cup {ServerSeqno}
    BY <1>4 DEF Store
  <2>3. history' \subseteq 1..ServerSeqno
    BY <1>1, <2>1, <2>2
  <2>4. step' = "send" /\ UNCHANGED <<items, sent, batch>>
    BY <1>4 DEF Store
  <2> QED
    BY <1>1, <2>1, <2>3, <2>4 DEF BroadcastTypeOK
<1>5. CASE Send
  <2>1. ServerSeqno' = ServerSeqno
    BY <1>5 DEF Send, ServerSeqno
  <2> QED
    BY <1>1, <1>5, <2>1 DEF Send, BroadcastTypeOK
<1> QED
  BY <1>2, <1>3, <1>4, <1>5 DEF Publish

LEMMA PublishTypeOK ==
  ASSUME TypeOK, Publish, UNCHANGED sessionVars
  PROVE  TypeOK'
<1>1. /\ BroadcastTypeOK' /\ ServerSeqno' >= ServerSeqno
      /\ ServerSeqno' \in Nat /\ ServerSeqno \in Nat
  BY PublishStep DEF TypeOK, BroadcastTypeOK, ServerSeqno
<1>2. /\ UNCHANGED <<phase, mode, rxNext, lastSent, toSend, cover, start,
                     offered, repeated, lagged>>
      /\ UNCHANGED <<outbox, sendQ, drops, warning>>
      /\ UNCHANGED <<cursor, seen, stale, base, connects, restarts>>
  BY DEF sessionVars, link, position, pressure, ledger, client, counters
<1>3. Messages \subseteq Messages' /\ 1..ServerSeqno \subseteq 1..ServerSeqno'
  BY <1>1 DEF Messages
<1>4. HandlerTypeOK'
  <2>1. lagged' \in BOOLEAN
    BY <1>2 DEF TypeOK, HandlerTypeOK
  <2>2. rxNext' \in 1..(ServerSeqno' + 1) /\ lastSent' \in 0..ServerSeqno'
    <3>1. rxNext \in 1..(ServerSeqno + 1) /\ lastSent \in 0..ServerSeqno
      BY DEF TypeOK, HandlerTypeOK
    <3>2. rxNext' = rxNext /\ lastSent' = lastSent
      BY <1>2
    <3> QED
      BY <1>1, <3>1, <3>2, IntervalGrows
  <2> QED
    BY <1>2, <1>3, <2>1, <2>2 DEF TypeOK, HandlerTypeOK
<1>5. QueueTypeOK'
  <2>1. sendQ \in Seq(Messages')
    BY <1>3 DEF TypeOK, QueueTypeOK
  <2> QED
    BY <1>2, <1>3, <2>1 DEF TypeOK, QueueTypeOK
<1>6. ClientTypeOK'
  BY <1>2, <1>3 DEF TypeOK, ClientTypeOK
<1> QED
  BY <1>1, <1>4, <1>5, <1>6 DEF TypeOK

(* A step of the session leaves the forwarder alone. *)
LEMMA ForwarderStays ==
  ASSUME TypeOK, UNCHANGED forwarderVars
  PROVE  /\ BroadcastTypeOK' /\ ServerSeqno' = ServerSeqno
         /\ ServerSeqno \in Nat /\ Messages' = Messages
<1>1. UNCHANGED <<items, history, sent, batch, step>>
  BY DEF forwarderVars
<1> QED
  BY <1>1 DEF TypeOK, BroadcastTypeOK, ServerSeqno, Messages

LEMMA ControlIsMessage ==
  ASSUME NEW kind \in MessageKinds
  PROVE  Control(kind) \in Messages
BY DEF Control, Message, Messages

LEMMA NumberedIsMessage ==
  ASSUME NEW kind \in MessageKinds, NEW tag \in Nat,
         NEW content \in SUBSET (1..ServerSeqno)
  PROVE  Message(kind, tag, content) \in Messages
BY DEF Message, Messages

LEMMA FreshNumbered ==
  ASSUME BroadcastTypeOK, HandlerTypeOK
  PROVE  /\ Fresh \subseteq rxNext..sent /\ Fresh \subseteq 1..ServerSeqno
         /\ Fresh \in SUBSET Nat
         /\ \A n \in Fresh : n > lastSent
         /\ sent \in Nat /\ ServerSeqno \in Nat /\ sent =< ServerSeqno
         /\ rxNext \in Nat /\ rxNext >= 1 /\ lastSent \in Nat
<1>1. /\ sent \in 0..ServerSeqno /\ ServerSeqno \in Nat
      /\ rxNext \in 1..(ServerSeqno + 1) /\ lastSent \in 0..ServerSeqno
  BY DEF BroadcastTypeOK, HandlerTypeOK, ServerSeqno
<1> QED
  BY <1>1 DEF Fresh

(* The handshake. *)
LEMMA HandshakeTypeOK ==
  ASSUME TypeOK, Handshake
  PROVE  TypeOK'
<1>1. CASE DecideSnapshot
  <2>1. /\ BroadcastTypeOK' /\ ServerSeqno' = ServerSeqno /\ Messages' = Messages
    BY <1>1, ForwarderStays DEF DecideSnapshot
  <2>2. HandlerTypeOK'
    BY <1>1, <2>1 DEF DecideSnapshot, position, ledger, TypeOK, HandlerTypeOK, Phases
  <2>3. QueueTypeOK'
    BY <1>1, <2>1, ControlIsMessage
       DEF DecideSnapshot, pressure, TypeOK, QueueTypeOK, MessageKinds
  <2>4. ClientTypeOK'
    BY <1>1, <2>1 DEF DecideSnapshot, client, counters, TypeOK, ClientTypeOK
  <2> QED
    BY <2>1, <2>2, <2>3, <2>4 DEF TypeOK
<1>2. CASE BuildSnapshot
  <2>1. /\ BroadcastTypeOK' /\ ServerSeqno' = ServerSeqno /\ Messages' = Messages
    BY <1>2, ForwarderStays DEF BuildSnapshot
  <2>2. Applied \in Nat
    BY DEF Applied, TypeOK, BroadcastTypeOK
  <2>3. HandlerTypeOK'
    BY <1>2, <2>1, <2>2 DEF BuildSnapshot, ledger, TypeOK, HandlerTypeOK, Phases
  <2>4. QueueTypeOK'
    BY <1>2, <2>1 DEF BuildSnapshot, pressure, TypeOK, QueueTypeOK
  <2>5. ClientTypeOK'
    BY <1>2, <2>1 DEF BuildSnapshot, client, counters, TypeOK, ClientTypeOK
  <2> QED
    BY <2>1, <2>3, <2>4, <2>5 DEF TypeOK
<1>3. CASE StampSnapshot
  <2>1. /\ BroadcastTypeOK' /\ ServerSeqno' = ServerSeqno /\ Messages' = Messages
        /\ ServerSeqno \in Nat
    BY <1>3, ForwarderStays DEF StampSnapshot
  <2>2. HandlerTypeOK'
    BY <1>3, <2>1 DEF StampSnapshot, position, ledger, TypeOK, HandlerTypeOK, Phases
  <2>3. Message("State", ServerSeqno, {}) \in Messages
    BY <2>1, NumberedIsMessage DEF MessageKinds
  <2>4. QueueTypeOK'
    BY <1>3, <2>1, <2>3 DEF StampSnapshot, pressure, TypeOK, QueueTypeOK
  <2>5. ClientTypeOK'
    BY <1>3, <2>1 DEF StampSnapshot, client, counters, TypeOK, ClientTypeOK
  <2> QED
    BY <2>1, <2>2, <2>4, <2>5 DEF TypeOK
<1>4. CASE MarkSnapshot
  <2>1. /\ BroadcastTypeOK' /\ ServerSeqno' = ServerSeqno /\ Messages' = Messages
        /\ ServerSeqno \in Nat
    BY <1>4, ForwarderStays DEF MarkSnapshot
  <2>2. HandlerTypeOK'
    BY <1>4, <2>1 DEF MarkSnapshot, TypeOK, HandlerTypeOK, Phases
  <2>3. QueueTypeOK'
    BY <1>4, <2>1 DEF MarkSnapshot, pressure, TypeOK, QueueTypeOK
  <2>4. ClientTypeOK'
    BY <1>4, <2>1 DEF MarkSnapshot, client, counters, TypeOK, ClientTypeOK
  <2> QED
    BY <2>1, <2>2, <2>3, <2>4 DEF TypeOK
<1>5. CASE DecideResume
  <2>1. /\ BroadcastTypeOK' /\ ServerSeqno' = ServerSeqno /\ Messages' = Messages
    BY <1>5, ForwarderStays DEF DecideResume
  <2>2. Replayable \subseteq 1..ServerSeqno
    BY DEF Replayable, TypeOK, BroadcastTypeOK
  <2>3. cursor \in Nat /\ base \in Nat
    BY DEF TypeOK, ClientTypeOK
  <2>4. Min({cursor, base}) \in Nat
    BY <2>3, MinIsLeast
  <2>5. HandlerTypeOK'
    BY <1>5, <2>1, <2>2, <2>3 DEF DecideResume, TypeOK, HandlerTypeOK, Phases
  <2>6. QueueTypeOK'
    BY <1>5, <2>1, ControlIsMessage
       DEF DecideResume, pressure, TypeOK, QueueTypeOK, MessageKinds
  <2>7. ClientTypeOK'
    BY <1>5, <2>1, <2>4 DEF DecideResume, client, counters, TypeOK, ClientTypeOK
  <2> QED
    BY <2>1, <2>5, <2>6, <2>7 DEF TypeOK
<1>6. CASE Replay
  <2>1. /\ BroadcastTypeOK' /\ ServerSeqno' = ServerSeqno /\ Messages' = Messages
        /\ ServerSeqno \in Nat
    BY <1>6, ForwarderStays DEF Replay
  <2>2. toSend \subseteq 1..ServerSeqno /\ toSend # {}
    BY <1>6 DEF Replay, TypeOK, HandlerTypeOK
  <2>3. PICK n \in 1..ServerSeqno :
          /\ outbox' = {Message("Replay", n, {n})} /\ lastSent' = n
          /\ toSend' = toSend \ {n} /\ offered' = offered \cup {n}
          /\ repeated' = repeated \cup ({n} \cap offered)
    <3>1. Min(toSend) \in 1..ServerSeqno
      <4>1. toSend \in SUBSET Nat
        BY <2>1, <2>2
      <4> QED
        BY <2>2, <4>1, MinIsLeast
    <3> QED
      BY <1>6, <3>1 DEF Replay
  <2>4. HandlerTypeOK'
    <3>1. lastSent' \in 0..ServerSeqno
      BY <2>1, <2>3
    <3> QED
      BY <1>6, <2>1, <2>3, <3>1 DEF Replay, link, TypeOK, HandlerTypeOK
  <2>5. QueueTypeOK'
    <3>1. n \in Nat /\ {n} \in SUBSET (1..ServerSeqno)
      BY <2>1
    <3>2. Message("Replay", n, {n}) \in Messages
      BY <3>1, NumberedIsMessage DEF MessageKinds
    <3> QED
      BY <1>6, <2>1, <2>3, <3>2 DEF Replay, pressure, TypeOK, QueueTypeOK
  <2>6. ClientTypeOK'
    BY <1>6, <2>1 DEF Replay, client, counters, TypeOK, ClientTypeOK
  <2> QED
    BY <2>1, <2>4, <2>5, <2>6 DEF TypeOK
<1>7. CASE ReplayDone
  <2>1. /\ BroadcastTypeOK' /\ ServerSeqno' = ServerSeqno /\ Messages' = Messages
    BY <1>7, ForwarderStays DEF ReplayDone
  <2>2. HandlerTypeOK'
    BY <1>7, <2>1 DEF ReplayDone, position, ledger, TypeOK, HandlerTypeOK, Phases
  <2>3. QueueTypeOK'
    BY <1>7, <2>1 DEF ReplayDone, pressure, TypeOK, QueueTypeOK
  <2>4. ClientTypeOK'
    BY <1>7, <2>1 DEF ReplayDone, client, counters, TypeOK, ClientTypeOK
  <2> QED
    BY <2>1, <2>2, <2>3, <2>4 DEF TypeOK
<1> QED
  BY <1>1, <1>2, <1>3, <1>4, <1>5, <1>6, <1>7 DEF Handshake

(* The messages of the live loop are numbered by items of the batch. *)
LEMMA TagOfBatch ==
  ASSUME BroadcastTypeOK, HandlerTypeOK, Fresh # {},
         NEW metrics \in SUBSET Fresh
  PROVE  (IF metrics = {} THEN Min(Fresh) ELSE Max(metrics)) \in 1..ServerSeqno
<1>1. Fresh \subseteq 1..ServerSeqno /\ Fresh \in SUBSET Nat /\ ServerSeqno \in Nat
  BY FreshNumbered
<1>2. Min(Fresh) \in 1..ServerSeqno
  BY <1>1, MinIsLeast
<1>3. ASSUME metrics # {} PROVE Max(metrics) \in 1..ServerSeqno
  <2>1. metrics \in SUBSET (0..ServerSeqno)
    BY <1>1
  <2> QED
    BY <1>1, <1>3, <2>1, MaxIsGreatest
<1> QED
  BY <1>2, <1>3

LEMMA LiveTypeOK ==
  ASSUME TypeOK, Live
  PROVE  TypeOK'
<1>1. CASE Recv
  <2>1. /\ BroadcastTypeOK' /\ ServerSeqno' = ServerSeqno /\ Messages' = Messages
        /\ ServerSeqno \in Nat
    BY <1>1, ForwarderStays DEF Recv
  <2>2. /\ Fresh \subseteq 1..ServerSeqno /\ sent \in Nat /\ sent =< ServerSeqno
    BY FreshNumbered DEF TypeOK
  <2> DEFINE events  == OfKind("event", Fresh)
             metrics == OfKind("metric", Fresh)
             tag     == IF metrics = {} THEN Min(Fresh) ELSE Max(metrics)
  <2>3. events \in SUBSET Fresh /\ metrics \in SUBSET Fresh
    BY DEF OfKind
  <2>4. /\ outbox' = IF events = {} THEN {} ELSE {Message("Events", tag, events)}
        /\ toSend' = metrics /\ rxNext' = sent + 1
        /\ offered' = offered \cup Fresh
        /\ repeated' = repeated \cup (Fresh \cap offered)
    BY <1>1 DEF Recv
  <2> HIDE DEF events, metrics
  <2>5. HandlerTypeOK'
    <3>1. rxNext' \in 1..(ServerSeqno + 1)
      BY <2>1, <2>2, <2>4
    <3> QED
      BY <1>1, <2>1, <2>2, <2>3, <2>4, <3>1 DEF Recv, link, TypeOK, HandlerTypeOK
  <2>6. QueueTypeOK'
    <3>1. ASSUME events # {} PROVE Message("Events", tag, events) \in Messages
      <4>1. tag \in 1..ServerSeqno
        BY <2>3, <3>1, TagOfBatch DEF TypeOK
      <4> HIDE DEF tag
      <4>2. tag \in Nat /\ events \in SUBSET (1..ServerSeqno)
        BY <2>1, <2>2, <2>3, <4>1
      <4> QED
        BY <4>2, NumberedIsMessage DEF MessageKinds
    <3> HIDE DEF tag
    <3> QED
      BY <1>1, <2>1, <2>4, <3>1 DEF Recv, pressure, TypeOK, QueueTypeOK
  <2>7. ClientTypeOK'
    BY <1>1, <2>1 DEF Recv, client, counters, TypeOK, ClientTypeOK
  <2> QED
    BY <2>1, <2>5, <2>6, <2>7 DEF TypeOK
<1>2. CASE SendMetric
  <2>1. /\ BroadcastTypeOK' /\ ServerSeqno' = ServerSeqno /\ Messages' = Messages
        /\ ServerSeqno \in Nat
    BY <1>2, ForwarderStays DEF SendMetric
  <2>2. toSend \subseteq 1..ServerSeqno /\ toSend # {} /\ toSend \in SUBSET Nat
    BY <1>2, <2>1 DEF SendMetric, TypeOK, HandlerTypeOK
  <2>3. Min(toSend) \in 1..ServerSeqno
    BY <2>2, MinIsLeast
  <2>4. PICK n \in 1..ServerSeqno :
          outbox' = {Message("Metric", n, {n})} /\ toSend' = toSend \ {n}
    BY <1>2, <2>3 DEF SendMetric
  <2>5. HandlerTypeOK'
    BY <1>2, <2>1, <2>4 DEF SendMetric, link, ledger, TypeOK, HandlerTypeOK
  <2>6. QueueTypeOK'
    <3>1. n \in Nat /\ {n} \in SUBSET (1..ServerSeqno)
      BY <2>1
    <3>2. Message("Metric", n, {n}) \in Messages
      BY <3>1, NumberedIsMessage DEF MessageKinds
    <3> QED
      BY <1>2, <2>1, <2>4, <3>2 DEF SendMetric, pressure, TypeOK, QueueTypeOK
  <2>7. ClientTypeOK'
    BY <1>2, <2>1 DEF SendMetric, client, counters, TypeOK, ClientTypeOK
  <2> QED
    BY <2>1, <2>5, <2>6, <2>7 DEF TypeOK
<1>3. CASE RecvLagged
  <2>1. /\ BroadcastTypeOK' /\ ServerSeqno' = ServerSeqno /\ Messages' = Messages
        /\ ServerSeqno \in Nat
    BY <1>3, ForwarderStays DEF RecvLagged
  <2>2. rxNext' \in 1..(ServerSeqno + 1) /\ lagged' = TRUE
    <3>1. /\ sent \in Nat /\ sent =< ServerSeqno /\ rxNext \in Nat /\ rxNext >= 1
      BY FreshNumbered DEF TypeOK
    <3>2. BroadcastCap \in Nat
      BY SessionAssumption
    <3>3. sent - rxNext >= BroadcastCap /\ rxNext' = sent - BroadcastCap + 1
          /\ lagged' = TRUE
      BY <1>3 DEF RecvLagged
    <3> QED
      BY <2>1, <3>1, <3>2, <3>3
  <2>3. HandlerTypeOK'
    BY <1>3, <2>1, <2>2 DEF RecvLagged, link, TypeOK, HandlerTypeOK
  <2>4. QueueTypeOK'
    BY <1>3, <2>1 DEF RecvLagged, pressure, TypeOK, QueueTypeOK
  <2>5. ClientTypeOK'
    BY <1>3, <2>1 DEF RecvLagged, client, counters, TypeOK, ClientTypeOK
  <2> QED
    BY <2>1, <2>3, <2>4, <2>5 DEF TypeOK
<1> QED
  BY <1>1, <1>2, <1>3 DEF Live

(* A pending warning takes a free place only. *)
LEMMA QueuedFits ==
  ASSUME QueueTypeOK
  PROVE  /\ Queued \in Seq(Messages) /\ Len(Queued) \in Nat
         /\ Len(Queued) =< SendBuffer /\ SendBuffer \in Nat
         /\ \A m \in Messages : /\ Append(Queued, m) \in Seq(Messages)
                               /\ Len(Append(Queued, m)) = Len(Queued) + 1
<1>1. /\ sendQ \in Seq(Messages) /\ Len(sendQ) =< SendBuffer
      /\ Len(sendQ) \in Nat /\ SendBuffer \in Nat
  BY SessionAssumption DEF QueueTypeOK
<1>2. Control("Warning") \in Messages
  BY ControlIsMessage DEF MessageKinds
<1>3. /\ Append(sendQ, Control("Warning")) \in Seq(Messages)
      /\ Len(Append(sendQ, Control("Warning"))) = Len(sendQ) + 1
  BY <1>1, <1>2
<1>4. /\ Queued \in Seq(Messages) /\ Len(Queued) \in Nat
      /\ Len(Queued) =< SendBuffer
  BY <1>1, <1>3 DEF Queued
<1> QED
  BY <1>1, <1>4

LEMMA SendOrDropTypeOK ==
  ASSUME TypeOK, SendOrDrop
  PROVE  TypeOK'
<1>0. /\ QueueTypeOK /\ outbox \subseteq Messages /\ drops \in Nat
  BY DEF TypeOK, QueueTypeOK
<1>1. CASE Enqueue
  <2>1. /\ BroadcastTypeOK' /\ ServerSeqno' = ServerSeqno /\ Messages' = Messages
    BY <1>1, ForwarderStays DEF Enqueue
  <2>2. HandlerTypeOK'
    BY <1>1, <2>1 DEF Enqueue, link, position, ledger, TypeOK, HandlerTypeOK
  <2>3. QueueTypeOK'
    <3>1. PICK m \in Messages : sendQ' = Append(Queued, m)
      BY <1>0, <1>1 DEF Enqueue
    <3>2. sendQ' \in Seq(Messages) /\ Len(sendQ') =< SendBuffer
      BY <1>0, <1>1, <3>1, QueuedFits DEF Enqueue
    <3> QED
      BY <1>0, <1>1, <2>1, <3>2 DEF Enqueue, QueueTypeOK
  <2>4. ClientTypeOK'
    BY <1>1, <2>1 DEF Enqueue, client, counters, TypeOK, ClientTypeOK
  <2> QED
    BY <2>1, <2>2, <2>3, <2>4 DEF TypeOK
<1>2. CASE Drop \/ DropAtLimit
  <2>1. Dropping
    BY <1>2 DEF Drop, DropAtLimit
  <2>2. /\ BroadcastTypeOK' /\ ServerSeqno' = ServerSeqno /\ Messages' = Messages
    BY <2>1, ForwarderStays DEF Dropping
  <2>3. HandlerTypeOK'
    <3>1. phase' \in Phases /\ toSend' \subseteq 1..ServerSeqno
      BY <1>2 DEF Drop, DropAtLimit, Phases, TypeOK, HandlerTypeOK
    <3> QED
      BY <2>1, <2>2, <3>1 DEF Dropping, ledger, TypeOK, HandlerTypeOK
  <2>4. QueueTypeOK'
    <3>1. sendQ' \in Seq(Messages) /\ Len(sendQ') =< SendBuffer
      BY <1>0, <2>1, QueuedFits DEF Dropping
    <3>2. drops' \in Nat /\ warning' \in SUBSET Nat /\ outbox' = {}
      BY <1>0, <2>1 DEF Dropping
    <3> QED
      BY <2>2, <3>1, <3>2 DEF QueueTypeOK
  <2>5. ClientTypeOK'
    BY <2>1, <2>2 DEF Dropping, client, counters, TypeOK, ClientTypeOK
  <2> QED
    BY <2>2, <2>3, <2>4, <2>5 DEF TypeOK
<1> QED
  BY <1>1, <1>2 DEF SendOrDrop

LEMMA DeliverTypeOK ==
  ASSUME TypeOK, Deliver
  PROVE  TypeOK'
<1>1. /\ BroadcastTypeOK' /\ ServerSeqno' = ServerSeqno /\ Messages' = Messages
  BY ForwarderStays DEF Deliver
<1>2. HandlerTypeOK'
  BY <1>1 DEF Deliver, link, position, ledger, TypeOK, HandlerTypeOK
<1>3. sendQ \in Seq(Messages) /\ sendQ # <<>> /\ Len(sendQ) =< SendBuffer
      /\ SendBuffer \in Nat
  BY SessionAssumption DEF Deliver, TypeOK, QueueTypeOK
<1>4. QueueTypeOK'
  <2>1. /\ Tail(sendQ) \in Seq(Messages) /\ Len(Tail(sendQ)) = Len(sendQ) - 1
        /\ Len(sendQ) \in Nat
    BY <1>3
  <2>2. Len(Tail(sendQ)) =< SendBuffer
    BY <1>3, <2>1
  <2> QED
    BY <1>1, <2>1, <2>2 DEF Deliver, TypeOK, QueueTypeOK
<1>5. ClientTypeOK'
  <2>1. PICK m \in Messages : m = Head(sendQ)
    BY <1>3
  <2>2. m.tag \in Nat /\ m.items \subseteq 1..ServerSeqno
    BY DEF Messages
  <2>3. cursor' \in Nat /\ seen' \subseteq 1..ServerSeqno
    BY <2>1, <2>2 DEF Deliver, TypeOK, ClientTypeOK
  <2>4. stale' = FALSE \/ stale' = stale
    BY DEF Deliver
  <2>5. stale' \in BOOLEAN
    BY <2>4 DEF TypeOK, ClientTypeOK
  <2> QED
    BY <1>1, <2>3, <2>5 DEF Deliver, counters, TypeOK, ClientTypeOK
<1> QED
  BY <1>1, <1>2, <1>4, <1>5 DEF TypeOK

LEMMA ConnectTypeOK ==
  ASSUME TypeOK, Connect
  PROVE  TypeOK'
<1>1. /\ BroadcastTypeOK' /\ ServerSeqno' = ServerSeqno /\ Messages' = Messages
  BY ForwarderStays DEF Connect
<1>2. rxNext' \in 1..(ServerSeqno + 1)
  BY DEF Connect, TypeOK, BroadcastTypeOK, ServerSeqno
<1>3. HandlerTypeOK'
  BY <1>1, <1>2 DEF Connect, ledger, TypeOK, HandlerTypeOK, Phases
<1>4. QueueTypeOK'
  BY <1>1, ControlIsMessage
     DEF Connect, pressure, TypeOK, QueueTypeOK, MessageKinds
<1>5. ClientTypeOK'
  BY <1>1 DEF Connect, client, TypeOK, ClientTypeOK
<1> QED
  BY <1>1, <1>3, <1>4, <1>5 DEF TypeOK

LEMMA BreakTypeOK ==
  ASSUME TypeOK, Break
  PROVE  TypeOK'
<1>1. /\ BroadcastTypeOK' /\ ServerSeqno' = ServerSeqno /\ Messages' = Messages
  BY ForwarderStays DEF Break
<1>2. HandlerTypeOK'
  BY <1>1 DEF Break, position, ledger, TypeOK, HandlerTypeOK, Phases
<1>3. QueueTypeOK'
  BY <1>1 DEF Break, pressure, TypeOK, QueueTypeOK
<1>4. ClientTypeOK'
  BY <1>1 DEF Break, client, counters, TypeOK, ClientTypeOK
<1> QED
  BY <1>1, <1>2, <1>3, <1>4 DEF TypeOK

(* An empty session is well formed, whatever the forwarder's state. *)
LEMMA FirstOfInterval ==
  ASSUME NEW a \in Nat
  PROVE  1 \in 1..(a + 1) /\ 0 \in 0..a
OBVIOUS

LEMMA EndTypeOK ==
  ASSUME EndSession, ServerSeqno' \in Nat
  PROVE  HandlerTypeOK' /\ QueueTypeOK'
<1>1. lagged' \in BOOLEAN
  BY DEF EndSession
<1>2. rxNext' \in 1..(ServerSeqno' + 1) /\ lastSent' \in 0..ServerSeqno'
  <2>1. 1 \in 1..(ServerSeqno' + 1) /\ 0 \in 0..ServerSeqno'
    BY FirstOfInterval
  <2> QED
    BY <2>1 DEF EndSession
<1>3. HandlerTypeOK'
  BY <1>1, <1>2 DEF EndSession, HandlerTypeOK, Phases
<1>4. QueueTypeOK'
  BY SessionAssumption DEF EndSession, QueueTypeOK
<1> QED
  BY <1>3, <1>4

LEMMA EndingTypeOK ==
  ASSUME TypeOK, Close \/ SocketLost \/ Restart
  PROVE  TypeOK'
<1>1. CASE Close \/ SocketLost
  <2>1. /\ EndSession /\ UNCHANGED forwarderVars
        /\ UNCHANGED <<cursor, seen, stale, base, counters>>
    BY <1>1 DEF Close, SocketLost
  <2>2. /\ BroadcastTypeOK' /\ ServerSeqno' = ServerSeqno /\ ServerSeqno \in Nat
    BY <2>1, ForwarderStays
  <2>3. HandlerTypeOK' /\ QueueTypeOK'
    BY <2>1, <2>2, EndTypeOK
  <2>4. ClientTypeOK'
    BY <2>1, <2>2 DEF counters, TypeOK, ClientTypeOK
  <2> QED
    BY <2>2, <2>3, <2>4 DEF TypeOK
<1>2. CASE Restart
  <2>1. /\ items' = <<>> /\ history' = {} /\ sent' = 0
        /\ batch' = <<>> /\ step' = "assign" /\ EndSession
    BY <1>2 DEF Restart
  <2>2. ServerSeqno' = 0 /\ BroadcastTypeOK'
    BY <2>1 DEF ServerSeqno, BroadcastTypeOK
  <2>3. HandlerTypeOK' /\ QueueTypeOK'
    BY <2>1, <2>2, EndTypeOK
  <2>4. stale' \in BOOLEAN
    BY <1>2 DEF Restart
  <2>5. ClientTypeOK'
    BY <1>2, <2>4 DEF Restart, TypeOK, ClientTypeOK
  <2> QED
    BY <2>2, <2>3, <2>5 DEF TypeOK
<1> QED
  BY <1>1, <1>2

LEMMA NextTypeOK == TypeOK /\ [Next]_vars => TypeOK'
<1> SUFFICES ASSUME TypeOK, [Next]_vars PROVE TypeOK'
  OBVIOUS
<1>1. CASE UNCHANGED vars
  <2>1. UNCHANGED forwarderVars /\ UNCHANGED sessionVars
    BY <1>1 DEF vars
  <2>2. BroadcastTypeOK' /\ ServerSeqno' = ServerSeqno /\ Messages' = Messages
    BY <2>1, ForwarderStays
  <2>3. HandlerTypeOK'
    BY <2>1, <2>2 DEF sessionVars, link, position, ledger, TypeOK, HandlerTypeOK
  <2>4. QueueTypeOK'
    BY <2>1, <2>2 DEF sessionVars, pressure, TypeOK, QueueTypeOK
  <2>5. ClientTypeOK'
    BY <2>1, <2>2 DEF sessionVars, client, counters, TypeOK, ClientTypeOK
  <2> QED
    BY <2>2, <2>3, <2>4, <2>5 DEF TypeOK
<1> QED
  BY <1>1, PublishTypeOK, ConnectTypeOK, HandshakeTypeOK, LiveTypeOK,
     SendOrDropTypeOK, DeliverTypeOK, BreakTypeOK, EndingTypeOK DEF Next

(* The queue to a client never exceeds its capacity, also when a warning   *)
(* is squeezed in, and nothing is sent that was not numbered.              *)
THEOREM TypeCorrect == Spec => []TypeOK
<1> QED
  BY InitTypeOK, NextTypeOK, PTL DEF Spec
=============================================================================
