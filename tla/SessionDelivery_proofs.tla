----------------------- MODULE SessionDelivery_proofs -----------------------
(***************************************************************************)
(* Delivery in a session, for every subscription, history size, channel    *)
(* capacity, buffer size and interleaving of the forwarder with the        *)
(* handler: the history is a window, no item is handled twice, the seam    *)
(* between replay or snapshot and live has no gap, what is lost is counted *)
(* as dropped, and the cursor of an undisturbed client loses no event.     *)
(***************************************************************************)
EXTENDS Session_proofs

(* One item at most is numbered and not yet in the channel, and no         *)
(* receiver is ahead of the channel.                                       *)
Paced == /\ ServerSeqno = IF step = "assign" THEN sent ELSE sent + 1
         /\ rxNext =< sent + 1

(* Before the replay or the live loop nothing was handled. *)
Waiting == phase \in {"closed", "subscribed", "snapshot", "stamp", "mark"} =>
             offered = {} /\ toSend = {} /\ lastSent = 0

(* A replay runs from the cursor to the newest entry the history had, in   *)
(* order; the receiver was opened before and continues at most there.      *)
ReplayUpTo(top) ==
  /\ rxNext =< top + 1 /\ top =< ServerSeqno /\ lastSent =< top
  /\ offered \cup toSend = (start + 1)..top
  /\ (\A n \in offered : n =< lastSent) /\ \A n \in toSend : n > lastSent
Replaying == phase = "replay" => \E top \in Nat : ReplayUpTo(top)

(* What a live session handled is behind its receiver or skipped by it. *)
Behind == phase \in {"live", "closing"} =>
            \A n \in offered : n =< lastSent \/ n < rxNext

(* The inductive invariant. *)
Delivery == /\ TypeOK /\ Paced /\ HistoryIsWindow
            /\ Waiting /\ Replaying /\ Behind
            /\ NoGapInSession /\ AtMostOncePerConnection
----------------------------------------------------------------------------
(* The history. *)

LEMMA Numbers ==
  ASSUME TypeOK
  PROVE  /\ ServerSeqno \in Nat /\ sent \in Nat /\ sent =< ServerSeqno
         /\ rxNext \in Nat /\ rxNext >= 1 /\ lastSent \in Nat
         /\ lastSent =< ServerSeqno /\ start \in Nat /\ cursor \in Nat
         /\ offered \in SUBSET Nat /\ toSend \in SUBSET Nat
         /\ step \in {"assign", "store", "send"}
         /\ MaxHistory \in Nat /\ MaxHistory > 0
<1>1. ServerSeqno \in Nat
  BY DEF TypeOK, BroadcastTypeOK, ServerSeqno
<1> QED
  BY <1>1, BroadcastAssumption
     DEF TypeOK, BroadcastTypeOK, HandlerTypeOK, ClientTypeOK

Window(top) == {n \in 1..top : n > top - MaxHistory}

LEMMA WindowSlides ==
  ASSUME NEW top \in Nat, top > 0, MaxHistory \in Nat, MaxHistory > 0,
         NEW grown, grown = Window(top - 1) \cup {top}
  PROVE  Window(top) = IF Cardinality(grown) > MaxHistory
                         THEN grown \ {Min(grown)} ELSE grown
<1>1. CASE top > MaxHistory
  <2>1. grown = (top - MaxHistory)..top
    BY <1>1 DEF Window
  <2>2. Cardinality(grown) = MaxHistory + 1
    <3>1. /\ top - MaxHistory \in Int /\ top \in Int
          /\ ~(top - MaxHistory > top)
          /\ top - (top - MaxHistory) + 1 = MaxHistory + 1
      OBVIOUS
    <3> QED
      BY <2>1, <3>1, FS_Interval
  <2>3. Min(grown) = top - MaxHistory
    <3>1. grown \in SUBSET Nat /\ grown # {} /\ top - MaxHistory \in grown
      BY <1>1, <2>1
    <3>2. Min(grown) \in grown /\ Min(grown) =< top - MaxHistory
      BY <3>1, MinIsLeast
    <3> QED
      BY <2>1, <3>2
  <2>4. Window(top) = grown \ {top - MaxHistory}
    BY <1>1, <2>1 DEF Window
  <2> QED
    BY <2>2, <2>3, <2>4
<1>2. CASE top =< MaxHistory
  <2>1. grown = 1..top /\ Window(top) = 1..top
    BY <1>2 DEF Window
  <2>2. Cardinality(grown) = top
    <3>1. 1 \in Int /\ top \in Int /\ ~(1 > top) /\ top - 1 + 1 = top
      OBVIOUS
    <3> QED
      BY <2>1, <3>1, FS_Interval
  <2>3. ~(Cardinality(grown) > MaxHistory) /\ Window(top) = grown
    BY <1>2, <2>1, <2>2
  <2> QED
    BY <2>3
<1> QED
  BY <1>1, <1>2

LEMMA PublishKeepsWindow ==
  ASSUME TypeOK, Paced, HistoryIsWindow, Publish
  PROVE  HistoryIsWindow'
<1>1. /\ step \in {"assign", "store", "send"}
      /\ history = Window(IF step = "store" THEN ServerSeqno - 1 ELSE ServerSeqno)
      /\ ServerSeqno \in Nat
  BY Numbers DEF HistoryIsWindow, Window
<1>2. CASE Receive \/ Send
  <2>1. /\ ServerSeqno' = ServerSeqno /\ history' = history
        /\ step # "store" /\ step' # "store"
    BY <1>2 DEF Receive, Send, ServerSeqno
  <2> QED
    BY <2>1 DEF HistoryIsWindow
<1>3. CASE Assign
  <2>1. /\ ServerSeqno' = ServerSeqno + 1 /\ history' = history
        /\ step = "assign" /\ step' = "store"
    <3>1. items \in Seq(Kinds) /\ batch \in Seq(Kinds) /\ batch # <<>>
      BY <1>3 DEF Assign, TypeOK, BroadcastTypeOK
    <3>2. Head(batch) \in Kinds
      BY <3>1
    <3> QED
      BY <1>3, <3>1, <3>2 DEF Assign, ServerSeqno
  <2>2. ServerSeqno' - 1 = ServerSeqno
    BY <1>1, <2>1
  <2> QED
    BY <1>1, <2>1, <2>2 DEF HistoryIsWindow, Window
<1>4. CASE Store
  <2>1. /\ ServerSeqno' = ServerSeqno /\ step = "store" /\ step' = "send"
    BY <1>4 DEF Store, ServerSeqno
  <2>2. ServerSeqno > 0
    BY <2>1 DEF TypeOK, BroadcastTypeOK
  <2> DEFINE grown == history \cup {ServerSeqno}
  <2>3. history' = IF Cardinality(grown) > MaxHistory
                     THEN grown \ {Min(grown)} ELSE grown
    BY <1>4 DEF Store
  <2>4. grown = Window(ServerSeqno - 1) \cup {ServerSeqno}
    BY <1>1, <2>1
  <2> HIDE DEF grown
  <2>5. Window(ServerSeqno) = history'
    BY <1>1, <2>2, <2>3, <2>4, WindowSlides, Numbers
  <2> QED
    BY <2>1, <2>5 DEF HistoryIsWindow, Window
<1> QED
  BY <1>2, <1>3, <1>4 DEF Publish
----------------------------------------------------------------------------
(* The forwarder does not disturb a session. *)

LEMMA BoundGrows ==
  ASSUME NEW r \in Nat, NEW a \in Nat, NEW b \in Nat, r =< a + 1, b >= a
  PROVE  r =< b + 1
OBVIOUS

LEMMA PublishKeepsDelivery ==
  ASSUME Delivery, Publish, UNCHANGED sessionVars
  PROVE  Delivery'
<1>1. /\ TypeOK /\ Paced /\ HistoryIsWindow /\ Waiting /\ Replaying /\ Behind
      /\ NoGapInSession /\ AtMostOncePerConnection
  BY DEF Delivery
<1>2. TypeOK' /\ HistoryIsWindow'
  BY <1>1, PublishTypeOK, PublishKeepsWindow
<1>3. /\ UNCHANGED <<phase, mode, rxNext, lastSent, toSend, cover, start,
                     offered, repeated, lagged>>
  BY DEF sessionVars, link, position, ledger
<1>4. /\ ServerSeqno \in Nat /\ sent \in Nat /\ sent =< ServerSeqno
      /\ rxNext \in Nat /\ lastSent \in Nat /\ lastSent =< ServerSeqno
      /\ step \in {"assign", "store", "send"}
  BY <1>1, Numbers
<1>5. ServerSeqno' \in Nat /\ ServerSeqno' >= ServerSeqno /\ sent' >= sent
  BY <1>1, PublishStep DEF TypeOK
<1>6. Paced'
  <2>1. ServerSeqno' = IF step' = "assign" THEN sent' ELSE sent' + 1
    <3>1. CASE Receive
      BY <1>1, <3>1 DEF Receive, ServerSeqno, Paced
    <3>2. CASE Assign
      <4>1. items \in Seq(Kinds) /\ batch \in Seq(Kinds) /\ batch # <<>>
        BY <1>1, <3>2 DEF Assign, TypeOK, BroadcastTypeOK
      <4>2. Len(items') = Len(items) + 1
        BY <3>2, <4>1 DEF Assign
      <4> QED
        BY <1>1, <3>2, <4>2 DEF Assign, ServerSeqno, Paced
    <3>3. CASE Store
      BY <1>1, <3>3 DEF Store, ServerSeqno, Paced
    <3>4. CASE Send
      BY <3>4 DEF Send, ServerSeqno
    <3> QED
      BY <3>1, <3>2, <3>3, <3>4 DEF Publish
  <2>2. rxNext' =< sent' + 1
    <3>1. sent' \in Nat
      BY <1>2 DEF TypeOK, BroadcastTypeOK, ServerSeqno
    <3>2. rxNext =< sent + 1 /\ rxNext' = rxNext
      BY <1>1, <1>3 DEF Paced
    <3>3. rxNext =< sent' + 1
      BY <1>4, <1>5, <3>1, <3>2, BoundGrows
    <3> QED
      BY <3>2, <3>3
  <2> QED
    BY <2>1, <2>2 DEF Paced
<1>7. Waiting' /\ Behind' /\ AtMostOncePerConnection'
  BY <1>1, <1>3 DEF Waiting, Behind, AtMostOncePerConnection
<1>8. Replaying'
  <2> SUFFICES ASSUME phase' = "replay" PROVE \E top \in Nat : ReplayUpTo(top)'
    BY DEF Replaying
  <2>1. PICK top \in Nat : ReplayUpTo(top)
    BY <1>1, <1>3 DEF Replaying
  <2>2. ReplayUpTo(top)'
    BY <1>3, <1>4, <1>5, <2>1 DEF ReplayUpTo
  <2> QED
    BY <2>2
<1>9. NoGapInSession'
  <2>1. SUFFICES ASSUME phase \in {"live", "closing"}, ~lagged,
                        NEW n \in 1..ServerSeqno',
                        n > start, n < rxNext \/ n =< lastSent
                 PROVE  n \in offered
    BY <1>3 DEF NoGapInSession
  <2>2. n \in 1..ServerSeqno
    BY <1>1, <1>4, <1>5, <2>1 DEF Paced
  <2> QED
    BY <1>1, <2>1, <2>2 DEF NoGapInSession
<1> QED
  BY <1>2, <1>6, <1>7, <1>8, <1>9 DEF Delivery

(* A step of the session that does not touch the forwarder. *)
LEMMA SessionStepBase ==
  ASSUME Delivery, UNCHANGED forwarderVars
  PROVE  /\ HistoryIsWindow' /\ ServerSeqno' = ServerSeqno
         /\ sent' = sent /\ step' = step /\ history' = history
         /\ (rxNext' =< sent + 1 => Paced')
BY DEF Delivery, forwarderVars, ServerSeqno, HistoryIsWindow, Paced

(* A step that leaves the ledger, the position and the phase alone, or     *)
(* only ends the live loop.                                                *)
LEMMA QuietStep ==
  ASSUME Delivery, TypeOK', UNCHANGED forwarderVars,
         UNCHANGED <<rxNext, lastSent, ledger>>,
         \/ UNCHANGED <<phase, toSend>>
         \/ phase = "live" /\ phase' \in {"live", "closing"}
         \/ phase' = "aborted"
  PROVE  Delivery'
<1>1. /\ TypeOK /\ Paced /\ HistoryIsWindow /\ Waiting /\ Replaying /\ Behind
      /\ NoGapInSession /\ AtMostOncePerConnection
  BY DEF Delivery
<1>2. HistoryIsWindow' /\ ServerSeqno' = ServerSeqno /\ Paced'
  BY <1>1, SessionStepBase DEF Paced
<1>3. UNCHANGED <<start, offered, repeated, lagged, rxNext, lastSent>>
  BY DEF ledger
<1>4. Waiting' /\ Behind' /\ AtMostOncePerConnection'
  BY <1>1, <1>3 DEF Waiting, Behind, AtMostOncePerConnection
<1>5. Replaying'
  <2> SUFFICES ASSUME phase' = "replay" PROVE \E top \in Nat : ReplayUpTo(top)'
    BY DEF Replaying
  <2>1. phase = "replay" /\ toSend' = toSend
    OBVIOUS
  <2>2. PICK top \in Nat : ReplayUpTo(top)
    BY <1>1, <2>1 DEF Replaying
  <2>3. ReplayUpTo(top)'
    BY <1>2, <1>3, <2>1, <2>2 DEF ReplayUpTo
  <2> QED
    BY <2>3
<1>6. NoGapInSession'
  BY <1>1, <1>2, <1>3 DEF NoGapInSession
<1> QED
  BY <1>2, <1>4, <1>5, <1>6 DEF Delivery
----------------------------------------------------------------------------
(* The handshake. *)

WaitingPhases == {"closed", "subscribed", "snapshot", "stamp", "mark"}

LEMMA WaitingStep ==
  ASSUME Delivery, TypeOK', UNCHANGED forwarderVars,
         phase \in WaitingPhases, phase' \in WaitingPhases,
         UNCHANGED <<offered, toSend, lastSent, repeated>>,
         rxNext' =< sent + 1
  PROVE  Delivery'
<1>1. HistoryIsWindow' /\ Paced'
  BY SessionStepBase
<1>2. Waiting' /\ Replaying' /\ Behind' /\ NoGapInSession'
      /\ AtMostOncePerConnection'
  BY DEF Delivery, WaitingPhases, Waiting, Replaying, Behind, NoGapInSession,
         AtMostOncePerConnection
<1> QED
  BY <1>1, <1>2 DEF Delivery

(* Nothing after the cursor has left the history the cursor falls into, so *)
(* a resume replays all of it, and at least up to the receiver.            *)
LEMMA ReplayableIsSuffix ==
  ASSUME Delivery, Replayable # {}
  PROVE  \E top \in Nat : /\ top =< ServerSeqno /\ rxNext =< top + 1
                          /\ Replayable = (cursor + 1)..top
<1>1. /\ TypeOK /\ Paced /\ HistoryIsWindow
  BY DEF Delivery
<1>2. /\ ServerSeqno \in Nat /\ sent \in Nat /\ sent =< ServerSeqno
      /\ cursor \in Nat /\ step \in {"assign", "store", "send"}
      /\ MaxHistory \in Nat /\ rxNext \in Nat
  BY <1>1, Numbers
<1> DEFINE top == IF step = "store" THEN ServerSeqno - 1 ELSE ServerSeqno
<1>3. top >= sent /\ top =< ServerSeqno /\ top \in Nat
  BY <1>1, <1>2 DEF Paced
<1>4. history = Window(top)
  BY <1>1 DEF HistoryIsWindow, Window
<1> HIDE DEF top
<1>5. /\ cursor # 0 /\ ~(history # {} /\ cursor < Min(history))
      /\ Replayable = {n \in history : n > cursor}
  BY DEF Replayable
<1>6. history # {} /\ history \in SUBSET Nat
  BY <1>3, <1>4, <1>5 DEF Window
<1>7. Min(history) \in history /\ Min(history) =< cursor
  <2>1. Min(history) \in history /\ Min(history) \in Nat
    BY <1>6, MinIsLeast
  <2> QED
    BY <1>2, <1>5, <1>6, <2>1
<1>8. cursor > top - MaxHistory
  BY <1>2, <1>3, <1>4, <1>7 DEF Window
<1>9. Replayable = (cursor + 1)..top
  BY <1>2, <1>3, <1>4, <1>5, <1>8 DEF Window
<1>10. rxNext =< top + 1
  <2>1. rxNext =< sent + 1
    BY <1>1 DEF Paced
  <2> QED
    BY <1>2, <1>3, <2>1
<1> QED
  BY <1>3, <1>9, <1>10

LEMMA DecideResumeKeepsDelivery ==
  ASSUME Delivery, TypeOK', DecideResume
  PROVE  Delivery'
<1>1. /\ phase = "subscribed" /\ phase' = "replay" /\ toSend' = Replayable
      /\ start' = cursor /\ Replayable # {}
      /\ UNCHANGED <<rxNext, lastSent, offered, repeated>>
      /\ UNCHANGED forwarderVars
  BY DEF DecideResume
<1>2. offered = {} /\ lastSent = 0
  BY <1>1 DEF Delivery, Waiting
<1>3. HistoryIsWindow' /\ ServerSeqno' = ServerSeqno /\ Paced'
  BY <1>1, SessionStepBase DEF Delivery, Paced
<1>4. PICK top \in Nat : /\ top =< ServerSeqno /\ rxNext =< top + 1
                         /\ Replayable = (cursor + 1)..top
  BY <1>1, ReplayableIsSuffix
<1>5. cursor \in Nat
  BY Numbers DEF Delivery
<1>6. ReplayUpTo(top)'
  <2>1. \A n \in toSend' : n > lastSent'
    BY <1>1, <1>2, <1>4, <1>5
  <2>2. offered' \cup toSend' = (start' + 1)..top
    BY <1>1, <1>2, <1>4
  <2> QED
    BY <1>1, <1>2, <1>3, <1>4, <2>1, <2>2 DEF ReplayUpTo
<1>7. Replaying'
  BY <1>6 DEF Replaying
<1>8. Waiting' /\ Behind' /\ NoGapInSession' /\ AtMostOncePerConnection'
  BY <1>1 DEF Delivery, Waiting, Behind, NoGapInSession, AtMostOncePerConnection
<1> QED
  BY <1>3, <1>7, <1>8 DEF Delivery

LEMMA ReplayKeepsDelivery ==
  ASSUME Delivery, TypeOK', Replay
  PROVE  Delivery'
<1>0. TypeOK /\ Replaying /\ AtMostOncePerConnection /\ Paced
  BY DEF Delivery
<1>1. /\ phase = "replay" /\ phase' = "replay" /\ toSend # {}
      /\ UNCHANGED <<rxNext, start>> /\ UNCHANGED forwarderVars
  BY DEF Replay, link
<1>2. PICK n : /\ n \in toSend /\ \A k \in toSend : n =< k
               /\ toSend' = toSend \ {n} /\ lastSent' = n
               /\ offered' = offered \cup {n}
               /\ repeated' = repeated \cup ({n} \cap offered)
  <2>1. Min(toSend) \in toSend /\ \A k \in toSend : Min(toSend) =< k
    BY <1>0, <1>1, Numbers, MinIsLeast
  <2> QED
    BY <2>1 DEF Replay
<1>3. HistoryIsWindow' /\ ServerSeqno' = ServerSeqno /\ Paced'
  BY <1>0, <1>1, SessionStepBase DEF Paced
<1>4. PICK top \in Nat : ReplayUpTo(top)
  BY <1>0, <1>1 DEF Replaying
<1>5. /\ n \in Nat /\ n > lastSent /\ lastSent \in Nat /\ start \in Nat
      /\ offered \in SUBSET Nat /\ toSend \in SUBSET Nat /\ n =< top
  BY <1>0, <1>2, <1>4, Numbers DEF ReplayUpTo
<1>6. ReplayUpTo(top)'
  <2>1. offered' \cup toSend' = offered \cup toSend
    BY <1>2
  <2>2. \A k \in offered' : k =< lastSent'
    BY <1>2, <1>4, <1>5 DEF ReplayUpTo
  <2>3. \A k \in toSend' : k > lastSent'
    BY <1>2, <1>5
  <2> QED
    BY <1>1, <1>2, <1>3, <1>4, <1>5, <2>1, <2>2, <2>3 DEF ReplayUpTo
<1>7. Replaying'
  BY <1>6 DEF Replaying
<1>8. AtMostOncePerConnection'
  <2>1. n \notin offered
    BY <1>4, <1>5 DEF ReplayUpTo
  <2> QED
    BY <1>0, <1>2, <2>1 DEF AtMostOncePerConnection
<1>9. Waiting' /\ Behind' /\ NoGapInSession'
  BY <1>1 DEF Waiting, Behind, NoGapInSession
<1> QED
  BY <1>3, <1>7, <1>8, <1>9 DEF Delivery

(* When the replay is done the receiver continues inside it or right after *)
(* it: this is where a session that subscribed too late would have a gap.  *)
LEMMA ReplayDoneKeepsDelivery ==
  ASSUME Delivery, TypeOK', ReplayDone
  PROVE  Delivery'
<1>0. TypeOK /\ Replaying /\ AtMostOncePerConnection /\ Paced
  BY DEF Delivery
<1>1. /\ phase = "replay" /\ phase' = "live" /\ toSend = {}
      /\ UNCHANGED <<rxNext, lastSent, start, offered, repeated, lagged>>
      /\ UNCHANGED forwarderVars
  BY DEF ReplayDone, position, ledger
<1>2. HistoryIsWindow' /\ ServerSeqno' = ServerSeqno /\ Paced'
  BY <1>0, <1>1, SessionStepBase DEF Paced
<1>3. PICK top \in Nat : ReplayUpTo(top)
  BY <1>0, <1>1 DEF Replaying
<1>4. /\ ServerSeqno \in Nat /\ start \in Nat /\ rxNext \in Nat /\ lastSent \in Nat
  BY <1>0, Numbers
<1>5. NoGapInSession'
  <2>1. offered = (start + 1)..top /\ rxNext =< top + 1 /\ lastSent =< top
    BY <1>1, <1>3 DEF ReplayUpTo
  <2>2. ASSUME NEW n \in 1..ServerSeqno, n > start, n < rxNext \/ n =< lastSent
        PROVE  n \in offered
    BY <1>4, <2>1, <2>2
  <2> QED
    BY <1>1, <1>2, <2>2 DEF NoGapInSession
<1>6. Behind'
  BY <1>1, <1>3 DEF Behind, ReplayUpTo
<1>7. Waiting' /\ Replaying' /\ AtMostOncePerConnection'
  BY <1>0, <1>1 DEF Waiting, Replaying, AtMostOncePerConnection
<1> QED
  BY <1>2, <1>5, <1>6, <1>7 DEF Delivery

LEMMA MarkKeepsDelivery ==
  ASSUME Delivery, TypeOK', MarkSnapshot
  PROVE  Delivery'
<1>0. TypeOK /\ Waiting /\ AtMostOncePerConnection /\ Paced
  BY DEF Delivery
<1>1. /\ phase = "mark" /\ phase' = "live" /\ start' = ServerSeqno
      /\ lastSent' = ServerSeqno
      /\ UNCHANGED <<rxNext, offered, repeated>> /\ UNCHANGED forwarderVars
  BY DEF MarkSnapshot
<1>2. HistoryIsWindow' /\ ServerSeqno' = ServerSeqno /\ Paced'
  BY <1>0, <1>1, SessionStepBase DEF Paced
<1>3. NoGapInSession'
  <2>1. \A n \in 1..ServerSeqno : ~(n > ServerSeqno)
    BY <1>0, Numbers
  <2> QED
    BY <1>1, <1>2, <2>1 DEF NoGapInSession
<1>4. Waiting' /\ Replaying' /\ Behind' /\ AtMostOncePerConnection'
  BY <1>0, <1>1 DEF Waiting, Replaying, Behind, AtMostOncePerConnection
<1> QED
  BY <1>2, <1>3, <1>4 DEF Delivery

LEMMA HandshakeKeepsDelivery ==
  ASSUME Delivery, TypeOK', Handshake
  PROVE  Delivery'
<1>1. CASE DecideSnapshot \/ BuildSnapshot \/ StampSnapshot
  <2>1. /\ phase \in WaitingPhases /\ phase' \in WaitingPhases
        /\ UNCHANGED <<rxNext, offered, toSend, lastSent, repeated>>
        /\ UNCHANGED forwarderVars
    BY <1>1 DEF DecideSnapshot, BuildSnapshot, StampSnapshot, WaitingPhases,
                position, ledger
  <2>2. rxNext' =< sent + 1
    BY <2>1 DEF Delivery, Paced
  <2> QED
    BY <2>1, <2>2, WaitingStep
<1> QED
  BY <1>1, MarkKeepsDelivery, DecideResumeKeepsDelivery, ReplayKeepsDelivery,
     ReplayDoneKeepsDelivery DEF Handshake
----------------------------------------------------------------------------
(* The live loop. *)

LEMMA RecvKeepsDelivery ==
  ASSUME Delivery, TypeOK', Recv
  PROVE  Delivery'
<1>0. TypeOK /\ Behind /\ AtMostOncePerConnection /\ Paced /\ NoGapInSession
  BY DEF Delivery
<1>1. /\ phase = "live" /\ phase' = "live" /\ rxNext =< sent
      /\ rxNext' = sent + 1
      /\ offered' = offered \cup Fresh
      /\ repeated' = repeated \cup (Fresh \cap offered)
      /\ UNCHANGED <<lastSent, start, lagged>> /\ UNCHANGED forwarderVars
  BY DEF Recv, link
<1>2. /\ ServerSeqno \in Nat /\ sent \in Nat /\ rxNext \in Nat
      /\ lastSent \in Nat /\ start \in Nat /\ offered \in SUBSET Nat
      /\ rxNext >= 1
  BY <1>0, Numbers
<1>3. HistoryIsWindow' /\ ServerSeqno' = ServerSeqno /\ Paced'
  <2>1. rxNext' =< sent + 1
    BY <1>1, <1>2
  <2> QED
    BY <1>1, <2>1, SessionStepBase
<1>4. \A n : n \in Fresh <=> n \in rxNext..sent /\ n > lastSent
  BY DEF Fresh
<1>5. AtMostOncePerConnection'
  <2>1. ASSUME NEW n \in Fresh, n \in offered PROVE FALSE
    <3>1. n =< lastSent \/ n < rxNext
      BY <1>0, <1>1, <2>1 DEF Behind
    <3> QED
      BY <1>2, <1>4, <2>1, <3>1
  <2> QED
    BY <1>0, <1>1, <2>1 DEF AtMostOncePerConnection
<1>6. Behind'
  <2>1. ASSUME NEW n \in offered' PROVE n =< lastSent' \/ n < rxNext'
    <3>1. CASE n \in offered
      <4>1. n =< lastSent \/ n < rxNext
        BY <1>0, <1>1, <3>1 DEF Behind
      <4> QED
        BY <1>1, <1>2, <3>1, <4>1
    <3>2. CASE n \in Fresh
      <4>1. n \in rxNext..sent
        BY <1>4, <3>2
      <4> QED
        BY <1>1, <1>2, <4>1
    <3> QED
      BY <1>1, <2>1, <3>1, <3>2
  <2> QED
    BY <2>1 DEF Behind
<1>7. NoGapInSession'
  <2>1. ASSUME ~lagged, NEW n \in 1..ServerSeqno, n > start,
               n < sent + 1 \/ n =< lastSent
        PROVE  n \in offered \cup Fresh
    <3>1. CASE n < rxNext \/ n =< lastSent
      BY <1>0, <1>1, <2>1, <3>1 DEF NoGapInSession
    <3>2. CASE ~(n < rxNext \/ n =< lastSent)
      BY <1>2, <1>4, <2>1, <3>2
    <3> QED
      BY <3>1, <3>2
  <2> QED
    BY <1>1, <1>3, <2>1 DEF NoGapInSession
<1>8. Waiting' /\ Replaying'
  BY <1>1 DEF Waiting, Replaying
<1> QED
  BY <1>3, <1>5, <1>6, <1>7, <1>8 DEF Delivery

LEMMA LaggedKeepsDelivery ==
  ASSUME Delivery, TypeOK', RecvLagged
  PROVE  Delivery'
<1>0. TypeOK /\ Behind /\ AtMostOncePerConnection /\ Paced
  BY DEF Delivery
<1>1. /\ phase = "live" /\ phase' = "live" /\ lagged' = TRUE
      /\ sent - rxNext >= BroadcastCap /\ rxNext' = sent - BroadcastCap + 1
      /\ UNCHANGED <<lastSent, offered, repeated>> /\ UNCHANGED forwarderVars
  BY DEF RecvLagged, link
<1>2. /\ sent \in Nat /\ rxNext \in Nat /\ lastSent \in Nat
      /\ offered \in SUBSET Nat /\ BroadcastCap \in Nat /\ BroadcastCap > 0
  BY <1>0, Numbers, SessionAssumption
<1>3. rxNext' =< sent + 1 /\ rxNext' >= rxNext
  BY <1>1, <1>2
<1>4. HistoryIsWindow' /\ Paced'
  BY <1>1, <1>3, SessionStepBase
<1>5. Behind'
  <2>1. ASSUME NEW n \in offered PROVE n =< lastSent \/ n < rxNext'
    <3>1. n =< lastSent \/ n < rxNext
      BY <1>0, <1>1, <2>1 DEF Behind
    <3> QED
      BY <1>1, <1>2, <2>1, <3>1
  <2> QED
    BY <1>1, <2>1 DEF Behind
<1>6. Waiting' /\ Replaying' /\ NoGapInSession' /\ AtMostOncePerConnection'
  BY <1>0, <1>1 DEF Waiting, Replaying, NoGapInSession, AtMostOncePerConnection
<1> QED
  BY <1>4, <1>5, <1>6 DEF Delivery

LEMMA SessionKeepsDelivery ==
  ASSUME Delivery, TypeOK', Live \/ Break \/ SendOrDrop \/ Deliver
  PROVE  Delivery'
<1>1. CASE SendMetric
  BY <1>1, QuietStep DEF SendMetric, link
<1>2. CASE Break
  BY <1>2, QuietStep DEF Break, position
<1>3. CASE Enqueue
  BY <1>3, QuietStep DEF Enqueue, link, position
<1>4. CASE Drop
  BY <1>4, QuietStep DEF Drop, Dropping
<1>5. CASE DropAtLimit
  <2>1. \/ phase' = "aborted"
        \/ phase = "live" /\ phase' \in {"live", "closing"}
    BY <1>5 DEF DropAtLimit
  <2> QED
    BY <1>5, <2>1, QuietStep DEF DropAtLimit, Dropping
<1>6. CASE Deliver
  BY <1>6, QuietStep DEF Deliver, link, position
<1> QED
  BY <1>1, <1>2, <1>3, <1>4, <1>5, <1>6, RecvKeepsDelivery, LaggedKeepsDelivery
     DEF Live, SendOrDrop
----------------------------------------------------------------------------
(* Connections and restarts. *)

LEMMA ConnectKeepsDelivery ==
  ASSUME Delivery, TypeOK', Connect
  PROVE  Delivery'
<1>1. /\ phase = "closed" /\ phase' = "subscribed" /\ rxNext' = sent + 1
      /\ UNCHANGED <<offered, toSend, lastSent, repeated>>
      /\ UNCHANGED forwarderVars
  BY DEF Connect, ledger
<1>2. rxNext' =< sent + 1
  BY <1>1, Numbers DEF Delivery
<1> QED
  BY <1>1, <1>2, WaitingStep DEF WaitingPhases

LEMMA OneIsBehind ==
  ASSUME NEW a \in Nat
  PROVE  1 =< a + 1
OBVIOUS

LEMMA EndKeepsDelivery ==
  ASSUME EndSession, TypeOK', HistoryIsWindow', sent' \in Nat,
         ServerSeqno' = IF step' = "assign" THEN sent' ELSE sent' + 1
  PROVE  Delivery'
<1>1. Paced'
  <2>1. 1 =< sent' + 1
    BY OneIsBehind
  <2>2. rxNext' =< sent' + 1
    BY <2>1 DEF EndSession
  <2> QED
    BY <2>2 DEF Paced
<1>2. Waiting' /\ Replaying' /\ Behind' /\ NoGapInSession'
      /\ AtMostOncePerConnection'
  BY DEF EndSession, Waiting, Replaying, Behind, NoGapInSession,
         AtMostOncePerConnection
<1> QED
  BY <1>1, <1>2 DEF Delivery

LEMMA EndingKeepsDelivery ==
  ASSUME Delivery, TypeOK', Close \/ SocketLost \/ Restart
  PROVE  Delivery'
<1>1. CASE Close \/ SocketLost
  <2>1. EndSession /\ UNCHANGED forwarderVars
    BY <1>1 DEF Close, SocketLost
  <2>2. /\ HistoryIsWindow' /\ sent' \in Nat
        /\ ServerSeqno' = IF step' = "assign" THEN sent' ELSE sent' + 1
    BY <2>1, SessionStepBase, Numbers DEF Delivery, Paced
  <2> QED
    BY <2>1, <2>2, EndKeepsDelivery
<1>2. CASE Restart
  <2>1. /\ EndSession /\ items' = <<>> /\ history' = {} /\ sent' = 0
        /\ step' = "assign"
    BY <1>2 DEF Restart
  <2>2. ServerSeqno' = 0
    BY <2>1 DEF ServerSeqno
  <2>3. HistoryIsWindow'
    BY <2>1, <2>2 DEF HistoryIsWindow
  <2> QED
    BY <2>1, <2>2, <2>3, EndKeepsDelivery
<1> QED
  BY <1>1, <1>2

LEMMA InitDelivery == Init => Delivery
<1> SUFFICES ASSUME Init PROVE Delivery
  OBVIOUS
<1>1. ServerSeqno = 0
  BY DEF Init, BroadcastInit, ServerSeqno
<1>2. TypeOK
  BY InitTypeOK
<1>3. Paced /\ HistoryIsWindow
  BY <1>1 DEF Init, BroadcastInit, Paced, HistoryIsWindow
<1>4. Waiting /\ Replaying /\ Behind /\ NoGapInSession /\ AtMostOncePerConnection
  BY DEF Init, Waiting, Replaying, Behind, NoGapInSession, AtMostOncePerConnection
<1> QED
  BY <1>2, <1>3, <1>4 DEF Delivery

LEMMA NextDelivery == Delivery /\ [Next]_vars => Delivery'
<1> SUFFICES ASSUME Delivery, [Next]_vars PROVE Delivery'
  OBVIOUS
<1>0. TypeOK'
  BY NextTypeOK DEF Delivery
<1>1. CASE UNCHANGED vars
  <2>1. UNCHANGED forwarderVars /\ UNCHANGED <<phase, toSend, rxNext, lastSent, ledger>>
    BY <1>1 DEF vars, sessionVars, link, position
  <2> QED
    BY <1>0, <2>1, QuietStep
<1> QED
  BY <1>0, <1>1, PublishKeepsDelivery, ConnectKeepsDelivery,
     HandshakeKeepsDelivery, SessionKeepsDelivery, EndingKeepsDelivery DEF Next

LEMMA AlwaysDelivery == Spec => []Delivery
<1> QED
  BY InitDelivery, NextDelivery, PTL DEF Spec
----------------------------------------------------------------------------
(* What a resume reads is always the gap-free window of the newest items,  *)
(* for every size of event_history.                                        *)
THEOREM HistoryHasNoHole == Spec => []HistoryIsWindow
<1>1. Delivery => HistoryIsWindow
  BY DEF Delivery
<1> QED
  BY <1>1, AlwaysDelivery, PTL

(* No item is handled twice on one connection: once a receiver is open     *)
(* before the history is read, last_sent_seqno is enough to tell apart     *)
(* what the replay brought from what the channel brings.                   *)
THEOREM NothingTwice == Spec => []AtMostOncePerConnection
<1>1. Delivery => AtMostOncePerConnection
  BY DEF Delivery
<1> QED
  BY <1>1, AlwaysDelivery, PTL

(* No item is missed between replay or snapshot and the live loop, unless  *)
(* the receiver was overrun.                                               *)
THEOREM SeamHasNoGap == Spec => []NoGapInSession
<1>1. Delivery => NoGapInSession
  BY DEF Delivery
<1> QED
  BY <1>1, AlwaysDelivery, PTL
----------------------------------------------------------------------------
(* An item that has left the handler: it has reached the client, is queued *)
(* or is about to be.                                                      *)
Handed(n) == \/ n \in seen
             \/ \E m \in outbox : n \in m.items
             \/ \E i \in DOMAIN sendQ : n \in sendQ[i].items

(* send_or_drop is given one message at a time. *)
OneAtATime == \A m1, m2 \in outbox : m1 = m2

LEMMA UnderwayIs ==
  ASSUME NEW n
  PROVE  n \in seen \cup Underway <=> n \in toSend \/ Handed(n)
BY DEF Underway, Handed

(* What the queue holds after a message went in, behind a warning or not,  *)
(* or came out.                                                            *)
LEMMA EnqueueQueue ==
  ASSUME QueueTypeOK, OneAtATime, Enqueue
  PROVE  \E m \in outbox :
           /\ outbox = {m} /\ Len(sendQ') \in Nat /\ Len(sendQ) < Len(sendQ')
           /\ DOMAIN sendQ' = 1..Len(sendQ') /\ sendQ'[Len(sendQ')] = m
           /\ \A i \in 1..Len(sendQ) : sendQ'[i] = sendQ[i]
           /\ \A i \in 1..Len(sendQ') :
                \/ i =< Len(sendQ) \/ i = Len(sendQ')
                \/ sendQ'[i].tag = 0 /\ sendQ'[i].items = {}
<1>1. PICK m \in outbox : sendQ' = Append(Queued, m)
  BY DEF Enqueue
<1>2. outbox = {m} /\ m \in Messages
  BY DEF OneAtATime, QueueTypeOK
<1>3. sendQ \in Seq(Messages) /\ Queued \in Seq(Messages)
  BY QueuedFits DEF QueueTypeOK
<1>4. /\ Len(sendQ) =< Len(Queued) /\ Len(Queued) \in Nat /\ Len(sendQ) \in Nat
      /\ \A i \in 1..Len(sendQ) : Queued[i] = sendQ[i]
      /\ \A i \in 1..Len(Queued) :
           i =< Len(sendQ) \/ (Queued[i].tag = 0 /\ Queued[i].items = {})
  <2>1. CASE Queued = sendQ
    BY <1>3, <2>1
  <2>2. CASE Queued = Append(sendQ, Control("Warning"))
    <3> DEFINE w == Control("Warning")
    <3>1. w \in Messages /\ w.tag = 0 /\ w.items = {}
      BY ControlIsMessage DEF MessageKinds, Control, Message
    <3> HIDE DEF w
    <3>2. /\ Len(Queued) = Len(sendQ) + 1 /\ Queued[Len(sendQ) + 1] = w
          /\ \A i \in 1..Len(sendQ) : Queued[i] = sendQ[i]
      BY <1>3, <2>2, <3>1 DEF w
    <3>3. Len(sendQ) \in Nat
      BY <1>3
    <3> QED
      BY <3>1, <3>2, <3>3
  <2> QED
    BY <2>1, <2>2 DEF Queued
<1>5. /\ Len(sendQ') = Len(Queued) + 1 /\ sendQ'[Len(Queued) + 1] = m
      /\ DOMAIN sendQ' = 1..Len(sendQ')
      /\ \A i \in 1..Len(Queued) : sendQ'[i] = Queued[i]
  BY <1>1, <1>2, <1>3
<1>6. \A i \in 1..Len(sendQ') :
         \/ i =< Len(sendQ) \/ i = Len(sendQ')
         \/ sendQ'[i].tag = 0 /\ sendQ'[i].items = {}
  BY <1>4, <1>5
<1>7. \A i \in 1..Len(sendQ) : sendQ'[i] = sendQ[i]
  BY <1>4, <1>5
<1> QED
  BY <1>2, <1>4, <1>5, <1>6, <1>7

LEMMA DeliverQueue ==
  ASSUME QueueTypeOK, Deliver
  PROVE  /\ Len(sendQ) \in Nat /\ Len(sendQ') \in Nat /\ 1 \in DOMAIN sendQ
         /\ Len(sendQ') = Len(sendQ) - 1
         /\ DOMAIN sendQ = 1..Len(sendQ) /\ DOMAIN sendQ' = 1..Len(sendQ')
         /\ \A i \in 1..Len(sendQ') : sendQ'[i] = sendQ[i + 1]
         /\ seen' = seen \cup sendQ[1].items
         /\ IF sendQ[1].tag > 0 THEN cursor' = sendQ[1].tag
                                ELSE UNCHANGED <<cursor, stale>>
<1>1. sendQ \in Seq(Messages) /\ sendQ # <<>> /\ sendQ' = Tail(sendQ)
  BY DEF Deliver, QueueTypeOK
<1>2. Head(sendQ) = sendQ[1] /\ 1 \in DOMAIN sendQ
  BY <1>1
<1>3. /\ seen' = seen \cup sendQ[1].items
      /\ IF sendQ[1].tag > 0 THEN cursor' = sendQ[1].tag
                             ELSE UNCHANGED <<cursor, stale>>
  BY <1>2 DEF Deliver
<1>4. /\ Len(sendQ) \in Nat /\ Len(sendQ') \in Nat
      /\ Len(sendQ') = Len(sendQ) - 1
      /\ DOMAIN sendQ = 1..Len(sendQ) /\ DOMAIN sendQ' = 1..Len(sendQ')
      /\ \A i \in 1..Len(sendQ') : sendQ'[i] = sendQ[i + 1]
  BY <1>1
<1> QED
  BY <1>2, <1>3, <1>4

(* Neither step loses an item. *)
LEMMA HandedStays ==
  ASSUME QueueTypeOK, OneAtATime, NEW n, Handed(n),
         Enqueue \/ (Deliver /\ outbox' = outbox)
  PROVE  Handed(n)'
<1>0. DOMAIN sendQ = 1..Len(sendQ) /\ Len(sendQ) \in Nat
  BY DEF QueueTypeOK
<1>1. CASE Enqueue
  <2>1. PICK m \in outbox :
           /\ outbox = {m} /\ Len(sendQ') \in Nat /\ Len(sendQ) < Len(sendQ')
           /\ DOMAIN sendQ' = 1..Len(sendQ') /\ sendQ'[Len(sendQ')] = m
           /\ \A i \in 1..Len(sendQ) : sendQ'[i] = sendQ[i]
    BY <1>1, EnqueueQueue
  <2>2. seen' = seen /\ outbox' = {}
    BY <1>1 DEF Enqueue, client
  <2>3. Len(sendQ') \in DOMAIN sendQ' /\ 1..Len(sendQ) \subseteq DOMAIN sendQ'
    BY <1>0, <2>1
  <2> QED
    BY <1>0, <2>1, <2>2, <2>3 DEF Handed
<1>2. CASE Deliver /\ outbox' = outbox
  <2>1. CASE n \in seen \/ \E m \in outbox : n \in m.items
    BY <1>2, <2>1, DeliverQueue DEF Handed
  <2>2. CASE \E i \in DOMAIN sendQ : n \in sendQ[i].items
    <3>1. PICK i \in DOMAIN sendQ : n \in sendQ[i].items
      BY <2>2
    <3>2. CASE i = 1
      BY <1>2, <3>1, <3>2, DeliverQueue DEF Handed
    <3>3. CASE i # 1
      <4>1. i - 1 \in DOMAIN sendQ' /\ sendQ'[i - 1] = sendQ[i]
        <5>1. /\ Len(sendQ') = Len(sendQ) - 1 /\ DOMAIN sendQ' = 1..Len(sendQ')
              /\ \A k \in 1..Len(sendQ') : sendQ'[k] = sendQ[k + 1]
          BY <1>2, DeliverQueue
        <5>2. i - 1 \in 1..Len(sendQ') /\ (i - 1) + 1 = i
          BY <1>0, <3>1, <3>3, <5>1
        <5> QED
          BY <5>1, <5>2
      <4> QED
        BY <3>1, <4>1 DEF Handed
    <3> QED
      BY <3>2, <3>3
  <2> QED
    BY <2>1, <2>2 DEF Handed
<1> QED
  BY <1>1, <1>2

(* A message that reaches an empty outbox adds to what is underway. *)
LEMMA HandedGrows ==
  ASSUME outbox = {}, UNCHANGED <<seen, sendQ>>, NEW n, Handed(n)
  PROVE  Handed(n)'
BY DEF Handed
----------------------------------------------------------------------------
(* What is lost is counted. *)

LEMMA OneMessage ==
  ASSUME OneAtATime, [Next]_vars
  PROVE  OneAtATime'
<1>1. \/ outbox' = outbox \/ outbox' = {} \/ \E m : outbox' = {m}
  <2>1. CASE UNCHANGED vars \/ (Publish /\ UNCHANGED sessionVars)
    BY <2>1 DEF vars, sessionVars
  <2>2. CASE Handshake
    BY <2>2 DEF Handshake, DecideSnapshot, BuildSnapshot, StampSnapshot,
                MarkSnapshot, DecideResume, Replay, ReplayDone
  <2>3. CASE Live
    BY <2>3 DEF Live, Recv, SendMetric, RecvLagged
  <2>4. CASE SendOrDrop
    BY <2>4 DEF SendOrDrop, Enqueue, Drop, DropAtLimit, Dropping
  <2>5. CASE Connect \/ Deliver \/ Break \/ Close \/ SocketLost \/ Restart
    BY <2>5 DEF Connect, Deliver, Break, Close, SocketLost, Restart, EndSession
  <2> QED
    BY <2>1, <2>2, <2>3, <2>4, <2>5 DEF Next
<1> QED
  BY <1>1 DEF OneAtATime

Held == phase # "closed" /\ drops = 0 =>
          \A n \in offered : items[n] \in Wanted => n \in toSend \/ Handed(n)

LEMMA HeldIsLossIsCounted == Held <=> LossIsCounted
BY UnderwayIs DEF Held, LossIsCounted

LEMMA HandshakeKeepsHeld ==
  ASSUME Delivery, Held, Handshake
  PROVE  Held'
<1>1. phase # "closed" /\ UNCHANGED <<items, drops, seen, sendQ>>
  BY DEF Handshake, DecideSnapshot, BuildSnapshot, StampSnapshot,
         MarkSnapshot, DecideResume, Replay, ReplayDone, forwarderVars,
         pressure, client
<1>2. CASE DecideSnapshot \/ BuildSnapshot \/ StampSnapshot \/ MarkSnapshot
  <2>1. phase \in WaitingPhases /\ offered' = offered
    BY <1>2 DEF DecideSnapshot, BuildSnapshot, StampSnapshot, MarkSnapshot,
                WaitingPhases, ledger
  <2> QED
    BY <2>1 DEF Delivery, Waiting, WaitingPhases, Held
<1>3. CASE DecideResume
  <2>1. phase \in WaitingPhases /\ offered' = offered
    BY <1>3 DEF DecideResume, WaitingPhases
  <2> QED
    BY <2>1 DEF Delivery, Waiting, WaitingPhases, Held
<1>4. CASE Replay
  <2>1. PICK n : /\ outbox' = {Message("Replay", n, {n})}
                 /\ toSend' = toSend \ {n} /\ offered' = offered \cup {n}
    BY <1>4 DEF Replay
  <2>2. Handed(n)'
    BY <2>1 DEF Handed, Message
  <2>3. outbox = {}
    BY <1>4 DEF Replay
  <2>4. \A k : Handed(k) => Handed(k)'
    BY <1>1, <2>3, HandedGrows
  <2> QED
    BY <1>1, <2>1, <2>2, <2>4 DEF Held
<1>5. CASE ReplayDone
  <2>1. UNCHANGED <<offered, toSend, outbox>>
    BY <1>5 DEF ReplayDone, position, ledger
  <2> QED
    BY <1>1, <2>1 DEF Held, Handed
<1> QED
  BY <1>2, <1>3, <1>4, <1>5 DEF Handshake

(* The wanted items of a received batch: its events go out in one message, *)
(* its metrics one after the other.                                        *)
LEMMA RecvKeepsHeld ==
  ASSUME Delivery, Held, Recv
  PROVE  Held'
<1>0. TypeOK
  BY DEF Delivery
<1>1. /\ phase = "live" /\ outbox = {} /\ toSend = {}
      /\ offered' = offered \cup Fresh
      /\ toSend' = OfKind("metric", Fresh)
      /\ UNCHANGED <<items, drops, seen, sendQ>>
  BY DEF Recv, forwarderVars, pressure, client
<1>2. ASSUME NEW n \in OfKind("event", Fresh) PROVE Handed(n)'
  <2>1. \E m \in outbox' : m.items = OfKind("event", Fresh)
    BY <1>2 DEF Recv, Message
  <2> QED
    BY <1>2, <2>1 DEF Handed
<1>3. ASSUME NEW n \in Fresh, items[n] \in Wanted
      PROVE  n \in toSend' \/ Handed(n)'
  <2>1. items[n] \in {"event", "metric"}
    BY <1>0, <1>3, FreshNumbered
       DEF TypeOK, BroadcastTypeOK, ServerSeqno, Kinds
  <2>2. n \in OfKind("event", Fresh) \/ n \in OfKind("metric", Fresh)
    BY <1>3, <2>1 DEF OfKind
  <2> QED
    BY <1>1, <1>2, <2>2
<1>4. ASSUME NEW n \in offered, items[n] \in Wanted, drops = 0
      PROVE  Handed(n)'
  BY <1>1, <1>4, HandedGrows DEF Held
<1> QED
  BY <1>1, <1>3, <1>4 DEF Held

LEMMA SessionKeepsHeld ==
  ASSUME Delivery, OneAtATime, Held, Live \/ Break \/ SendOrDrop \/ Deliver
  PROVE  Held'
<1>0. QueueTypeOK
  BY DEF Delivery, TypeOK
<1>1. CASE Recv
  BY <1>1, RecvKeepsHeld
<1>2. CASE SendMetric
  <2>1. /\ phase = "live" /\ outbox = {}
        /\ UNCHANGED <<offered, items, drops, seen, sendQ>>
    BY <1>2 DEF SendMetric, forwarderVars, pressure, client, ledger
  <2>2. PICK n : /\ outbox' = {Message("Metric", n, {n})}
                 /\ toSend' = toSend \ {n}
    BY <1>2 DEF SendMetric
  <2>3. Handed(n)' /\ \A k : Handed(k) => Handed(k)'
    BY <2>1, <2>2, HandedGrows DEF Handed, Message
  <2> QED
    BY <2>1, <2>2, <2>3 DEF Held
<1>3. CASE RecvLagged \/ Break
  <2>1. /\ phase # "closed"
        /\ UNCHANGED <<offered, toSend, outbox, items, drops, seen, sendQ>>
    BY <1>3 DEF RecvLagged, Break, forwarderVars, pressure, client, ledger,
                position
  <2> QED
    BY <2>1 DEF Held, Handed
<1>4. CASE Drop \/ DropAtLimit
  <2>1. drops' = drops + 1 /\ drops \in Nat
    BY <1>4 DEF Drop, DropAtLimit, Dropping, Delivery, TypeOK, QueueTypeOK
  <2> QED
    BY <2>1 DEF Held
<1>5. CASE Enqueue
  <2>1. UNCHANGED <<phase, offered, toSend, items, drops>>
    BY <1>5 DEF Enqueue, forwarderVars, link, position, ledger
  <2>2. \A n : Handed(n) => Handed(n)'
    BY <1>0, <1>5, HandedStays
  <2> QED
    BY <2>1, <2>2 DEF Held
<1>6. CASE Deliver
  <2>1. UNCHANGED <<phase, offered, toSend, outbox, items, drops>>
    BY <1>6 DEF Deliver, forwarderVars, link, position, ledger
  <2>2. \A n : Handed(n) => Handed(n)'
    BY <1>0, <1>6, <2>1, HandedStays
  <2> QED
    BY <2>1, <2>2 DEF Held
<1> QED
  BY <1>1, <1>2, <1>3, <1>4, <1>5, <1>6 DEF Live, SendOrDrop

LEMMA NextHeld ==
  ASSUME Delivery, OneAtATime, Held, [Next]_vars
  PROVE  Held'
<1>1. CASE UNCHANGED vars
  <2>1. UNCHANGED <<phase, drops, offered, items, toSend, seen, outbox, sendQ>>
    BY <1>1 DEF vars, sessionVars, forwarderVars, link, position, pressure,
                ledger, client
  <2> QED
    BY <2>1 DEF Held, Handed
<1>2. CASE Publish /\ UNCHANGED sessionVars
  <2>1. UNCHANGED <<phase, drops, offered, toSend, seen, outbox, sendQ>>
    BY <1>2 DEF sessionVars, link, position, pressure, ledger, client
  <2>2. \A n \in offered : items'[n] = items[n]
    BY <1>2, PublishStep DEF Delivery, TypeOK, HandlerTypeOK
  <2> QED
    BY <2>1, <2>2 DEF Held, Handed
<1>3. CASE Connect
  <2>1. phase = "closed" /\ offered' = offered
    BY <1>3 DEF Connect, ledger
  <2> QED
    BY <2>1 DEF Delivery, Waiting, Held
<1>4. CASE Close \/ SocketLost \/ Restart
  BY <1>4 DEF Close, SocketLost, Restart, EndSession, Held
<1> QED
  BY <1>1, <1>2, <1>3, <1>4, HandshakeKeepsHeld, SessionKeepsHeld DEF Next

(* What send_or_drop did not count as dropped is not lost on this side of  *)
(* the socket: everything wanted that the handler took, from the history   *)
(* or from the channel, has reached the client or is on its way, for every *)
(* buffer size and also while warnings take places of the queue.           *)
THEOREM DropsAreCounted == Spec => []LossIsCounted
<1> DEFINE Counted == Delivery /\ OneAtATime /\ Held
<1>1. Init => Counted
  BY InitDelivery DEF Init, OneAtATime, Held
<1>2. Counted /\ [Next]_vars => Counted'
  BY NextDelivery, OneMessage, NextHeld
<1>3. Counted => LossIsCounted
  BY HeldIsLossIsCounted
<1> HIDE DEF Counted
<1> QED
  BY <1>1, <1>2, <1>3, PTL DEF Spec
----------------------------------------------------------------------------
(* The cursor is safe for events. *)

Events == {n \in 1..ServerSeqno : items[n] = "event"}

(* No number in use is ahead of the counter it comes from. *)
Issued == /\ base =< ServerSeqno /\ start =< ServerSeqno
          /\ ~stale => cursor =< ServerSeqno
          /\ \A m \in outbox : m.tag =< ServerSeqno
          /\ \A i \in DOMAIN sendQ : sendQ[i].tag =< ServerSeqno

(* Before a connection is accepted nothing is on its way, and before the   *)
(* resume mode is chosen nothing numbered.                                 *)
ClosedIsEmpty == phase = "closed" => outbox = {}
Unnumbered == phase \in {"closed", "subscribed"} =>
                /\ \A m \in outbox : m.tag = 0
                /\ \A i \in DOMAIN sendQ : sendQ[i].tag = 0

(* In the live loop only metrics wait for their own message. *)
MetricsWait == phase = "live" =>
                 \A n \in toSend : n < rxNext /\ items[n] = "metric"

(* The events handled have left the handler, and those before the start of *)
(* a session were received before it.                                      *)
EventsHanded == \A n \in offered \cap Events : Handed(n)
StartReached == phase \in {"replay", "live", "closing"} =>
                  \A n \in Events : n > base /\ n =< start => n \in seen

(* A number that reaches the client comes after the events it covers. *)
Covered(n, i) == n \in seen \/ \E j \in 1..i : n \in sendQ[j].items
QueueSafe == \A i \in DOMAIN sendQ : \A n \in Events :
               n > base /\ n =< sendQ[i].tag => Covered(n, i)
OutboxSafe == \A m \in outbox : \A n \in Events :
                n > base /\ n =< m.tag => Handed(n)
CursorSafe == ~stale => \A n \in Events : n > base /\ n =< cursor => n \in seen

(* Nothing was dropped and the receiver was not overrun. *)
Undisturbed == drops = 0 /\ ~lagged

(* The inductive invariant, as long as the session is undisturbed. *)
Tracked == /\ Delivery /\ OneAtATime
           /\ Issued /\ ClosedIsEmpty /\ Unnumbered /\ MetricsWait
           /\ EventsHanded /\ StartReached
           /\ QueueSafe /\ OutboxSafe /\ CursorSafe

LEMMA CursorSafeIs == CursorSafe <=> EventsNotLost
BY DEF CursorSafe, EventsNotLost, SeenUpToCursor, Events

LEMMA EventsNumbered ==
  ASSUME TypeOK
  PROVE  /\ \A n \in Events : n \in Nat /\ n > 0 /\ n =< ServerSeqno
         /\ base \in Nat /\ cursor \in Nat /\ ServerSeqno \in Nat
         /\ \A m \in outbox : m.tag \in Nat
         /\ \A i \in DOMAIN sendQ : sendQ[i].tag \in Nat
         /\ DOMAIN sendQ = 1..Len(sendQ) /\ Len(sendQ) \in Nat
<1>1. ServerSeqno \in Nat
  BY Numbers
<1>2. \A m \in outbox : m.tag \in Nat
  BY DEF TypeOK, QueueTypeOK, Messages
<1>3. \A i \in DOMAIN sendQ : sendQ[i].tag \in Nat
  <2>1. sendQ \in Seq(Messages)
    BY DEF TypeOK, QueueTypeOK
  <2>2. \A i \in DOMAIN sendQ : sendQ[i] \in Messages
    BY <2>1
  <2> QED
    BY <2>2 DEF Messages
<1>4. DOMAIN sendQ = 1..Len(sendQ) /\ Len(sendQ) \in Nat
  BY DEF TypeOK, QueueTypeOK
<1>5. \A n \in Events : n \in Nat /\ n > 0 /\ n =< ServerSeqno
  BY <1>1 DEF Events
<1> QED
  BY <1>1, <1>2, <1>3, <1>4, <1>5 DEF TypeOK, ClientTypeOK

LEMMA EventsStay ==
  ASSUME UNCHANGED items
  PROVE  Events' = Events /\ ServerSeqno' = ServerSeqno
BY DEF Events, ServerSeqno

(* The forwarder adds items after every number in use. *)
LEMMA PublishKeepsTracked ==
  ASSUME Tracked, Delivery', OneAtATime', Publish, UNCHANGED sessionVars
  PROVE  Tracked'
<1>0. TypeOK /\ TypeOK'
  BY DEF Tracked, Delivery
<1>1. /\ UNCHANGED <<phase, rxNext, toSend, outbox, sendQ, start, offered>>
      /\ UNCHANGED <<cursor, seen, stale, base>>
  BY DEF sessionVars, link, position, pressure, ledger, client
<1>2. /\ ServerSeqno \in Nat /\ ServerSeqno' \in Nat
      /\ ServerSeqno' >= ServerSeqno
      /\ \A n \in 1..ServerSeqno : items'[n] = items[n]
  BY <1>0, PublishStep, Numbers DEF TypeOK
<1>3. ASSUME NEW n \in Events', n =< ServerSeqno PROVE n \in Events
  <2>1. n \in 1..ServerSeqno
    BY <1>2, <1>3 DEF Events
  <2> QED
    BY <1>2, <1>3, <2>1 DEF Events
<1>4. Issued'
  <2>1. base \in Nat /\ start \in Nat /\ cursor \in Nat
    BY <1>0, Numbers, EventsNumbered
  <2>2. /\ base =< ServerSeqno' /\ start =< ServerSeqno'
        /\ ~stale => cursor =< ServerSeqno'
    BY <1>2, <2>1 DEF Tracked, Issued
  <2>3. \A m \in outbox : m.tag =< ServerSeqno'
    BY <1>0, <1>2, EventsNumbered DEF Tracked, Issued
  <2>4. \A i \in DOMAIN sendQ : sendQ[i].tag =< ServerSeqno'
    BY <1>0, <1>2, EventsNumbered DEF Tracked, Issued
  <2> QED
    BY <1>1, <2>2, <2>3, <2>4 DEF Issued
<1>5. Unnumbered' /\ ClosedIsEmpty'
  BY <1>1 DEF Tracked, Unnumbered, ClosedIsEmpty
<1>6. MetricsWait'
  <2>1. toSend \subseteq 1..ServerSeqno
    BY <1>0 DEF TypeOK, HandlerTypeOK
  <2> QED
    BY <1>1, <1>2, <2>1 DEF Tracked, MetricsWait
<1>7. \A n : Handed(n)' <=> Handed(n)
  BY <1>1 DEF Handed
<1>8. EventsHanded'
  <2>1. \A n \in offered : n =< ServerSeqno
    BY <1>0, <1>2 DEF TypeOK, HandlerTypeOK
  <2> QED
    BY <1>1, <1>3, <1>7, <2>1 DEF Tracked, EventsHanded
<1>9. StartReached'
  <2>1. ASSUME NEW n \in Events', n =< start PROVE n \in Events
    <3>1. n \in Nat /\ start \in Nat /\ start =< ServerSeqno
      BY <1>0, Numbers DEF Tracked, Issued, Events
    <3> QED
      BY <1>2, <1>3, <2>1, <3>1
  <2> QED
    BY <1>1, <2>1 DEF Tracked, StartReached
<1>10. QueueSafe'
  <2>1. ASSUME NEW i \in DOMAIN sendQ, NEW n \in Events', n =< sendQ[i].tag
        PROVE  n \in Events
    <3>1. n \in Nat /\ sendQ[i].tag \in Nat /\ sendQ[i].tag =< ServerSeqno
      BY <1>0, EventsNumbered DEF Tracked, Issued, Events
    <3> QED
      BY <1>2, <1>3, <2>1, <3>1
  <2>2. \A n, i : Covered(n, i)' <=> Covered(n, i)
    BY <1>1 DEF Covered
  <2> QED
    BY <1>1, <2>1, <2>2 DEF Tracked, QueueSafe
<1>11. OutboxSafe'
  <2>1. ASSUME NEW m \in outbox, NEW n \in Events', n =< m.tag
        PROVE  n \in Events
    <3>1. n \in Nat /\ m.tag \in Nat /\ m.tag =< ServerSeqno
      BY <1>0, EventsNumbered DEF Tracked, Issued, Events
    <3> QED
      BY <1>2, <1>3, <2>1, <3>1
  <2> QED
    BY <1>1, <1>7, <2>1 DEF Tracked, OutboxSafe
<1>12. CursorSafe'
  <2>1. ASSUME ~stale, NEW n \in Events', n =< cursor PROVE n \in Events
    <3>1. n \in Nat /\ cursor \in Nat /\ cursor =< ServerSeqno
      BY <1>0, <2>1, Numbers DEF Tracked, Issued, Events
    <3> QED
      BY <1>2, <1>3, <2>1, <3>1
  <2> QED
    BY <1>1, <2>1 DEF Tracked, CursorSafe
<1> QED
  BY <1>4, <1>5, <1>6, <1>8, <1>9, <1>10, <1>11, <1>12 DEF Tracked

(* A step of the handler that sends nothing numbered leaves the accounts   *)
(* of the client as they are.                                              *)
LEMMA ControlStep ==
  ASSUME Tracked, Delivery', OneAtATime',
         UNCHANGED <<items, sendQ, start, offered>>,
         UNCHANGED <<cursor, seen, stale, base>>,
         outbox' = outbox \/ (outbox = {} /\ \E k : outbox' = {Control(k)}),
         MetricsWait', StartReached',
         phase' # "closed",
         phase' = "subscribed" => phase \in {"closed", "subscribed"}
  PROVE  Tracked'
<1>0. TypeOK
  BY DEF Tracked, Delivery
<1>1. Events' = Events /\ ServerSeqno' = ServerSeqno
  BY EventsStay
<1>2. \A m \in outbox' : m \in outbox \/ m.tag = 0
  BY DEF Control, Message
<1>3. \A n : Handed(n) => Handed(n)'
  BY HandedGrows DEF Handed
<1>4. Issued'
  <2>1. \A m \in outbox' : m.tag =< ServerSeqno
    <3>1. 0 =< ServerSeqno
      BY <1>0, Numbers
    <3> QED
      BY <1>2, <3>1 DEF Tracked, Issued
  <2> QED
    BY <1>1, <2>1 DEF Tracked, Issued
<1>5. Unnumbered' /\ ClosedIsEmpty'
  BY <1>2 DEF Tracked, Unnumbered, ClosedIsEmpty
<1>6. EventsHanded'
  BY <1>1, <1>3 DEF Tracked, EventsHanded
<1>7. QueueSafe'
  BY <1>1 DEF Tracked, QueueSafe, Covered
<1>8. OutboxSafe'
  <2>1. ASSUME NEW m, m.tag = 0, NEW n \in Events PROVE ~(n =< m.tag)
    BY <1>0, <2>1, EventsNumbered
  <2> QED
    BY <1>1, <1>2, <1>3, <2>1 DEF Tracked, OutboxSafe
<1>9. CursorSafe'
  BY <1>1 DEF Tracked, CursorSafe
<1> QED
  BY <1>4, <1>5, <1>6, <1>7, <1>8, <1>9 DEF Tracked

LEMMA ControlStepsKeepTracked ==
  ASSUME Tracked, Delivery', OneAtATime',
         Connect \/ DecideSnapshot \/ BuildSnapshot \/ ReplayDone \/ Break
  PROVE  Tracked'
<1>1. /\ UNCHANGED <<items, sendQ, start, offered>>
      /\ UNCHANGED <<cursor, seen, stale, base>>
      /\ outbox' = outbox \/ (outbox = {} /\ \E k : outbox' = {Control(k)})
      /\ phase' # "closed"
      /\ phase' = "subscribed" => phase \in {"closed", "subscribed"}
  <2>1. CASE Connect
    <3>1. outbox' = {Control("Hello")} /\ phase = "closed" /\ phase' = "subscribed"
      BY <2>1 DEF Connect
    <3>2. outbox = {}
      BY <3>1 DEF Tracked, ClosedIsEmpty
    <3> QED
      BY <2>1, <3>1, <3>2 DEF Connect, forwarderVars, pressure, ledger, client
  <2>2. CASE DecideSnapshot
    BY <2>2 DEF DecideSnapshot, forwarderVars, pressure, ledger, client
  <2>3. CASE BuildSnapshot
    BY <2>3 DEF BuildSnapshot, forwarderVars, pressure, ledger, client
  <2>4. CASE ReplayDone \/ Break
    BY <2>4 DEF ReplayDone, Break, forwarderVars, pressure, ledger, client
  <2> QED
    BY <2>1, <2>2, <2>3, <2>4
<1>2. MetricsWait'
  BY DEF Connect, DecideSnapshot, BuildSnapshot, ReplayDone, Break, position,
         MetricsWait
<1>3. StartReached'
  <2>1. \/ phase' \notin {"replay", "live", "closing"}
        \/ phase \in {"replay", "live", "closing"}
    BY DEF Connect, DecideSnapshot, BuildSnapshot, ReplayDone, Break
  <2>2. Events' = Events
    BY <1>1, EventsStay
  <2> QED
    BY <1>1, <2>1, <2>2 DEF Tracked, StartReached
<1> QED
  BY <1>1, <1>2, <1>3, ControlStep

(* Reading server_seqno for a snapshot releases the gateway from the items *)
(* up to it.                                                               *)
LEMMA SnapshotKeepsTracked ==
  ASSUME Tracked, Delivery', OneAtATime', StampSnapshot \/ MarkSnapshot
  PROVE  Tracked'
<1>0. TypeOK
  BY DEF Tracked, Delivery
<1>1. /\ UNCHANGED <<items, sendQ, offered, cursor, seen, stale>>
      /\ base' = ServerSeqno /\ start' \in {start, ServerSeqno}
      /\ phase \in {"stamp", "mark"} /\ phase' \in {"mark", "live"}
      /\ phase' = "live" => start' = ServerSeqno /\ toSend' = toSend
      /\ \A m \in outbox' : m \in outbox \/ m = Message("State", ServerSeqno, {})
  BY DEF StampSnapshot, MarkSnapshot, forwarderVars, pressure, ledger, client
<1>2. Events' = Events /\ ServerSeqno' = ServerSeqno
  BY <1>1, EventsStay
<1>3. /\ \A n \in Events : ~(n > base')
      /\ ServerSeqno =< ServerSeqno
  BY <1>0, <1>1, EventsNumbered
<1>4. offered = {} /\ toSend = {}
  BY <1>1 DEF Tracked, Delivery, Waiting
<1>5. Issued'
  BY <1>1, <1>2, <1>3 DEF Tracked, Issued, Message
<1>6. Unnumbered' /\ ClosedIsEmpty' /\ MetricsWait' /\ EventsHanded'
  BY <1>1, <1>4 DEF Unnumbered, ClosedIsEmpty, MetricsWait, EventsHanded
<1>7. StartReached' /\ QueueSafe' /\ OutboxSafe' /\ CursorSafe'
  BY <1>2, <1>3 DEF StartReached, QueueSafe, OutboxSafe, CursorSafe
<1> QED
  BY <1>5, <1>6, <1>7 DEF Tracked

(* A resume makes the gateway owe again what comes after the cursor, and   *)
(* the client has what it was owed up to there.                            *)
LEMMA ResumeKeepsTracked ==
  ASSUME Tracked, Delivery', OneAtATime', DecideResume, ~stale
  PROVE  Tracked'
<1>0. TypeOK
  BY DEF Tracked, Delivery
<1>1. /\ UNCHANGED <<items, sendQ, offered, cursor, seen, stale>>
      /\ phase = "subscribed" /\ phase' = "replay" /\ start' = cursor
      /\ base' = Min({cursor, base}) /\ outbox' = {Control("Resume")}
  BY DEF DecideResume, forwarderVars, pressure, client
<1>2. Events' = Events /\ ServerSeqno' = ServerSeqno
  BY <1>1, EventsStay
<1>3. /\ base \in Nat /\ cursor \in Nat /\ ServerSeqno \in Nat
      /\ \A n \in Events : n \in Nat /\ n > 0
  BY <1>0, EventsNumbered
<1>4. base' \in {cursor, base} /\ base' =< base /\ base' =< cursor
  BY <1>1, <1>3, MinIsLeast
<1>5. \A m \in outbox' : m.tag = 0
  BY <1>1 DEF Control, Message
<1>6. Issued'
  <2>1. cursor =< ServerSeqno /\ base' =< ServerSeqno
    BY <1>3, <1>4 DEF Tracked, Issued
  <2> QED
    BY <1>1, <1>2, <1>3, <1>5, <2>1 DEF Tracked, Issued
<1>7. \A n \in Events : n > base' /\ n =< cursor => n \in seen
  <2>1. SUFFICES ASSUME NEW n \in Events, n > base', n =< cursor
                 PROVE  n \in seen
    OBVIOUS
  <2>2. n > base
    BY <1>3, <1>4, <2>1
  <2> QED
    BY <2>1, <2>2 DEF Tracked, CursorSafe
<1>8. StartReached' /\ CursorSafe'
  BY <1>1, <1>2, <1>7 DEF StartReached, CursorSafe
<1>9. Unnumbered' /\ ClosedIsEmpty' /\ MetricsWait'
  BY <1>1 DEF Unnumbered, ClosedIsEmpty, MetricsWait
<1>10. EventsHanded'
  BY <1>1 DEF Tracked, Delivery, Waiting, EventsHanded
<1>11. QueueSafe' /\ OutboxSafe'
  <2>1. \A i \in DOMAIN sendQ : sendQ[i].tag = 0
    BY <1>1 DEF Tracked, Unnumbered
  <2>2. ASSUME NEW n \in Events PROVE ~(n =< 0)
    BY <1>3
  <2> QED
    BY <1>1, <1>2, <1>5, <2>1, <2>2 DEF QueueSafe, OutboxSafe
<1> QED
  BY <1>6, <1>8, <1>9, <1>10, <1>11 DEF Tracked

(* A numbered message may leave the handler once every event after the     *)
(* start of the session and up to its number has left it or leaves in it.  *)
LEMMA NumberedStep ==
  ASSUME Tracked, Delivery', OneAtATime',
         UNCHANGED <<items, sendQ, start, cursor, seen, stale, base, phase>>,
         phase \in {"replay", "live"}, outbox = {},
         EventsHanded', MetricsWait',
         \A m \in outbox' :
           /\ m.tag =< ServerSeqno
           /\ \A n \in Events : n > start /\ n =< m.tag => Handed(n)'
  PROVE  Tracked'
<1>0. TypeOK
  BY DEF Tracked, Delivery
<1>1. Events' = Events /\ ServerSeqno' = ServerSeqno
  BY EventsStay
<1>2. \A n : Handed(n) => Handed(n)'
  BY HandedGrows
<1>3. Issued' /\ Unnumbered' /\ ClosedIsEmpty'
  BY <1>1 DEF Tracked, Issued, Unnumbered, ClosedIsEmpty
<1>4. StartReached' /\ QueueSafe' /\ CursorSafe'
  BY <1>1 DEF Tracked, StartReached, QueueSafe, Covered, CursorSafe
<1>5. OutboxSafe'
  <2>1. SUFFICES ASSUME NEW m \in outbox', NEW n \in Events,
                        n > base, n =< m.tag
                 PROVE  Handed(n)'
    BY <1>1 DEF OutboxSafe
  <2>2. CASE n =< start
    <3>1. n \in seen
      BY <2>1, <2>2 DEF Tracked, StartReached
    <3> QED
      BY <1>2, <3>1 DEF Handed
  <2>3. CASE n > start
    BY <2>1, <2>3
  <2>4. n \in Nat /\ start \in Nat
    BY <1>0, Numbers, EventsNumbered
  <2> QED
    BY <2>2, <2>3, <2>4
<1> QED
  BY <1>3, <1>4, <1>5 DEF Tracked

LEMMA ReplayKeepsTracked ==
  ASSUME Tracked, Delivery', OneAtATime', Replay
  PROVE  Tracked'
<1>0. TypeOK /\ Delivery
  BY DEF Tracked, Delivery
<1>1. /\ phase = "replay" /\ outbox = {} /\ toSend # {}
      /\ UNCHANGED <<items, sendQ, start, cursor, seen, stale, base, phase>>
  BY DEF Replay, forwarderVars, link, pressure, client
<1>2. PICK n : /\ n \in toSend /\ \A k \in toSend : n =< k
               /\ outbox' = {Message("Replay", n, {n})}
               /\ offered' = offered \cup {n}
  <2>1. Min(toSend) \in toSend /\ \A k \in toSend : Min(toSend) =< k
    BY <1>0, <1>1, Numbers, MinIsLeast
  <2> QED
    BY <2>1 DEF Replay
<1>3. PICK top \in Nat : ReplayUpTo(top)
  BY <1>0, <1>1 DEF Delivery, Replaying
<1>4. /\ Events' = Events /\ Handed(n)'
      /\ \A k : Handed(k) => Handed(k)'
  BY <1>1, <1>2, EventsStay, HandedGrows DEF Handed, Message
<1>5. EventsHanded'
  BY <1>2, <1>4 DEF Tracked, EventsHanded
<1>6. MetricsWait'
  BY <1>1 DEF MetricsWait
<1>7. n =< ServerSeqno
  BY <1>0, <1>2, Numbers DEF TypeOK, HandlerTypeOK
<1>8. ASSUME NEW k \in Events, k > start, k =< n PROVE Handed(k)'
  <2>1. /\ k \in Nat /\ start \in Nat /\ n \in Nat /\ n =< top
        /\ offered \cup toSend = (start + 1)..top
    BY <1>0, <1>2, <1>3, Numbers, EventsNumbered DEF ReplayUpTo
  <2>2. k \in offered \/ k \in toSend
    BY <1>8, <2>1
  <2>3. CASE k \in offered
    BY <1>4, <1>8, <2>3 DEF Tracked, EventsHanded
  <2>4. CASE k \in toSend
    <3>1. n = k
      BY <1>2, <1>8, <2>1, <2>4
    <3> QED
      BY <1>4, <3>1
  <2> QED
    BY <2>2, <2>3, <2>4
<1> QED
  BY <1>1, <1>2, <1>5, <1>6, <1>7, <1>8, NumberedStep DEF Message

(* The events a received batch adds go out in one message, numbered by an  *)
(* item of the batch: no event up to that number is left behind.           *)
LEMMA RecvKeepsTracked ==
  ASSUME "event" \in Wanted,
         Tracked, Delivery', OneAtATime', Undisturbed, Recv
  PROVE  Tracked'
<1>0. TypeOK /\ Delivery /\ NoGapInSession' /\ Paced
  BY DEF Tracked, Delivery
<1>1. /\ phase = "live" /\ outbox = {} /\ toSend = {} /\ rxNext =< sent
      /\ rxNext' = sent + 1 /\ lagged' = FALSE
      /\ offered' = offered \cup Fresh
      /\ toSend' = OfKind("metric", Fresh)
      /\ UNCHANGED <<items, sendQ, start, cursor, seen, stale, base, phase>>
  BY DEF Recv, Undisturbed, forwarderVars, link, pressure, client, TypeOK,
         HandlerTypeOK
<1>2. /\ Events' = Events /\ ServerSeqno' = ServerSeqno
      /\ \A n : Handed(n) => Handed(n)'
  BY <1>1, EventsStay, HandedGrows
<1>3. ASSUME NEW n \in Fresh \cap Events PROVE Handed(n)'
  <2>1. n \in OfKind("event", Fresh)
    BY <1>3 DEF OfKind, Events
  <2>2. \E m \in outbox' : m.items = OfKind("event", Fresh)
    BY <2>1 DEF Recv, Message
  <2> QED
    BY <2>1, <2>2 DEF Handed
<1>4. EventsHanded'
  BY <1>1, <1>2, <1>3 DEF Tracked, EventsHanded
<1>5. /\ Fresh \subseteq rxNext..sent /\ Fresh \subseteq 1..ServerSeqno
      /\ sent \in Nat /\ sent =< ServerSeqno /\ rxNext \in Nat
      /\ ServerSeqno \in Nat
  BY <1>0, FreshNumbered DEF TypeOK
<1>6. \A n \in Fresh : n \in 0..ServerSeqno /\ n =< sent /\ n < sent + 1 /\ n \in Nat
  <2>1. SUFFICES ASSUME NEW n \in Fresh
                 PROVE  n \in 0..ServerSeqno /\ n =< sent /\ n < sent + 1 /\ n \in Nat
    OBVIOUS
  <2>2. n \in rxNext..sent /\ n \in 1..ServerSeqno
    BY <1>5, <2>1
  <2> QED
    BY <1>5, <2>2
<1>7. MetricsWait'
  <2>1. \A n \in toSend' : n \in Fresh /\ items[n] = "metric"
    BY <1>1 DEF OfKind
  <2>2. \A n \in toSend' : n < sent + 1
    BY <1>6, <2>1
  <2> QED
    BY <1>1, <2>1, <2>2 DEF MetricsWait
<1>8. ASSUME NEW n \in Events, n > start, n =< sent PROVE Handed(n)'
  <2>1. n \in 1..ServerSeqno /\ n < sent + 1
    BY <1>5, <1>8 DEF Events
  <2>2. n \in offered'
    BY <1>0, <1>1, <1>2, <1>8, <2>1 DEF NoGapInSession
  <2> QED
    BY <1>2, <1>4, <2>2 DEF EventsHanded
<1>9. ASSUME NEW m \in outbox' PROVE m.tag \in Nat /\ m.tag =< sent
  <2> DEFINE events == OfKind("event", Fresh)
             metrics == OfKind("metric", Fresh)
             tag == IF metrics = {} THEN Min(Fresh) ELSE Max(metrics)
  <2>1. events # {} /\ m.tag = tag
    BY <1>9 DEF Recv, Message
  <2>2. Fresh # {} /\ metrics \subseteq Fresh
    BY <2>1 DEF OfKind
  <2>3. tag \in Fresh
    <3>1. ASSUME metrics = {} PROVE Min(Fresh) \in Fresh
      <4>1. Fresh \in SUBSET Nat
        BY <1>5
      <4> QED
        BY <2>2, <4>1, MinIsLeast
    <3>2. ASSUME metrics # {} PROVE Max(metrics) \in metrics
      <4>1. metrics \in SUBSET (0..ServerSeqno)
        BY <1>6, <2>2
      <4> QED
        BY <1>5, <3>2, <4>1, MaxIsGreatest
    <3> QED
      BY <2>2, <3>1, <3>2
  <2> HIDE DEF tag
  <2> QED
    BY <1>6, <2>1, <2>3
<1>10. \A m \in outbox' : /\ m.tag =< ServerSeqno
                         /\ \A n \in Events : n > start /\ n =< m.tag => Handed(n)'
  <2>1. ASSUME NEW m \in outbox', NEW n \in Events, n > start, n =< m.tag
        PROVE  Handed(n)'
    <3>1. n \in Nat /\ m.tag \in Nat /\ m.tag =< sent
      BY <1>0, <1>9, EventsNumbered
    <3> QED
      BY <1>5, <1>8, <2>1, <3>1
  <2> QED
    BY <1>5, <1>9, <2>1
<1> QED
  BY <1>1, <1>4, <1>7, <1>10, NumberedStep

(* A metric goes out after the events of its batch. *)
LEMMA SendMetricKeepsTracked ==
  ASSUME Tracked, Delivery', OneAtATime', Undisturbed, SendMetric
  PROVE  Tracked'
<1>0. TypeOK /\ Delivery
  BY DEF Tracked, Delivery
<1>1. /\ phase = "live" /\ outbox = {} /\ toSend # {} /\ ~lagged
      /\ UNCHANGED <<items, sendQ, start, cursor, seen, stale, base, phase,
                     rxNext, offered>>
  BY DEF SendMetric, Undisturbed, forwarderVars, link, pressure, ledger, client
<1>2. PICK n \in toSend : /\ outbox' = {Message("Metric", n, {n})}
                          /\ toSend' = toSend \ {n}
  <2>1. Min(toSend) \in toSend
    BY <1>0, <1>1, Numbers, MinIsLeast
  <2> QED
    BY <2>1 DEF SendMetric
<1>3. Events' = Events /\ \A k : Handed(k) => Handed(k)'
  BY <1>1, EventsStay, HandedGrows
<1>4. EventsHanded'
  BY <1>1, <1>3 DEF Tracked, EventsHanded
<1>5. MetricsWait'
  BY <1>1, <1>2 DEF Tracked, MetricsWait
<1>6. n \in Nat /\ n =< ServerSeqno /\ n < rxNext /\ rxNext \in Nat
  BY <1>0, <1>1, Numbers DEF TypeOK, HandlerTypeOK, Tracked, MetricsWait
<1>7. ASSUME NEW k \in Events, k > start, k =< n PROVE Handed(k)'
  <2>1. k \in 1..ServerSeqno /\ k < rxNext
    BY <1>0, <1>6, <1>7, EventsNumbered DEF Events
  <2>2. k \in offered
    BY <1>0, <1>1, <1>7, <2>1 DEF Delivery, NoGapInSession
  <2> QED
    BY <1>3, <1>7, <2>2 DEF Tracked, EventsHanded
<1> QED
  BY <1>1, <1>2, <1>4, <1>5, <1>6, <1>7, NumberedStep DEF Message

LEMMA EnqueueKeepsTracked ==
  ASSUME Tracked, Delivery', OneAtATime', Enqueue
  PROVE  Tracked'
<1>0. TypeOK /\ QueueTypeOK /\ OneAtATime
  BY DEF Tracked, Delivery, TypeOK
<1>1. /\ UNCHANGED <<items, phase, rxNext, toSend, start, offered>>
      /\ UNCHANGED <<cursor, seen, stale, base>>
      /\ outbox # {} /\ outbox' = {}
  BY DEF Enqueue, forwarderVars, link, position, ledger, client
<1>2. PICK m \in outbox :
           /\ outbox = {m} /\ Len(sendQ') \in Nat /\ Len(sendQ) < Len(sendQ')
           /\ DOMAIN sendQ' = 1..Len(sendQ') /\ sendQ'[Len(sendQ')] = m
           /\ \A i \in 1..Len(sendQ) : sendQ'[i] = sendQ[i]
           /\ \A i \in 1..Len(sendQ') :
                \/ i =< Len(sendQ) \/ i = Len(sendQ')
                \/ sendQ'[i].tag = 0 /\ sendQ'[i].items = {}
  BY <1>0, EnqueueQueue
<1>3. /\ Events' = Events /\ ServerSeqno' = ServerSeqno
      /\ \A n : Handed(n) => Handed(n)'
  BY <1>0, <1>1, EventsStay, HandedStays
<1>4. /\ DOMAIN sendQ = 1..Len(sendQ) /\ Len(sendQ) \in Nat
      /\ ServerSeqno \in Nat /\ \A n \in Events : n \in Nat /\ n > 0
  BY <1>0, EventsNumbered
<1>5. ASSUME NEW i \in DOMAIN sendQ'
      PROVE  \/ i \in DOMAIN sendQ /\ sendQ'[i] = sendQ[i]
             \/ i = Len(sendQ') /\ sendQ'[i] = m
             \/ sendQ'[i].tag = 0
  <2>1. i \in 1..Len(sendQ')
    BY <1>2, <1>5
  <2>2. CASE i =< Len(sendQ)
    <3>1. i \in 1..Len(sendQ)
      BY <1>4, <2>1, <2>2
    <3> QED
      BY <1>2, <1>4, <3>1
  <2> QED
    BY <1>2, <2>1, <2>2
<1>6. Issued'
  <2>1. m.tag =< ServerSeqno /\ 0 =< ServerSeqno
    BY <1>4 DEF Tracked, Issued
  <2> QED
    BY <1>1, <1>3, <1>5, <2>1 DEF Tracked, Issued
<1>7. Unnumbered' /\ ClosedIsEmpty'
  BY <1>1, <1>5 DEF Tracked, Unnumbered, ClosedIsEmpty
<1>8. MetricsWait' /\ StartReached' /\ EventsHanded' /\ CursorSafe'
  BY <1>1, <1>3 DEF Tracked, MetricsWait, StartReached, EventsHanded, CursorSafe
<1>9. OutboxSafe'
  BY <1>1 DEF OutboxSafe
<1>10. QueueSafe'
  <2>1. SUFFICES ASSUME NEW i \in DOMAIN sendQ', NEW n \in Events,
                        n > base, n =< sendQ'[i].tag
                 PROVE  n \in seen \/ \E j \in 1..i : n \in sendQ'[j].items
    BY <1>1, <1>3 DEF QueueSafe, Covered
  <2>2. CASE i \in DOMAIN sendQ /\ sendQ'[i] = sendQ[i]
    <3>1. Covered(n, i)
      BY <2>1, <2>2 DEF Tracked, QueueSafe
    <3>2. \A j \in 1..i : j \in 1..Len(sendQ)
      BY <1>4, <2>2
    <3>3. \A j \in 1..i : sendQ'[j] = sendQ[j]
      BY <1>2, <3>2
    <3> QED
      BY <3>1, <3>3 DEF Covered
  <2>3. CASE i = Len(sendQ') /\ sendQ'[i] = m
    <3>1. Handed(n)'
      BY <1>3, <2>1, <2>3 DEF Tracked, OutboxSafe
    <3> QED
      BY <1>1, <1>2, <2>3, <3>1 DEF Handed
  <2>4. CASE sendQ'[i].tag = 0
    BY <1>4, <2>1, <2>4
  <2> QED
    BY <1>5, <2>2, <2>3, <2>4
<1> QED
  BY <1>6, <1>7, <1>8, <1>9, <1>10 DEF Tracked

(* The client moves its cursor to a number whose events it has by then.    *)
LEMMA DeliverKeepsTracked ==
  ASSUME Tracked, Delivery', OneAtATime', Deliver
  PROVE  Tracked'
<1>0. TypeOK /\ QueueTypeOK /\ OneAtATime
  BY DEF Tracked, Delivery, TypeOK
<1>1. /\ UNCHANGED <<items, phase, rxNext, toSend, start, offered, outbox, base>>
      /\ stale' => stale
  BY DEF Deliver, forwarderVars, link, position, ledger, TypeOK, ClientTypeOK
<1>2. /\ Len(sendQ) \in Nat /\ Len(sendQ') \in Nat /\ 1 \in DOMAIN sendQ
      /\ Len(sendQ') = Len(sendQ) - 1
      /\ DOMAIN sendQ = 1..Len(sendQ) /\ DOMAIN sendQ' = 1..Len(sendQ')
      /\ \A i \in 1..Len(sendQ') : sendQ'[i] = sendQ[i + 1]
      /\ seen' = seen \cup sendQ[1].items
      /\ IF sendQ[1].tag > 0 THEN cursor' = sendQ[1].tag
                             ELSE UNCHANGED <<cursor, stale>>
  BY <1>0, DeliverQueue
<1>3. /\ Events' = Events /\ ServerSeqno' = ServerSeqno
      /\ \A n : Handed(n) => Handed(n)'
  BY <1>0, <1>1, EventsStay, HandedStays
<1>4. ASSUME NEW i \in DOMAIN sendQ'
      PROVE  i \in Nat /\ i + 1 \in DOMAIN sendQ /\ sendQ'[i] = sendQ[i + 1]
  BY <1>2, <1>4
<1>5. Issued'
  BY <1>1, <1>2, <1>3, <1>4 DEF Tracked, Issued
<1>6. Unnumbered' /\ ClosedIsEmpty' /\ MetricsWait'
  BY <1>1, <1>4 DEF Tracked, Unnumbered, ClosedIsEmpty, MetricsWait
<1>7. EventsHanded' /\ StartReached' /\ OutboxSafe'
  BY <1>1, <1>2, <1>3 DEF Tracked, EventsHanded, StartReached, OutboxSafe
<1>8. QueueSafe'
  <2>1. SUFFICES ASSUME NEW i \in DOMAIN sendQ', NEW n \in Events,
                        n > base, n =< sendQ[i + 1].tag
                 PROVE  n \in seen' \/ \E j \in 1..i : n \in sendQ'[j].items
    BY <1>1, <1>3, <1>4 DEF QueueSafe, Covered
  <2>2. Covered(n, i + 1)
    BY <1>4, <2>1 DEF Tracked, QueueSafe
  <2>3. ASSUME NEW j \in 1..(i + 1), n \in sendQ[j].items
        PROVE  n \in seen' \/ \E k \in 1..i : n \in sendQ'[k].items
    <3>1. CASE j = 1
      BY <1>2, <2>3, <3>1
    <3>2. CASE j # 1
      <4>1. j - 1 \in 1..i /\ j - 1 \in DOMAIN sendQ' /\ (j - 1) + 1 = j
        BY <1>2, <1>4, <2>3, <3>2
      <4>2. sendQ'[j - 1] = sendQ[j]
        BY <1>4, <4>1
      <4> QED
        BY <2>3, <4>1, <4>2
    <3> QED
      BY <3>1, <3>2
  <2> QED
    BY <1>2, <2>2, <2>3 DEF Covered
<1>9. CursorSafe'
  <2>1. SUFFICES ASSUME ~stale', NEW n \in Events, n > base, n =< cursor'
                 PROVE  n \in seen'
    BY <1>1, <1>3 DEF CursorSafe
  <2>2. CASE sendQ[1].tag > 0
    <3>1. Covered(n, 1)
      BY <1>2, <2>1, <2>2 DEF Tracked, QueueSafe
    <3>2. \A j \in 1..1 : j = 1
      OBVIOUS
    <3> QED
      BY <1>2, <3>1, <3>2 DEF Covered
  <2>3. CASE ~(sendQ[1].tag > 0)
    BY <1>2, <2>1, <2>3 DEF Tracked, CursorSafe
  <2> QED
    BY <2>2, <2>3
<1> QED
  BY <1>5, <1>6, <1>7, <1>8, <1>9 DEF Tracked

(* What is lost with a connection is after the cursor, or unnumbered.      *)
LEMMA EndingKeepsTracked ==
  ASSUME Tracked, Delivery', OneAtATime', Close \/ SocketLost \/ Restart
  PROVE  Tracked'
<1>0. TypeOK
  BY DEF Tracked, Delivery
<1>1. EndSession
  BY DEF Close, SocketLost, Restart
<1>2. DOMAIN sendQ' = {}
  BY <1>1 DEF EndSession
<1>3. Unnumbered' /\ ClosedIsEmpty' /\ MetricsWait' /\ EventsHanded'
      /\ StartReached' /\ QueueSafe' /\ OutboxSafe'
  BY <1>1, <1>2 DEF EndSession, Unnumbered, ClosedIsEmpty, MetricsWait,
     EventsHanded, StartReached, QueueSafe, OutboxSafe
<1>4. CASE Close \/ SocketLost
  <2>1. UNCHANGED <<items, cursor, seen, stale, base>>
    BY <1>4 DEF Close, SocketLost, forwarderVars
  <2>2. Events' = Events /\ ServerSeqno' = ServerSeqno
    BY <2>1, EventsStay
  <2>3. 0 =< ServerSeqno
    BY <1>0, Numbers
  <2>4. Issued' /\ CursorSafe'
    BY <1>1, <1>2, <2>1, <2>2, <2>3 DEF EndSession, Tracked, Issued, CursorSafe
  <2> QED
    BY <1>3, <2>4 DEF Tracked
<1>5. CASE Restart
  <2>1. items' = <<>> /\ base' = 0 /\ stale' = (cursor > 0) /\ cursor' = cursor
    BY <1>5 DEF Restart
  <2>2. ServerSeqno' = 0 /\ Events' = {}
    BY <2>1 DEF ServerSeqno, Events
  <2>3. cursor \in Nat
    BY <1>0, Numbers
  <2>4. Issued'
    <3>1. start' = 0 /\ outbox' = {} /\ 0 =< 0
      BY <1>1 DEF EndSession
    <3>2. ~stale' => ~(cursor > 0)
      BY <2>1, Zenon
    <3>3. ~(cursor > 0) => cursor =< 0
      BY <2>3
    <3>4. ~stale' => cursor' =< 0
      BY <2>1, <3>2, <3>3, Zenon
    <3> QED
      BY <1>2, <2>1, <2>2, <3>1, <3>4 DEF Issued
  <2>5. CursorSafe'
    BY <2>2 DEF CursorSafe
  <2> QED
    BY <1>3, <2>4, <2>5 DEF Tracked
<1> QED
  BY <1>4, <1>5

LEMMA InitTracked == Init => Tracked
<1> SUFFICES ASSUME Init PROVE Tracked
  OBVIOUS
<1>1. Delivery /\ OneAtATime
  BY InitDelivery DEF Init, OneAtATime
<1>2. ServerSeqno = 0 /\ Events = {} /\ DOMAIN sendQ = {}
  BY DEF Init, BroadcastInit, ServerSeqno, Events
<1> QED
  BY <1>1, <1>2 DEF Init, Tracked, Issued, ClosedIsEmpty, Unnumbered,
     MetricsWait, EventsHanded, StartReached, QueueSafe, OutboxSafe, CursorSafe

LEMMA NextTracked ==
  ASSUME "event" \in Wanted, Tracked, Undisturbed, Undisturbed',
         [Next]_vars, [DecideResume => ~stale]_vars
  PROVE  Tracked'
<1>0. Delivery' /\ OneAtATime'
  BY NextDelivery, OneMessage DEF Tracked
<1>1. CASE UNCHANGED vars
  <2>1. /\ UNCHANGED <<items, phase, rxNext, toSend, outbox, sendQ, start>>
        /\ UNCHANGED <<offered, cursor, seen, stale, base>>
    BY <1>1 DEF vars, sessionVars, forwarderVars, link, position, pressure,
                ledger, client
  <2>2. Events' = Events /\ ServerSeqno' = ServerSeqno
    BY <2>1, EventsStay
  <2>3. Issued' /\ ClosedIsEmpty' /\ Unnumbered' /\ MetricsWait'
    BY <2>1, <2>2 DEF Tracked, Issued, ClosedIsEmpty, Unnumbered, MetricsWait
  <2>4. EventsHanded' /\ StartReached' /\ QueueSafe' /\ OutboxSafe' /\ CursorSafe'
    BY <2>1, <2>2 DEF Tracked, EventsHanded, StartReached, QueueSafe, Covered,
       OutboxSafe, CursorSafe, Handed
  <2> QED
    BY <1>0, <2>3, <2>4 DEF Tracked
<1>2. CASE Publish /\ UNCHANGED sessionVars
  BY <1>0, <1>2, PublishKeepsTracked
<1>3. CASE Connect \/ Break \/ Handshake
  <2>1. CASE DecideResume
    <3>1. phase' # phase
      BY <2>1 DEF DecideResume
    <3>2. ~stale
      BY <2>1, <3>1 DEF vars, sessionVars, link
    <3> QED
      BY <1>0, <2>1, <3>2, ResumeKeepsTracked
  <2> QED
    BY <1>0, <1>3, <2>1, ControlStepsKeepTracked, SnapshotKeepsTracked,
       ReplayKeepsTracked DEF Handshake
<1>4. CASE Live
  <2>1. CASE RecvLagged
    BY <2>1 DEF RecvLagged, Undisturbed
  <2> QED
    BY <1>0, <1>4, <2>1, RecvKeepsTracked, SendMetricKeepsTracked DEF Live
<1>5. CASE SendOrDrop
  <2>1. CASE Drop \/ DropAtLimit
    BY <2>1 DEF Drop, DropAtLimit, Dropping, Undisturbed
  <2> QED
    BY <1>0, <1>5, <2>1, EnqueueKeepsTracked DEF SendOrDrop
<1>6. CASE Deliver \/ Close \/ SocketLost \/ Restart
  BY <1>0, <1>6, DeliverKeepsTracked, EndingKeepsTracked
<1> QED
  BY <1>1, <1>2, <1>3, <1>4, <1>5, <1>6 DEF Next

(* The cursor a client reconnects with loses it no event: for a subscriber *)
(* to events, over any number of lost connections, every event up to its   *)
(* cursor that it was owed has arrived, as long as send_or_drop drops      *)
(* nothing, the receiver is not overrun and no cursor from before a        *)
(* restart is resumed.  Without any one of these three it may be lost.     *)
THEOREM CursorLosesNoEvent ==
  ASSUME "event" \in Wanted
  PROVE  Spec /\ []Undisturbed /\ RestartGivesSnapshot => []EventsNotLost
<1>1. /\ Tracked /\ Undisturbed /\ Undisturbed'
      /\ [Next]_vars /\ [DecideResume => ~stale]_vars
      => Tracked'
  BY NextTracked
<1>2. Tracked => EventsNotLost
  BY CursorSafeIs DEF Tracked
<1> QED
  BY <1>1, <1>2, InitTracked, PTL DEF Spec, RestartGivesSnapshot
=============================================================================
