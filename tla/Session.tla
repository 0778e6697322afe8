------------------------------- MODULE Session ------------------------------
(***************************************************************************)
(* One WebSocket session of the gateway (server.rs, handle_ws with its     *)
(* send_task, send_or_drop and send_snapshot) and the client behind it,    *)
(* which reconnects with the cursor of the last message it received        *)
(* (handleMessage and buildWsUrl of the SDKs).                             *)
(***************************************************************************)
EXTENDS Broadcast

CONSTANTS
  Wanted,        \* kinds of items the subscription lets through
  BroadcastCap,  \* capacity of the broadcast channel (1_000_000)
  SendBuffer,    \* CLIENT_SEND_BUFFER (4096)
  WarnEvery,     \* drops between two warnings (1000)
  DropLimit,     \* SLOW_CLIENT_DROP_LIMIT (10_000)
  MaxConnects,   \* bound: connections the client opens
  MaxRestarts    \* bound: restarts of the gateway

ASSUME SessionAssumption ==
  /\ Wanted \subseteq Kinds
  /\ {BroadcastCap, SendBuffer, WarnEvery, DropLimit} \subseteq Nat \ {0}
  /\ {MaxConnects, MaxRestarts} \subseteq Nat

VARIABLES
  phase,         \* where handle_ws is; "closed" without a connection
  mode,          \* the resume mode announced on this connection
  rxNext,        \* the next item the broadcast receiver will be given
  lastSent,      \* last_sent_seqno
  toSend,        \* what the current loop has yet to send: entries of the
                 \* replay, or metrics of the received batch
  cover,         \* items whose effect the state snapshot contains
  outbox,        \* the message about to go through send_or_drop (Option)
  sendQ,         \* the bounded mpsc channel to send_task
  drops,         \* drop_count
  warning,       \* pending_warning (Option)
  start,         \* history: this session owes the items after start
  offered,       \* history: the items this session has handled
  repeated,      \* history: the items this session has handled twice
  lagged,        \* history: this session's receiver was overrun
  cursor,        \* client: seqno of its last numbered message, 0 for none
  seen,          \* client: items received from the running gateway
  stale,         \* client: its cursor is from an earlier run of the gateway
  base,          \* history: the client is owed the items after base
  connects, restarts

link      == <<phase, mode>>
position  == <<rxNext, lastSent, toSend, cover>>
pressure  == <<sendQ, drops, warning>>
ledger    == <<start, offered, repeated, lagged>>
client    == <<cursor, seen, stale>>
counters  == <<connects, restarts>>
sessionVars == <<link, position, outbox, pressure, ledger, client, base,
                 counters>>
vars == <<forwarderVars, sessionVars>>
----------------------------------------------------------------------------
Message(kind, tag, content) == [kind |-> kind, tag |-> tag, items |-> content]
Control(kind) == Message(kind, 0, {})

Init ==
  /\ BroadcastInit
  /\ phase = "closed" /\ mode = "none"
  /\ rxNext = 1 /\ lastSent = 0 /\ toSend = {} /\ cover = 0
  /\ outbox = {} /\ sendQ = <<>> /\ drops = 0 /\ warning = {}
  /\ start = 0 /\ offered = {} /\ repeated = {} /\ lagged = FALSE
  /\ cursor = 0 /\ seen = {} /\ stale = FALSE /\ base = 0
  /\ connects = 0 /\ restarts = 0

(* The connection is gone with everything that was on its way. *)
EndSession ==
  /\ phase' = "closed" /\ mode' = "none"
  /\ rxNext' = 1 /\ lastSent' = 0 /\ toSend' = {} /\ cover' = 0
  /\ outbox' = {} /\ sendQ' = <<>> /\ drops' = 0 /\ warning' = {}
  /\ start' = 0 /\ offered' = {} /\ repeated' = {} /\ lagged' = FALSE
----------------------------------------------------------------------------
(* The client connects; handle_ws subscribes before it does anything else. *)
Connect ==
  /\ phase = "closed" /\ connects < MaxConnects
  /\ connects' = connects + 1
  /\ phase' = "subscribed" /\ rxNext' = sent + 1
  /\ outbox' = {Control("Hello")}
  /\ UNCHANGED <<forwarderVars, mode, lastSent, toSend, cover, pressure,
                 ledger, client, base, restarts>>

(* Under the history lock: the entries after the cursor, unless the cursor *)
(* is older than the oldest entry.  No cursor or no entry: snapshot.       *)
Replayable ==
  IF cursor = 0 \/ (history # {} /\ cursor < Min(history))
    THEN {} ELSE {n \in history : n > cursor}

(* Faulty variant: no mode is chosen for a cursor with nothing to replay. *)
DecideSnapshotFresh ==
  /\ phase = "subscribed" /\ outbox = {} /\ cursor = 0
  /\ mode' = "snapshot" /\ phase' = "snapshot"
  /\ outbox' = {Control("Resume")}
  /\ UNCHANGED <<forwarderVars, position, pressure, ledger, client, base,
                 counters>>

DecideSnapshot ==
  /\ phase = "subscribed" /\ outbox = {} /\ Replayable = {}
  /\ mode' = "snapshot" /\ phase' = "snapshot"
  /\ outbox' = {Control("Resume")}
  /\ UNCHANGED <<forwarderVars, position, pressure, ledger, client, base,
                 counters>>

DecideResume ==
  /\ phase = "subscribed" /\ outbox = {} /\ Replayable # {}
  /\ mode' = "resume" /\ phase' = "replay" /\ toSend' = Replayable
  /\ outbox' = {Control("Resume")}
  /\ start' = cursor /\ base' = Min({cursor, base})
  /\ UNCHANGED <<forwarderVars, rxNext, lastSent, cover, pressure, offered,
                 repeated, lagged, client, counters>>

(* Faulty variant: last_sent_seqno is not updated by the replay. *)
ReplayUnmarked ==
  /\ phase = "replay" /\ outbox = {} /\ toSend # {}
  /\ LET n == Min(toSend) IN
     /\ outbox' = {Message("Replay", n, {n})}
     /\ toSend' = toSend \ {n} /\ UNCHANGED lastSent
     /\ offered' = offered \cup {n}
     /\ repeated' = repeated \cup ({n} \cap offered)
  /\ UNCHANGED <<forwarderVars, link, rxNext, cover, pressure, start, lagged,
                 client, base, counters>>

(* Faulty variant: the entries go out newest first. *)
ReplayNewestFirst ==
  /\ phase = "replay" /\ outbox = {} /\ toSend # {}
  /\ LET n == Max(toSend) IN
     /\ outbox' = {Message("Replay", n, {n})}
     /\ toSend' = toSend \ {n} /\ lastSent' = n
     /\ offered' = offered \cup {n}
     /\ repeated' = repeated \cup ({n} \cap offered)
  /\ UNCHANGED <<forwarderVars, link, rxNext, cover, pressure, start, lagged,
                 client, base, counters>>

(* The stored entries go out one by one, whatever the subscription is, and *)
(* last_sent_seqno follows them.                                           *)
Replay ==
  /\ phase = "replay" /\ outbox = {} /\ toSend # {}
  /\ LET n == Min(toSend) IN
     /\ outbox' = {Message("Replay", n, {n})}
     /\ toSend' = toSend \ {n} /\ lastSent' = n
     /\ offered' = offered \cup {n}
     /\ repeated' = repeated \cup ({n} \cap offered)
  /\ UNCHANGED <<forwarderVars, link, rxNext, cover, pressure, start, lagged,
                 client, base, counters>>

(* Faulty variant: the session subscribes when the replay is done. *)
ReplayDoneSubscribes ==
  /\ phase = "replay" /\ outbox = {} /\ toSend = {}
  /\ phase' = "live" /\ rxNext' = sent + 1
  /\ UNCHANGED <<forwarderVars, mode, lastSent, toSend, cover, outbox,
                 pressure, ledger, client, base, counters>>

ReplayDone ==
  /\ phase = "replay" /\ outbox = {} /\ toSend = {}
  /\ phase' = "live"
  /\ UNCHANGED <<forwarderVars, mode, position, outbox, pressure, ledger,
                 client, base, counters>>

(* build_replay reads the trackers ... *)
BuildSnapshot ==
  /\ phase = "snapshot" /\ outbox = {}
  /\ cover' = Applied /\ phase' = "stamp"
  /\ UNCHANGED <<forwarderVars, mode, rxNext, lastSent, toSend, outbox,
                 pressure, ledger, client, base, counters>>

(* ... then server_seqno is read, to number the snapshot messages (there   *)
(* may be none) ...                                                        *)
StampSnapshot ==
  /\ phase = "stamp"
  /\ outbox' \in {{}, {Message("State", ServerSeqno, {})}}
  /\ phase' = "mark" /\ base' = ServerSeqno
  /\ UNCHANGED <<forwarderVars, mode, position, pressure, ledger, client,
                 counters>>

(* ... and, once they are sent, read again as last_sent_seqno. *)
MarkSnapshot ==
  /\ phase = "mark" /\ outbox = {}
  /\ lastSent' = ServerSeqno /\ phase' = "live"
  /\ start' = ServerSeqno /\ base' = ServerSeqno
  /\ UNCHANGED <<forwarderVars, mode, rxNext, toSend, cover, outbox,
                 pressure, offered, repeated, lagged, client, counters>>
----------------------------------------------------------------------------
(* Faulty variant: off by one at last_sent_seqno. *)
FreshAfterNext == {n \in rxNext..sent : n > lastSent + 1}

(* The live loop drains its receiver and skips what last_sent_seqno says   *)
(* was sent before.  The wanted events go out in one message, numbered     *)
(* like the last metric of the batch or else like its first item ...       *)
Fresh == {n \in rxNext..sent : n > lastSent}
OfKind(k, fresh) == {n \in fresh : items[n] = k /\ k \in Wanted}

Recv ==
  /\ phase = "live" /\ outbox = {} /\ toSend = {}
  /\ rxNext =< sent /\ sent - rxNext < BroadcastCap
  /\ LET events  == OfKind("event", Fresh)
         metrics == OfKind("metric", Fresh)
         tag     == IF metrics = {} THEN Min(Fresh) ELSE Max(metrics)
     IN  /\ outbox' = IF events = {} THEN {} ELSE {Message("Events", tag, events)}
         /\ toSend' = metrics
  /\ offered' = offered \cup Fresh
  /\ repeated' = repeated \cup (Fresh \cap offered)
  /\ rxNext' = sent + 1
  /\ UNCHANGED <<forwarderVars, link, lastSent, cover, pressure, start, lagged,
                 client, base, counters>>

(* ... and then every metric on its own. *)
SendMetric ==
  /\ phase = "live" /\ outbox = {} /\ toSend # {}
  /\ LET n == Min(toSend) IN
     /\ outbox' = {Message("Metric", n, {n})}
     /\ toSend' = toSend \ {n}
  /\ UNCHANGED <<forwarderVars, link, rxNext, lastSent, cover, pressure, ledger,
                 client, base, counters>>

(* The receiver was overrun: it continues with the oldest retained item.   *)
RecvLagged ==
  /\ phase = "live" /\ outbox = {} /\ toSend = {}
  /\ sent - rxNext >= BroadcastCap
  /\ rxNext' = sent - BroadcastCap + 1 /\ lagged' = TRUE
  /\ UNCHANGED <<forwarderVars, link, lastSent, toSend, cover, outbox,
                 pressure, start, offered, repeated, client, base, counters>>

(* Heartbeat timeout, shutdown signal, or a Close from the client. *)
Break ==
  /\ phase = "live" /\ outbox = {} /\ toSend = {}
  /\ connects < MaxConnects
  /\ phase' = "closing"
  /\ UNCHANGED <<forwarderVars, mode, position, outbox, pressure, ledger,
                 client, base, counters>>
----------------------------------------------------------------------------
(* send_or_drop: a pending warning is tried first, best effort; then the   *)
(* message is queued, or dropped and counted if the queue is full.         *)
Queued == IF warning # {} /\ Len(sendQ) < SendBuffer
            THEN Append(sendQ, Control("Warning")) ELSE sendQ

(* Faulty variant: the room is checked before the warning is queued. *)
EnqueueUnchecked ==
  /\ outbox # {} /\ Len(sendQ) < SendBuffer
  /\ \E m \in outbox : sendQ' = Append(Queued, m)
  /\ outbox' = {} /\ warning' = {}
  /\ UNCHANGED <<forwarderVars, link, position, drops, ledger, client, base,
                 counters>>

Enqueue ==
  /\ outbox # {} /\ Len(Queued) < SendBuffer
  /\ \E m \in outbox : sendQ' = Append(Queued, m)
  /\ outbox' = {} /\ warning' = {}
  /\ UNCHANGED <<forwarderVars, link, position, drops, ledger, client, base,
                 counters>>

(* Faulty variant: the counter is reset by a warning. *)
DroppingResets ==
  /\ outbox # {} /\ Len(Queued) >= SendBuffer
  /\ sendQ' = Queued
  /\ IF (drops + 1) % WarnEvery = 0 THEN drops' = 0 /\ warning' = {drops + 1}
                                    ELSE drops' = drops + 1 /\ warning' = {}
  /\ outbox' = {}
  /\ UNCHANGED <<forwarderVars, mode, rxNext, lastSent, cover, ledger, client,
                 base, counters>>

Dropping ==
  /\ outbox # {} /\ Len(Queued) >= SendBuffer
  /\ drops' = drops + 1 /\ sendQ' = Queued
  /\ warning' = IF drops' % WarnEvery = 0 THEN {drops'} ELSE {}
  /\ outbox' = {}
  /\ UNCHANGED <<forwarderVars, mode, rxNext, lastSent, cover, ledger, client,
                 base, counters>>

Drop == drops + 1 < DropLimit /\ Dropping /\ UNCHANGED <<phase, toSend>>

(* send_or_drop returns false.  Before the live loop the handler returns;  *)
(* after an Events message it breaks out of the live loop; after a metric  *)
(* the break only leaves the loop over the remaining metrics.              *)
DropAtLimit ==
  /\ drops + 1 >= DropLimit /\ Dropping
  /\ toSend' = {}
  /\ phase' = IF phase # "live" THEN "aborted"
              ELSE IF \E m \in outbox : m.kind = "Events" THEN "closing" ELSE "live"

(* send_task writes the next message to the socket; the client takes it    *)
(* and moves its cursor unless the message is a control frame.             *)
Deliver ==
  /\ sendQ # <<>> /\ phase # "aborted"
  /\ LET m == Head(sendQ) IN
     /\ IF m.tag > 0 THEN cursor' = m.tag /\ stale' = FALSE
                     ELSE UNCHANGED <<cursor, stale>>
     /\ seen' = seen \cup m.items
  /\ sendQ' = Tail(sendQ)
  /\ UNCHANGED <<forwarderVars, link, position, outbox, drops, warning,
                 ledger, base, counters>>
----------------------------------------------------------------------------
(* Faulty variant: the handler keeps its end of the queue open, so         *)
(* send_task never ends.                                                   *)
CloseAborted ==
  /\ phase = "aborted"
  /\ EndSession
  /\ UNCHANGED <<forwarderVars, cursor, seen, stale, base, counters>>

(* After a break send_task drains the queue and closes the socket; an      *)
(* early return aborts send_task.                                          *)
Close ==
  /\ phase = "aborted" \/ (phase = "closing" /\ sendQ = <<>>)
  /\ EndSession
  /\ UNCHANGED <<forwarderVars, cursor, seen, stale, base, counters>>

SocketLost ==
  /\ phase # "closed" /\ connects < MaxConnects
  /\ EndSession
  /\ UNCHANGED <<forwarderVars, cursor, seen, stale, base, counters>>

(* The gateway restarts: all it knew was in memory. *)
Restart ==
  /\ restarts < MaxRestarts /\ connects < MaxConnects
  /\ restarts' = restarts + 1
  /\ items' = <<>> /\ history' = {} /\ sent' = 0
  /\ batch' = <<>> /\ step' = "assign"
  /\ EndSession
  /\ seen' = {} /\ base' = 0 /\ stale' = (cursor > 0)
  /\ UNCHANGED <<cursor, connects>>
----------------------------------------------------------------------------
Handshake == \/ DecideSnapshot \/ BuildSnapshot \/ StampSnapshot
             \/ MarkSnapshot \/ DecideResume \/ Replay \/ ReplayDone
Live == Recv \/ SendMetric \/ RecvLagged
SendOrDrop == Enqueue \/ Drop \/ DropAtLimit

Next == \/ Publish /\ UNCHANGED sessionVars
        \/ Connect \/ Handshake \/ Live \/ SendOrDrop \/ Deliver
        \/ Break \/ Close \/ SocketLost \/ Restart

Spec == Init /\ [][Next]_vars

(* The forwarder and the tasks of the session are scheduled, the socket of *)
(* a connection that stays up takes messages, the client reconnects.       *)
FairSpec == /\ Spec
            /\ WF_vars(Publish /\ UNCHANGED sessionVars)
            /\ WF_vars(Connect) /\ WF_vars(Handshake) /\ WF_vars(Live)
            /\ WF_vars(SendOrDrop) /\ WF_vars(Deliver) /\ WF_vars(Close)
----------------------------------------------------------------------------
Phases == {"closed", "subscribed", "replay", "snapshot", "stamp", "mark",
           "live", "closing", "aborted"}
MessageKinds == {"Hello", "Resume", "State", "Replay", "Events", "Metric",
                 "Warning"}
Messages == [kind : MessageKinds, tag : Nat, items : SUBSET (1..ServerSeqno)]

HandlerTypeOK ==
  /\ phase \in Phases /\ mode \in {"none", "resume", "snapshot"}
  /\ rxNext \in 1..(ServerSeqno + 1) /\ lastSent \in 0..ServerSeqno
  /\ toSend \subseteq 1..ServerSeqno /\ cover \in Nat
  /\ start \in Nat /\ offered \subseteq 1..ServerSeqno
  /\ repeated \subseteq 1..ServerSeqno /\ lagged \in BOOLEAN

QueueTypeOK ==
  /\ outbox \subseteq Messages /\ sendQ \in Seq(Messages)
  /\ Len(sendQ) =< SendBuffer
  /\ drops \in Nat /\ warning \in SUBSET Nat

ClientTypeOK ==
  /\ cursor \in Nat /\ seen \subseteq 1..ServerSeqno /\ stale \in BOOLEAN
  /\ base \in Nat /\ connects \in Nat /\ restarts \in Nat

(* The type invariant: the per-client queue stays within its capacity,     *)
(* pending warnings included, and no handler, queue or message refers to   *)
(* an item that has not been numbered.                                     *)
TypeOK == BroadcastTypeOK /\ HandlerTypeOK /\ QueueTypeOK /\ ClientTypeOK

(* ARCHITECTURE.md "Delivery: at-most-once per connection": no item goes   *)
(* out both as a replayed entry and live, or twice live, however the       *)
(* forwarder and the handshake interleave.                                 *)
AtMostOncePerConnection == repeated = {}

(* No gap at the seam between replay (or snapshot) and live: a session     *)
(* that was not overrun has handled every item after its starting point up *)
(* to the position of its receiver.                                        *)
NoGapInSession ==
  phase \in {"live", "closing"} /\ ~lagged =>
    \A n \in 1..ServerSeqno :
      n > start /\ (n < rxNext \/ n =< lastSent) => n \in offered

(* What is lost is counted: as long as send_or_drop counted no drop,       *)
(* whatever the handler took from the history or the channel has reached   *)
(* the client or is on its way, also past warnings and overruns.           *)
Underway ==
  toSend \cup UNION {m.items : m \in outbox \cup {sendQ[i] : i \in DOMAIN sendQ}}
LossIsCounted ==
  phase # "closed" /\ drops = 0 =>
    \A n \in offered : items[n] \in Wanted => n \in seen \cup Underway

(* The cursor is safe for events: when the client asks to resume after its *)
(* cursor, every event up to the cursor that it was owed has arrived,      *)
(* across any number of lost connections.                                  *)
SeenUpToCursor(kind) ==
  \A n \in 1..ServerSeqno :
     n > base /\ n =< cursor /\ items[n] = kind => n \in seen
EventsNotLost == ~stale => SeenUpToCursor("event")

(* The client catches up: once it is no longer disturbed it has every      *)
(* event it is owed, by replay or live.                                    *)
EventuallyCaughtUp ==
  <>[](\A n \in 1..ServerSeqno : n > base /\ items[n] = "event" => n \in seen)

(* A handler that gave up on its client closes the connection. *)
GivenUpIsClosed == phase \in {"closing", "aborted"} ~> phase = "closed"
----------------------------------------------------------------------------
(* What the documents say and the code does not do. *)

(* ARCHITECTURE.md, resume mode: "Lossless replay of all missed messages". *)
(* Once a connection is over, nothing but a resume after the cursor can    *)
(* bring an item, so what is before the cursor and not seen is lost.       *)
MetricsNotLost == phase = "closed" /\ ~stale => SeenUpToCursor("metric")

(* spec.md 4.3: at the drop limit the client is disconnected. *)
SlowClientDisconnected ==
  drops >= DropLimit => phase \in {"closing", "aborted"}

(* spec.md 5.5: after a restart clients that resume get a snapshot. *)
RestartGivesSnapshot == [][DecideResume => ~stale]_vars

(* server.rs, live loop: "Skip items already sent during cursor replay".   *)
(* What a live session skips was sent by its replay or is part of the      *)
(* state snapshot it was shown.                                            *)
SkippedWasSent ==
  phase = "live" => \A n \in rxNext..lastSent : n \in offered \/ n =< cover
=============================================================================
