---------------------------- MODULE EventPipeline ---------------------------
(***************************************************************************)
(* From the event ring to the forwarder: the listener thread               *)
(* (event_listener.rs), the bounded channel and the process that waits for *)
(* listener and server (bin/gateway.rs), the state the forwarder keeps per *)
(* block and per transaction (server.rs, run_event_forwarder), and the     *)
(* health check that ends a process whose forwarder is silent.             *)
(***************************************************************************)
EXTENDS BlockFigures, Sequences, SequencesExt

CONSTANTS
  Slots,        \* storage slots: an address and a key
  Feeds,        \* what the execution client may write: sequences of events
  RingCap,      \* descriptors the ring retains
  PayloadCap,   \* newest events whose payload is retained
  QueueCap,     \* capacity of the channel to the forwarder (100_000)
  TableSize     \* length of current_txn_hashes (10_000)

(* The event kinds the forwarder tells apart; "TxnOther" has a transaction *)
(* index and nothing else of interest, "Unknown" is a name the listener    *)
(* does not know.                                                          *)
EventKinds == {"BlockStart", "BlockEnd", "TxnHeaderStart", "TxnEnd",
               "StorageAccess", "TxnOther", "Unknown"}

Event == [kind : EventKinds, block : Nat, slot : Slots, time : Nat,
          txn : {t \in SUBSET Nat : \A i, j \in t : i = j}]

ASSUME PipelineAssumption ==
  /\ RingCap \in Nat \ {0} /\ PayloadCap \in Nat \ {0}
  /\ QueueCap \in Nat \ {0} /\ TableSize \in Nat \ {0}
  /\ Feeds \subseteq Seq(Event)

VARIABLES
  feed,         \* the events, in the order of the ring
  live,         \* the ring is written while it is read (not a snapshot file)
  written,      \* events 1..written are in the ring
  listener,     \* where the listener thread is
  pos,          \* the last event its reader was given
  held,         \* the event it has read and not yet sent (Option)
  queue,        \* the channel: positions of events
  missed,       \* history: events the reader skipped
  forwarder,    \* "running", "dead" (panicked) or "returned"
  hashes,       \* current_txn_hashes: index -> transaction
  handled,      \* history: events the forwarder has handled
  since,        \* history: ... since the last BlockStart, itself included
  perBlock,     \* history: transactions between BlockStarts, oldest first
  output,       \* what the forwarder made of the event it handled last
  process,      \* "up" or "down"
  lastEvent     \* last_event_time: "never", "recent" or "stale" (30 seconds)

ringVars == <<feed, live, written>>
listenerVars == <<listener, pos, held, missed>>
forwarderVars == <<forwarder, hashes, handled, since, perBlock, output,
                   figureVars>>
vars == <<ringVars, listenerVars, queue, forwarderVars, process, lastEvent>>

Silent == [event |-> 0, hash |-> None, tps |-> None, contention |-> None]

Init ==
  /\ feed \in Feeds /\ live \in BOOLEAN
  /\ written = IF live THEN 0 ELSE Len(feed)
  /\ process = "up"
  /\ listener = "opening" /\ pos = 0 /\ held = None /\ missed = {}
  /\ queue = <<>>
  /\ forwarder = "running" /\ hashes = NoEntry
  /\ handled = {} /\ since = {} /\ perBlock = <<>> /\ output = Silent
  /\ FiguresInit
  /\ lastEvent = "never"
----------------------------------------------------------------------------
(* The execution client writes; it does not wait for its readers. *)
Write ==
  /\ live /\ written < Len(feed)
  /\ written' = written + 1
  /\ UNCHANGED <<feed, live, listenerVars, queue, forwarderVars, process,
                 lastEvent>>

Gap == live /\ pos + 1 + RingCap =< written
NotReady == pos = written
Ready == pos < written /\ ~Gap
Expired(n) == live /\ n + PayloadCap =< written

(* The reader gives up its place for the newest event's, which it may or   *)
(* may not be given again.                                                 *)
Reset(lost) ==
  \E p \in {written, Max({pos, written - 1})} :
    pos' = p /\ missed' = missed \cup lost \cup (pos + 1)..p

Open ==
  /\ listener = "opening"
  /\ listener' \in {"ended", IF live THEN "skipping" ELSE "reading"}
  /\ UNCHANGED <<pos, held, missed, queue>>

(* What was in a live ring before the listener is read and thrown away. *)
SkipReady ==
  /\ listener = "skipping" /\ Ready
  /\ pos' = pos + 1 /\ missed' = missed \cup {pos + 1}
  /\ UNCHANGED <<listener, held, queue>>

SkipDone ==
  /\ listener = "skipping" /\ NotReady
  /\ listener' = "reading"
  /\ UNCHANGED <<pos, held, missed, queue>>

ReadGap ==
  /\ listener \in {"skipping", "reading"} /\ Gap
  /\ Reset({})
  /\ UNCHANGED <<listener, held, queue>>

ReadReady ==
  /\ listener = "reading" /\ Ready
  /\ pos' = pos + 1 /\ held' = Some(pos + 1) /\ listener' = "converting"
  /\ UNCHANGED <<missed, queue>>

(* The end of a snapshot file ends the thread; a live ring is polled. *)
ReadEnd ==
  /\ listener = "reading" /\ NotReady /\ ~live
  /\ listener' = "ended"
  /\ UNCHANGED <<pos, held, missed, queue>>

(* event_to_data: the name has to be known and the payload still there; if *)
(* not, the event is given up and the reader reset.                        *)
Converts(n) == feed[n].kind # "Unknown" /\ ~Expired(n)

Convert ==
  /\ listener = "converting" /\ \A n \in held : Converts(n)
  /\ listener' = "sending"
  /\ UNCHANGED <<pos, held, missed, queue>>

GiveUp ==
  /\ listener = "converting" /\ \E n \in held : ~Converts(n)
  /\ Reset(held)
  /\ listener' = "reading" /\ held' = None
  /\ UNCHANGED queue

(* Faulty variant: a full channel loses the event (try_send). *)
SendOrLose ==
  /\ listener = "sending" /\ forwarder = "running"
  /\ queue' = IF Len(queue) < QueueCap
                THEN queue \o SetToSeq(held) ELSE queue
  /\ held' = None /\ listener' = "reading"
  /\ UNCHANGED <<pos, missed>>

(* Faulty variant: the channel has no limit. *)
SendUnbounded ==
  /\ listener = "sending" /\ forwarder = "running"
  /\ queue' = queue \o SetToSeq(held)
  /\ held' = None /\ listener' = "reading"
  /\ UNCHANGED <<pos, missed>>

(* blocking_send waits for a place ... *)
SendToForwarder ==
  /\ listener = "sending" /\ forwarder = "running"
  /\ Len(queue) < QueueCap
  /\ \E n \in held : queue' = Append(queue, n)
  /\ held' = None /\ listener' = "reading"
  /\ UNCHANGED <<pos, missed>>

(* ... and fails when the receiver is gone, which ends the thread. *)
SendFails ==
  /\ listener = "sending" /\ forwarder # "running"
  /\ listener' = "ended" /\ held' = None
  /\ UNCHANGED <<pos, missed, queue>>

Listen ==
  /\ process = "up"
  /\ \/ Open \/ SkipReady \/ SkipDone \/ ReadGap \/ ReadReady \/ ReadEnd
     \/ Convert \/ GiveUp \/ SendToForwarder \/ SendFails
  /\ UNCHANGED <<ringVars, forwarderVars, process, lastEvent>>
----------------------------------------------------------------------------
(* The transaction an event names: its hash, as far as we tell. *)
TxnOf(e) == {<<e.block, i>> : i \in e.txn}

(* Faulty variant: the place is not cleared. *)
AfterEventKeeps(e, table) == table

(* TxnHeaderStart fills the place of its index, TxnEnd clears it. *)
WithHeader(e) ==
  IF e.kind = "TxnHeaderStart"
    THEN [i \in DOMAIN hashes \cup e.txn |->
            IF i \in e.txn THEN <<e.block, i>> ELSE hashes[i]]
    ELSE hashes
AfterEvent(e, table) ==
  IF e.kind = "TxnEnd" THEN [i \in DOMAIN table \ e.txn |-> table[i]]
                       ELSE table

(* The hash an event is published with. *)
Attached(e) == LET table == WithHeader(e) IN
               {table[i] : i \in e.txn \cap DOMAIN table}

Publishes(n, tps, contention) ==
  output' = [event |-> n, hash |-> Attached(feed[n]), tps |-> tps,
             contention |-> contention]
Headers(events) == {n \in events : feed[n].kind = "TxnHeaderStart"}

HandleBlockStart(n, e) ==
  /\ e.kind = "BlockStart"
  /\ OnBlockStart(e.block, e.time) /\ MoveWindow
  /\ Publishes(n, Some(Tps(window')), None)
  /\ since' = {n}
  /\ perBlock' = Append(perBlock, Cardinality(Headers(since)))

HandleBlockEnd(n, e) ==
  /\ e.kind = "BlockEnd"
  /\ \/ current = None /\ Publishes(n, None, None)
     \/ \E data \in OnBlockEnd(e.time) : Publishes(n, None, Some(data))
  /\ since' = since \cup {n}
  /\ UNCHANGED <<figureVars, perBlock>>

HandleTxnHeaderStart(n, e) ==
  /\ e.kind = "TxnHeaderStart"
  /\ RecordTx
  /\ IF e.txn = None THEN UNCHANGED contentionVars
                     ELSE \E i \in e.txn : OnTxnStart(i, e.time)
  /\ Publishes(n, None, None)
  /\ since' = since \cup {n} /\ UNCHANGED perBlock

HandleTxnEnd(n, e) ==
  /\ e.kind = "TxnEnd"
  /\ IF e.txn = None THEN UNCHANGED contentionVars
                     ELSE \E i \in e.txn : OnTxnEnd(i, e.time)
  /\ Publishes(n, None, None)
  /\ since' = since \cup {n} /\ UNCHANGED <<tpsVars, perBlock>>

HandleStorageAccess(n, e) ==
  /\ e.kind = "StorageAccess"
  /\ OnStorageAccess(e.slot, e.txn)
  /\ Publishes(n, None, None)
  /\ since' = since \cup {n} /\ UNCHANGED <<tpsVars, perBlock>>

HandleOther(n, e) ==
  /\ e.kind = "TxnOther"
  /\ Publishes(n, None, None)
  /\ since' = since \cup {n} /\ UNCHANGED <<figureVars, perBlock>>

(* The table is indexed without a check. *)
OutOfTable(e) == e.kind \in {"TxnHeaderStart", "TxnEnd"}
                 /\ \E i \in e.txn : i >= TableSize

Handle ==
  /\ queue # <<>> /\ ~OutOfTable(feed[Head(queue)])
  /\ LET n == Head(queue)
         e == feed[n]
     IN  /\ \/ HandleBlockStart(n, e) \/ HandleBlockEnd(n, e)
            \/ HandleTxnHeaderStart(n, e) \/ HandleTxnEnd(n, e)
            \/ HandleStorageAccess(n, e) \/ HandleOther(n, e)
         /\ hashes' = AfterEvent(e, WithHeader(e))
         /\ handled' = handled \cup {n}
  /\ queue' = Tail(queue)
  /\ lastEvent' = "recent"
  /\ UNCHANGED forwarder

(* A panic ends the forwarder's task and drops the receiver with what was  *)
(* queued; the server goes on without it.                                  *)
Panic ==
  /\ queue # <<>> /\ OutOfTable(feed[Head(queue)])
  /\ forwarder' = "dead" /\ queue' = <<>> /\ lastEvent' = "recent"
  /\ UNCHANGED <<hashes, handled, since, perBlock, output, figureVars>>

(* The sender is gone and the channel drained. *)
Drained ==
  /\ queue = <<>> /\ listener = "ended"
  /\ forwarder' = "returned"
  /\ UNCHANGED <<queue, lastEvent, hashes, handled, since, perBlock, output,
                 figureVars>>

Forward ==
  /\ process = "up" /\ forwarder = "running"
  /\ Handle \/ Panic \/ Drained
  /\ UNCHANGED <<ringVars, listenerVars, process>>
----------------------------------------------------------------------------
(* The process ends with everything it knew. *)
Stop ==
  /\ process' = "down"
  /\ listener' = "ended" /\ pos' = 0 /\ held' = None /\ missed' = {}
  /\ queue' = <<>> /\ forwarder' = "returned" /\ lastEvent' = "never"
  /\ hashes' = NoEntry /\ handled' = {} /\ since' = {} /\ perBlock' = <<>>
  /\ output' = Silent /\ FiguresGone
  /\ UNCHANGED ringVars

(* Faulty variant: main does not look at the listener's thread. *)
ListenerIgnored == process = "up" /\ listener = "ended" /\ UNCHANGED vars

(* main waits for the server and for the listener's thread, and ends with  *)
(* the first of them, whatever is still queued.                            *)
ListenerEnds == process = "up" /\ listener = "ended" /\ Stop
ServerEnds == process = "up" /\ Stop

(* Faulty variant: an old last event only makes the answer negative. *)
HealthAnswers == process = "up" /\ lastEvent = "stale" /\ UNCHANGED vars

(* The health endpoint exits the process if the last event is 30 s old;    *)
(* before the first event it does not.                                     *)
Health == process = "up" /\ lastEvent = "stale" /\ Stop

Age ==
  /\ process = "up" /\ lastEvent = "recent"
  /\ lastEvent' = "stale"
  /\ UNCHANGED <<ringVars, listenerVars, queue, forwarderVars, process>>

Next == Write \/ Listen \/ Forward \/ ListenerEnds \/ ServerEnds \/ Health \/ Age

Spec == Init /\ [][Next]_vars

(* Threads and tasks run, time passes, and the orchestrator calls /health  *)
(* again and again (docker-compose.yml).  Nobody has to write or to stop.  *)
FairSpec == /\ Spec
            /\ WF_vars(Listen) /\ WF_vars(Forward) /\ WF_vars(ListenerEnds)
            /\ WF_vars(Health) /\ WF_vars(Age)
----------------------------------------------------------------------------
Positions == 1..pos

RingTypeOK ==
  /\ feed \in Feeds /\ live \in BOOLEAN /\ written \in 0..Len(feed)
  /\ listener \in {"opening", "skipping", "reading", "converting", "sending",
                   "ended"}
  /\ pos \in 0..written /\ missed \subseteq Positions
  /\ held \subseteq Positions /\ \A m, n \in held : m = n
  /\ held # None <=> listener \in {"converting", "sending"}
  /\ queue \in Seq(Positions) /\ Len(queue) =< QueueCap

ForwarderTypeOK ==
  /\ forwarder \in {"running", "dead", "returned"}
  /\ handled \subseteq Positions /\ since \subseteq handled
  /\ DOMAIN hashes \subseteq 0..(TableSize - 1)
  /\ perBlock \in Seq(Nat) /\ window \in Nat \X Nat \X Nat
  /\ currentTxs \in Nat /\ txnCount \in Nat
  /\ process \in {"up", "down"} /\ lastEvent \in {"never", "recent", "stale"}

(* The type invariant.  The channel stays within its capacity and no entry *)
(* of the hash table is outside of it.                                     *)
TypeOK == RingTypeOK /\ ForwarderTypeOK

(* Nothing is lost silently and nothing comes twice or out of order on the *)
(* way from the ring to the forwarder: what the reader has passed is       *)
(* handled, queued in ring order behind what is handled, held, or was      *)
(* given up at the start, by a gap, an unknown name or an expired payload. *)
InTransit == ToSet(queue) \cup held
Accounted ==
  forwarder = "running" =>
    /\ Positions = handled \cup InTransit \cup missed
    /\ missed \cap (handled \cup InTransit) = {}
    /\ \A m \in handled, n \in InTransit : m < n
    /\ \A i, j \in DOMAIN queue : i < j => queue[i] < queue[j]
    /\ \A i \in DOMAIN queue, n \in held : queue[i] < n

(* An event is published with the hash of its own transaction whenever the *)
(* forwarder got its header, events of other transactions in between or    *)
(* not; and if it did not, a hash left in the place is that of a           *)
(* transaction whose end it did not get either.                            *)
Got(kind, txn) ==
  \E m \in handled : feed[m].kind = kind /\ txn \in TxnOf(feed[m])
HashOfItsTransaction ==
  output.event > 0 =>
    LET own == TxnOf(feed[output.event]) IN
    /\ \A t \in own : Got("TxnHeaderStart", t) => output.hash = {t}
    /\ \A t \in output.hash \ own : ~Got("TxnEnd", t)

(* What this asks of the execution client: it writes the header of a       *)
(* transaction before its end, and until the last event of a transaction   *)
(* that has a header its index is not ended or given to another block.     *)
InTurn(f) ==
  \A m, n \in DOMAIN f :
    f[m].kind = "TxnHeaderStart" /\ TxnOf(f[m]) \cap TxnOf(f[n]) # {} =>
      /\ f[n].kind = "TxnEnd" => m < n
      /\ \A k \in (m + 1)..(n - 1) : f[k].txn = f[m].txn =>
           /\ f[k].kind # "TxnEnd"
           /\ f[k].kind = "TxnHeaderStart" => f[k].block = f[m].block

(* The figures published for a block whose BlockStart the forwarder got    *)
(* are those of the block's own events as far as it got them, and none of  *)
(* an earlier block's: whatever it missed in between.                      *)
OfBlock(b) == {m \in handled : feed[m].block = b}
AccessesTo(b, slot) ==
  {m \in OfBlock(b) : feed[m].kind = "StorageAccess" /\ feed[m].slot = slot}
TxnsAt(b, slot) == UNION {feed[m].txn : m \in AccessesTo(b, slot)}
SlotsOf(b) == {feed[m].slot : m \in {k \in OfBlock(b) : /\ feed[k].kind = "StorageAccess"
                                                        /\ feed[k].txn # None}}
Shared(b) == {s \in SlotsOf(b) : Cardinality(TxnsAt(b, s)) > 1}
Durations(b) ==
  {p \in OfBlock(b) \X OfBlock(b) :
     /\ feed[p[1]].kind = "TxnHeaderStart" /\ feed[p[2]].kind = "TxnEnd"
     /\ feed[p[1]].txn = feed[p[2]].txn /\ feed[p[1]].time < feed[p[2]].time}
SpanSum(f, pairs) == MapThenSumSet(LAMBDA p : f[p[2]].time - f[p[1]].time, pairs)
TopSlotsOf(b, top) ==
  /\ Cardinality(top) = Min({TopSlots, Cardinality(Shared(b))})
  /\ \A x \in top :
       /\ x.slot \in Shared(b)
       /\ x.txns = Cardinality(TxnsAt(b, x.slot))
       /\ x.accesses = Cardinality(AccessesTo(b, x.slot))
       /\ \A s \in Shared(b) : Cardinality(TxnsAt(b, s)) > x.txns =>
            \E y \in top : y.slot = s
TxnsOnBoth(b, pair) ==
  {t \in TxnOf([block |-> b, txn |-> UNION {feed[m].txn : m \in OfBlock(b)}]) :
     \A a \in pair : \E s \in SlotsOf(b) : s.address = a /\ t[2] \in TxnsAt(b, s)}
FiguresOf(b, data) ==
  /\ data.block = b
  /\ data.txns = Cardinality(Headers(OfBlock(b)))
  /\ data.txTime = SpanSum(feed, Durations(b))
  /\ data.slots = Cardinality(SlotsOf(b))
  /\ data.contended = Cardinality(Shared(b))
  /\ TopSlotsOf(b, data.topSlots)
  /\ \A x \in data.edges : x.txns = Cardinality(TxnsOnBoth(b, x.pair))
ContentionOfItsBlock ==
  output.event > 0 =>
    LET b == feed[output.event].block IN
    (\E m \in OfBlock(b) : feed[m].kind = "BlockStart") =>
      \A data \in output.contention : FiguresOf(b, data)

(* What this asks of the execution client: the BlockStart of a block is    *)
(* its first event, its events come one after the other, and a transaction *)
(* has one header, with its index, and one end.                            *)
InBlocks(f) ==
  /\ \A m \in DOMAIN f : f[m].kind = "TxnHeaderStart" => f[m].txn # None
  /\ \A m, n \in DOMAIN f : f[m].block = f[n].block =>
       /\ f[m].kind = "BlockStart" => m =< n
       /\ \A k \in m..n : f[k].block = f[m].block
       /\ f[m].kind = f[n].kind /\ f[m].txn = f[n].txn =>
            m = n \/ f[m].kind \notin {"TxnHeaderStart", "TxnEnd"}

(* Whatever was missed before or in between, what the figures of a block   *)
(* are computed from is what came since the last BlockStart: all of it,    *)
(* each event once, the times of a transaction those of its last events.   *)
InStretch(kind) == {m \in since : feed[m].kind = kind}
Accesses(slot) == {m \in InStretch("StorageAccess") : feed[m].slot = slot}
LastTimes(times, kind) ==
  LET Of(i) == {m \in InStretch(kind) : i \in feed[m].txn} IN
  /\ \A m \in InStretch(kind) : feed[m].txn \subseteq DOMAIN times
  /\ \A i \in DOMAIN times : \E m \in Of(i) : /\ times[i] = feed[m].time
                                            /\ \A k \in Of(i) : k =< m
StretchAccumulated ==
  /\ slotTxns = UNION {{<<feed[m].slot, i>> : i \in feed[m].txn} :
                         m \in InStretch("StorageAccess")}
  /\ txnContracts = UNION {{<<i, feed[m].slot.address>> : i \in feed[m].txn} :
                             m \in InStretch("StorageAccess")}
  /\ \A s \in Slots : CountOf(slotAccesses, s) = Cardinality(Accesses(s))
  /\ LastTimes(txStart, "TxnHeaderStart") /\ LastTimes(txEnd, "TxnEnd")
  /\ \A m \in InStretch("BlockStart") :
       current = Some(feed[m].block) /\ blockStart = feed[m].time

(* The published TPS is that of the last three stretches between two       *)
(* BlockStarts, the newest of which counts half: "Rolling 2.5-block        *)
(* window" (ARCHITECTURE.md).                                              *)
Stretch(k) == LET i == Len(perBlock) - k IN IF i > 0 THEN perBlock[i] ELSE 0
TpsIsWindow ==
  output.tps # None =>
    output.tps = Some((4 * Stretch(2) + 4 * Stretch(1) + 2 * Stretch(0)) \div 4)

(* No transaction is counted twice or forgotten between two BlockStarts.   *)
TxnsCounted == currentTxs = Cardinality(Headers(since))

(* The gateway keeps up: again and again, and for good once the client     *)
(* pauses, all that was written is handled or given up, or the process has *)
(* ended (and the orchestrator starts it again).                           *)
CatchesUp ==
  []<>(process = "down" \/ 1..written \subseteq handled \cup missed)

(* A forwarder that panicked does not stay unnoticed, also when the ring   *)
(* falls silent.                                                           *)
DeadForwarderEnds == forwarder = "dead" ~> process = "down"
=============================================================================
