------------------------------ MODULE Broadcast -----------------------------
(***************************************************************************)
(* The publishing half of the event forwarder (server.rs,                  *)
(* run_event_forwarder and its broadcast_item closure): every execution    *)
(* event becomes one "event" item followed by the "metric" items derived   *)
(* from it.  An item is given a server_seqno, pushed to event_history and  *)
(* handed to the broadcast channel in three separate steps; sessions and   *)
(* REST handlers run between them.                                         *)
(***************************************************************************)
EXTENDS Integers, Sequences, FiniteSets, FiniteSetsExt

CONSTANTS
  Batches,      \* what one execution event publishes: sequences of kinds
  MaxHistory,   \* MAX_EVENT_HISTORY (100_000)
  MaxItems      \* bound: items published per server lifetime

Kinds == {"event", "metric"}

ASSUME BroadcastAssumption ==
  /\ Batches \subseteq Seq(Kinds)
  /\ MaxHistory \in Nat \ {0}
  /\ MaxItems \in Nat

VARIABLES
  items,        \* kind of every item, by seqno; its length is server_seqno
  history,      \* seqnos in event_history (entries are in seqno order)
  sent,         \* items handed to the broadcast channel: 1..sent
  batch,        \* what is left to publish of the current event
  step          \* of broadcast_item: "assign", "store" or "send"

forwarderVars == <<items, history, sent, batch, step>>

ServerSeqno == Len(items)

(* Trackers and watch channels are updated before the event is broadcast,  *)
(* so their readers already see the effect of every item of the batch.     *)
Applied == Len(items) + Len(batch)

BroadcastInit ==
  /\ items = <<>> /\ history = {} /\ sent = 0
  /\ batch = <<>> /\ step = "assign"
----------------------------------------------------------------------------
(* An event is received and applied to the trackers. *)
Receive ==
  /\ step = "assign" /\ batch = <<>>
  /\ \E b \in Batches : /\ Len(items) + Len(b) =< MaxItems
                        /\ batch' = b
  /\ UNCHANGED <<items, history, sent, step>>

(* server_seqno.fetch_add(1) *)
Assign ==
  /\ step = "assign" /\ batch # <<>>
  /\ items' = Append(items, Head(batch)) /\ batch' = Tail(batch)
  /\ step' = "store"
  /\ UNCHANGED <<history, sent>>

(* Faulty variant: the length is checked before the push. *)
StoreUnpopped ==
  /\ step = "store"
  /\ history' = (IF Cardinality(history) > MaxHistory
                   THEN history \ {Min(history)} ELSE history)
                 \cup {ServerSeqno}
  /\ step' = "send"
  /\ UNCHANGED <<items, sent, batch>>

(* event_history.push_back, then pop_front while it is too long. *)
Store ==
  /\ step = "store"
  /\ LET grown == history \cup {ServerSeqno} IN
     history' = IF Cardinality(grown) > MaxHistory THEN grown \ {Min(grown)}
                                                   ELSE grown
  /\ step' = "send"
  /\ UNCHANGED <<items, sent, batch>>

(* tx.send *)
Send ==
  /\ step = "send"
  /\ sent' = ServerSeqno /\ step' = "assign"
  /\ UNCHANGED <<items, history, batch>>

Publish == Receive \/ Assign \/ Store \/ Send
----------------------------------------------------------------------------
BroadcastTypeOK ==
  /\ items \in Seq(Kinds) /\ batch \in Seq(Kinds)
  /\ step \in {"assign", "store", "send"}
  /\ step # "assign" => ServerSeqno > 0
  /\ history \subseteq 1..ServerSeqno /\ sent \in 0..ServerSeqno

(* The history a resume reads is the window of the newest items: no hole,  *)
(* nothing older kept, nothing of the window missing, between any two      *)
(* steps of broadcast_item.                                                *)
HistoryIsWindow ==
  LET stored == IF step = "store" THEN ServerSeqno - 1 ELSE ServerSeqno
  IN  history = {n \in 1..stored : n > stored - MaxHistory}
=============================================================================
