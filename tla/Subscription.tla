---------------------------- MODULE Subscription ----------------------------
(***************************************************************************)
(* ClientSubscription of server.rs: what a channel subscribes to, what a   *)
(* subscribe message is turned into, which items a session with a          *)
(* subscription passes on, and when a new subscription counts as the old.  *)
(***************************************************************************)
EXTENDS BlockStage, EventFilter

Metrics == {"TPS", "ContentionData", "TopAccesses", "Lifecycle"}
Channels == {"all", "blocks", "txs", "contention", "lifecycle"}

(* Optional fields are sets of at most one element. *)
None == {}
Some(x) == {x}

Plain(names, metrics) ==
  [event_names |-> names, metrics |-> metrics,
   min_stage |-> None, field_filter |-> None]

FromChannel(channel) ==
  CASE channel = "all" -> Plain({}, Metrics)
    [] channel = "blocks" ->
         Plain({"BlockStart", "BlockEnd", "BlockQC", "BlockFinalized",
                "BlockVerified", "BlockReject"}, {"TPS", "Lifecycle"})
    [] channel = "txs" ->
         Plain({"TxnHeaderStart", "TxnEvmOutput", "TxnLog", "TxnCallFrame",
                "TxnEnd", "TxnReject", "NativeTransfer"}, {})
    [] channel = "contention" -> Plain({}, {"ContentionData"})
    [] channel = "lifecycle" -> Plain({}, {"Lifecycle"})

(* parse_subscribe.  A request is [items, filters, min_stage]; the simple  *)
(* form has neither filters nor a stage.  A name that is neither a metric  *)
(* nor an event is passed over.                                            *)
Parse(request) ==
  [event_names |-> ToSet(request.items) \cap EventNames,
   metrics |-> ToSet(request.items) \cap Metrics,
   min_stage |-> request.min_stage,
   field_filter |-> IF request.filters = <<>> THEN None ELSE Some(request.filters)]

(* The PartialEq derived for ClientSubscription. *)
SameSubscription(a, b) ==
  /\ a.event_names = b.event_names /\ a.metrics = b.metrics
  /\ a.min_stage = b.min_stage
  /\ a.field_filter = None <=> b.field_filter = None
  /\ \A f \in a.field_filter, g \in b.field_filter : SameFilter(f, g)

(* An event whose block has no known stage passes the stage gate; without  *)
(* names every event is wanted and the field filter is not looked at.      *)
ReachedStage(sub, stage) ==
  \A min \in sub.min_stage, s \in stage : Ord[s] >= Ord[min]

WantsEvent(sub, base, e, stage) ==
  /\ MatchesEvent(base, e)
  /\ ReachedStage(sub, stage)
  /\ \/ sub.event_names = {}
     \/ /\ e.name \in sub.event_names
        /\ \A f \in sub.field_filter : MatchesEvent(f, e)

(* process_item_with_seqno: an item is an event with the commit stage its  *)
(* block has when it is processed, or a metric.                            *)
PassesOn(sub, base, item) ==
  \/ item.kind = "Event" /\ \E e \in item.event : WantsEvent(sub, base, e, item.stage)
  \/ item.kind \in Metrics \cap sub.metrics
=============================================================================
