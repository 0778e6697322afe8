----------------------------- MODULE EventFilter ----------------------------
(***************************************************************************)
(* event_filter.rs: what a filter lets through, and when two filters are   *)
(* taken to be the same.  A list (Vec) of the code is a sequence here, for *)
(* its order counts where lists are compared.                              *)
(*                                                                         *)
(* An event is [name, txn, log, address, topics, value]; of the fields the *)
(* filters look at txn, log, address and topics in a TxnLog and value in a *)
(* TxnCallFrame.                                                           *)
(***************************************************************************)
EXTENDS Integers, Sequences, SequencesExt

EventNames ==
  {"RecordError", "BlockStart", "BlockReject", "BlockPerfEvmEnter",
   "BlockPerfEvmExit", "BlockEnd", "BlockQC", "BlockFinalized",
   "BlockVerified", "TxnHeaderStart", "TxnAccessListEntry",
   "TxnAuthListEntry", "TxnHeaderEnd", "TxnReject", "TxnPerfEvmEnter",
   "TxnPerfEvmExit", "TxnEvmOutput", "TxnLog", "TxnCallFrame", "TxnEnd",
   "AccountAccessListHeader", "AccountAccess", "StorageAccess", "EvmError",
   "NativeTransfer"}

(* RangeFilter, ExactMatchFilter and ArrayPrefixFilter; an absent bound is *)
(* the empty set.                                                          *)
InRange(f, v) == (\A m \in f.min : m =< v) /\ (\A m \in f.max : v =< m)
OneOf(f, v) == f.values = <<>> \/ v \in ToSet(f.values)
HasPrefix(f, v) == IsPrefix(f.values, v)

(* A field filter matches nothing but a TxnLog. *)
FieldMatches(f, e) ==
  /\ e.name = "TxnLog"
  /\ \/ f.field = "txn_index" /\ InRange(f, e.txn)
     \/ f.field = "log_index" /\ InRange(f, e.log)
     \/ f.field = "address" /\ OneOf(f, e.address)
     \/ f.field = "topics" /\ HasPrefix(f, e.topics)

SpecMatches(spec, e) ==
  /\ e.name = spec.event_name
  /\ \A f \in ToSet(spec.field_filters) : FieldMatches(f, e)

IsNativeTransfer(e) == e.name = "TxnCallFrame" /\ e.value # 0
IncludesNativeTransfers(filter) ==
  \E spec \in ToSet(filter) : spec.event_name = "NativeTransfer"

(* A filter without specs accepts everything; one with a spec for native   *)
(* transfers accepts the call frames that move value.                      *)
MatchesEvent(filter, e) ==
  \/ filter = <<>>
  \/ IncludesNativeTransfers(filter) /\ IsNativeTransfer(e)
  \/ \E spec \in ToSet(filter) : SpecMatches(spec, e)

(* Faulty variant: only one of the two loops. *)
SameFilterOneWay(f, g) == ToSet(f) \subseteq ToSet(g)

(* PartialEq: each contains the other's specs, in any order. *)
SameFilter(f, g) == ToSet(f) \subseteq ToSet(g) /\ ToSet(g) \subseteq ToSet(f)
=============================================================================
