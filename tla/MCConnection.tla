---------------------------- MODULE MCConnection ----------------------------
(* Two requests that differ in their filters only, so that a comparison    *)
(* that looks one way takes them for the same, and items that tell them    *)
(* apart, from each other and from the channel.                            *)
EXTENDS Connection

Spec1(values) == [event_name |-> "TxnLog",
                  field_filters |-> <<[field |-> "address", values |-> values]>>]
LogsOfA == Spec1(<<"A">>)
LogsOfB == Spec1(<<"B">>)
AllSpecs == {LogsOfA, LogsOfB}

Request(filters) ==
  [items |-> <<"TxnLog", "TPS">>, filters |-> filters, min_stage |-> None]
OnlyA == Request(<<LogsOfA>>)
AandB == Request(<<LogsOfA, LogsOfB>>)
TwoRequests == {OnlyA, AandB}

Event(name, address) ==
  [name |-> name, txn |-> 0, log |-> 0, address |-> address, topics |-> <<>>, value |-> 0]
Item(e) == [kind |-> "Event", event |-> Some(e), stage |-> None]
Metric(kind) == [kind |-> kind, event |-> None, stage |-> None]
SomeItems ==
  {Item(Event("TxnLog", a)) : a \in {"A", "B", "C"}}
    \cup {Item(Event("BlockStart", "A"))}
    \cup {Metric(k) : k \in Metrics}

NoFilter == <<>>
=============================================================================
