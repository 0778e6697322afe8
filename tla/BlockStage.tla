----------------------------- MODULE BlockStage -----------------------------
(***************************************************************************)
(* BlockStage of block_lifecycle.rs: the public commit stages of a block,  *)
(* their order and the transition rule.                                    *)
(***************************************************************************)
EXTENDS Integers

Stages == {"Proposed", "Voted", "Finalized", "Verified", "Rejected"}

(* Discriminants of the enum, from which its ordering is derived. *)
Ord == [Proposed |-> 0, Voted |-> 1, Finalized |-> 2, Verified |-> 3,
        Rejected |-> 4]

IsTerminal(s) == s \in {"Verified", "Rejected"}

(* Faulty variant: any other stage is accepted. *)
CanTransitionToAny(s, next) == next # s

(* Forward only, except that a rejection is accepted from any stage. *)
CanTransitionTo(s, next) == next = "Rejected" \/ Ord[next] > Ord[s]

Unknown == "Unknown"           \* no stage has been published for the block
=============================================================================
