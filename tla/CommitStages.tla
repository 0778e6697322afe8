---------------------------- MODULE CommitStages ----------------------------
(***************************************************************************)
(* What the lifecycle feed of the gateway promises its readers: one public *)
(* commit stage per block, which only moves forward, and never again once  *)
(* it is terminal.  Only a new BlockStart of the same block id reopens it. *)
(* This is the abstract specification that BlockLifecycle implements.      *)
(***************************************************************************)
EXTENDS BlockStage

CONSTANT Hash                  \* block ids (B256 proposal hashes)

VARIABLE stage                 \* the last stage published for each block

Init == stage = [h \in Hash |-> Unknown]

Propose(h) == stage' = [stage EXCEPT ![h] = "Proposed"]

Advance(h, s) ==
  /\ stage[h] \in Stages /\ ~IsTerminal(stage[h])
  /\ Ord[s] > Ord[stage[h]]
  /\ stage' = [stage EXCEPT ![h] = s]

Next == \E h \in Hash : Propose(h) \/ \E s \in Stages : Advance(h, s)

Spec == Init /\ [][Next]_stage
=============================================================================
