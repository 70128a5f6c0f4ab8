--------------------------- MODULE MCVouchRegistry ---------------------------
(***************************************************************************)
(* Nodes of the contract that nothing tells apart; a lone instance with    *)
(* every fault, one beside another instance without faults, and one beside *)
(* another instance whose calls fail too.                                  *)
(***************************************************************************)
EXTENDS VouchRegistry, TLC

CONSTANTS n1, n2, n3

MCNodes == {n1, n2, n3}
MCSettings == {[faults |-> FaultKinds, restarts |-> 1, others |-> 0],
               [faults |-> {}, restarts |-> 1, others |-> 1],
               [faults |-> {"walk"}, restarts |-> 0, others |-> 1]}

MCSymmetry == Permutations(MCNodes)

(* Walks that fail, and nothing else. *)
FailingWalks == {[faults |-> {"walk"}, restarts |-> 0, others |-> 0]}
=============================================================================
