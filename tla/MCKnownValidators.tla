-------------------------- MODULE MCKnownValidators --------------------------
(***************************************************************************)
(* Instances of KnownValidators for TLC: two beacon nodes that disagree on *)
(* one validator.                                                          *)
(***************************************************************************)
EXTENDS KnownValidators

CONSTANTS n1, n2, v1, v2, v3

MCViews == [b \in {n1, n2} |-> IF b = n1 THEN {v1, v2} ELSE {v2, v3}]

MCSeeds == {{}, {v1}}
=============================================================================
