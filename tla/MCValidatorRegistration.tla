---------------------- MODULE MCValidatorRegistration ----------------------
(***************************************************************************)
(* Three calls in calm order, or two that overlap on two instances with    *)
(* failing stores and a housekeeper.                                       *)
(***************************************************************************)
EXTENDS ValidatorRegistration, TLC

CONSTANTS i1, i2, f1, f2

MCInstances == {i1, i2}
MCFields == {f1, f2}
MCTraffic == {[calls |-> 3, batch |-> 1, latest |-> 3, calm |-> TRUE],
              [calls |-> 2, batch |-> 2, latest |-> 2, calm |-> FALSE]}
MCSymmetry == Permutations(MCFields) \cup Permutations(MCInstances)
=============================================================================
