-------------------------- MODULE MCBlockSubmission --------------------------
(***************************************************************************)
(* Instances of BlockSubmission for TLC: two slots an epoch, the first     *)
(* epoch in deneb, the second in electra, fulu not scheduled.              *)
(***************************************************************************)
EXTENDS BlockSubmission

MCForkEpoch == [f \in Forks |-> CASE f = "capella" -> 0
                                  [] f = "deneb"   -> 0
                                  [] f = "electra" -> 1
                                  [] f = "fulu"    -> -1]
=============================================================================
